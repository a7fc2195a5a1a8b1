----------------------------- MODULE TimerSpec -----------------------------
(***************************************************************************)
(* What the user timer module (timeru) promises its clients: a timer that  *)
(* is armed expires once unless it is deleted or armed again, not before   *)
(* its time, and timers expire in the order of their deadlines.            *)
(***************************************************************************)
EXTENDS Naturals

CONSTANTS Client, Timeout

VARIABLES now,     \* the time
          armed,   \* armed[c]: the deadline of c's timer, a set with at most one element
          expired  \* the clients whose timer has expired and was not armed or deleted since

vars == <<now, armed, expired>>

Init == now \in Nat /\ armed = [c \in Client |-> {}] /\ expired = {}

Tick == now' = now + 1 /\ UNCHANGED <<armed, expired>>

Arm(c) ==
    /\ \E t \in Timeout : armed' = [armed EXCEPT ![c] = {now + t}]
    /\ expired' = expired \ {c}
    /\ UNCHANGED now

Delete(c) ==
    /\ armed' = [armed EXCEPT ![c] = {}]
    /\ expired' = expired \ {c}
    /\ UNCHANGED now

Earliest(due) == \A d \in Client : \A other \in armed[d] : due <= other

Expire(c) ==
    /\ \E due \in armed[c] : due <= now /\ Earliest(due)
    /\ armed' = [armed EXCEPT ![c] = {}]
    /\ expired' = expired \cup {c}
    /\ UNCHANGED now

Next == Tick \/ \E c \in Client : Arm(c) \/ Delete(c) \/ Expire(c)

Spec == Init /\ [][Next]_vars
=============================================================================

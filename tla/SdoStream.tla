----------------------------- MODULE SdoStream -----------------------------
(***************************************************************************)
(* What the SDO sequence layer promises the command layers of a connection *)
(* (stack/src/user/sdo/sdo-sequ.c): a stream of data in each direction.    *)
(* What one end sends the other gets in the same order, each frame once    *)
(* and none left out; at most a window of frames is under way.  Frames may *)
(* stay there for ever, for a connection can be lost.                      *)
(***************************************************************************)
EXTENDS Integers

CONSTANTS Node,   \* the two ends
          Window  \* how many frames may be sent and not taken

VARIABLES sent,   \* sent[p]: the data frames that p's command layer has sent
          taken   \* taken[p]: how many of them the other end's command layer has got

vars == <<sent, taken>>

Init == sent = [p \in Node |-> 0] /\ taken = [p \in Node |-> 0]

More(count, p) == [count EXCEPT ![p] = @ + 1]

Send(p) == sent[p] - taken[p] < Window /\ sent' = More(sent, p) /\ UNCHANGED taken

Take(p) == taken[p] < sent[p] /\ taken' = More(taken, p) /\ UNCHANGED sent

\* The other end gets a frame of p and answers from within its callback.
Answer(p, q) ==
    /\ taken[p] < sent[p] /\ taken' = More(taken, p)
    /\ sent[q] - taken[q] < Window /\ sent' = More(sent, q)

Next == \E p \in Node : Send(p) \/ Take(p) \/ \E q \in Node \ {p} : Answer(p, q)

Spec == Init /\ [][Next]_vars
=============================================================================

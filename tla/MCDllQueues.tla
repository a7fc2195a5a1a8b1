---------------------------- MODULE MCDllQueues ----------------------------
(* What the asynchronous phase is made of, for TLC: the circular buffers   *)
(* that hold frames and requests (CircBuf), here one of five blocks with   *)
(* messages of one to five bytes, and the scheduler of the requests        *)
(* (DllkCal), where one node holds two generic frames and the other one of *)
(* each priority.  DllkCal sees its queues as sequences and shares no      *)
(* state with CircBuf, so a behaviour is about one of the two.             *)
EXTENDS CircBuf, DllkCal

\* Messages are told apart by their tag, their bytes by their place.
Text(tag, n) == [i \in 1 .. n |-> <<tag, i>>]
Texts == {Text("x", n) : n \in {0, 1, 4}} \cup {Text("y", 2)}
Pairs == {<<Text("p", 1), Text("q", 2)>>, <<Text("p", 3), Text("q", 1)>>, <<Text("p", 1), <<>>>>}
Sizes == {0, 2, 8}

Busy == CHOOSE n \in Cn : TRUE
TwoFrames == [CnGen |-> [n \in Cn |-> IF n = Busy THEN 2 ELSE 1],
              CnNmt |-> [n \in Cn |-> IF n = Busy THEN 0 ELSE 1]]

VARIABLE part   \* the one that the behaviour is about

QueuesInit == part \in {"buffer", "scheduler"} /\ Init /\ CalInit

BufferStep == part = "buffer" /\ Next /\ UNCHANGED <<part, calVars>>
CalStep == part = "scheduler" /\ CalNext /\ UNCHANGED <<part, vars>>

QueuesNext == BufferStep \/ CalStep

\* The fairness of CalSpec, when the scheduler runs
Scheduled(A) == part = "scheduler" /\ A

QueuesSpec ==
    /\ QueuesInit /\ [][QueuesNext]_<<part, vars, calVars>>
    /\ WF_calVars(Scheduled(SendSoa))
    /\ \A n \in Cn : WF_calVars(Scheduled(Report(n))) /\ SF_calVars(Scheduled(Heard(n)))
=============================================================================

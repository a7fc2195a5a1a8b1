------------------------------ MODULE MCSdoSeq ------------------------------
(* Constants for model checking SdoSeq: two nodes n1 and n2. *)
EXTENDS SdoSeq, TLC

CONSTANTS n1, n2  \* model values

TwoNodes == {n1, n2}
OnlySecond == {n2}
Nobody == {}

\* The first word is n1's value, the second n2's.
Each(m, n) == [p \in TwoNodes |-> IF p = n1 THEN m ELSE n]

\* n1 opens once and sends d frames, nothing goes wrong.
Quiet(d) == [loss |-> 0, dup |-> 0, swap |-> 0, sendFail |-> 0, restart |-> 0, delete |-> 0,
             open |-> Each(1, 0), data |-> Each(d, 0), late |-> FALSE,
             noTimer |-> FALSE]

\* Nine frames over a link that loses two and delays others past the timeout.
Stream == [Quiet(9) EXCEPT !.loss = 2, !.late = TRUE]
\* Both nodes open up to twice, their frames crossing, and send nothing.
Crossing == [Quiet(0) EXCEPT !.open = Each(2, 2)]
Liveness == {Stream, Crossing}

\* Everything but a loss, which a late frame and a restart imply.
Unlucky == [Quiet(2) EXCEPT !.dup = 1, !.swap = 1, !.sendFail = 1, !.restart = 1,
                            !.delete = 1, !.late = TRUE, !.noTimer = TRUE]
\* n1 gives up its first connection; an acknowledge of it is overtaken by the handshake of
\* the second one and comes when that has frames in its history.
LeftOver == [Quiet(2) EXCEPT !.open = Each(2, 0), !.swap = 2, !.delete = 1]
Faulty == {Unlucky, LeftOver}

\* Five frames in a row, nothing goes wrong.
Burst == {Quiet(5)}
=============================================================================

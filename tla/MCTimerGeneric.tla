--------------------------- MODULE MCTimerGeneric ---------------------------
(* TimerGeneric on small pools for TLC. *)
EXTENDS TimerGeneric

CONSTANTS led, nmt, sdo

TwoTimeouts == {1, 2}
=============================================================================

------------------------------ MODULE MCLayers ------------------------------
(* What the kernel part and the user part exchange without a common lock,  *)
(* for TLC: events (EventCal) and process data (PdoTripleBuf).  The two    *)
(* share no state, so a behaviour is about one of them.                    *)
EXTENDS EventCal, PdoTripleBuf

VARIABLE part   \* the one that the behaviour is about

LayersInit == part \in {"events", "process data"} /\ Init /\ PdoInit

EventStep == part = "events" /\ Next /\ UNCHANGED <<part, pdoVars>>
PdoStep == part = "process data" /\ PdoNext /\ UNCHANGED <<part, vars>>

LayersNext == EventStep \/ PdoStep

\* The fairness of FairSpec, when the events run
Running(A) == part = "events" /\ A

LayersSpec ==
    /\ LayersInit /\ [][LayersNext]_<<part, vars, pdoVars>>
    /\ \A t \in Layer : WF_vars(Running(ThreadStep(t)))
    /\ \A c \in Caller : WF_vars(Running(signalEvent(c)))
=============================================================================

------------------------------ MODULE MCNmtMn ------------------------------
(* Instances of NmtMn: a mandatory and an optional controlled node, both of which may fail. *)
EXTENDS NmtMn

(* A cycle length is set in object 1006, without one there is no cycle. *)
AllObjects == [startAll : BOOLEAN, timeoutReadyToOp : BOOLEAN, timeoutCheckCom : {TRUE}]

(* The nodes are started one by one, within a limited time. *)
OneByOne == {od \in AllObjects : ~od.startAll /\ od.timeoutReadyToOp}
=============================================================================

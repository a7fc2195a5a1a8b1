---------------------------- MODULE NmtMnProofs ----------------------------
(***************************************************************************)
(* Proofs about NmtMn, for any number of nodes, mandatory or optional, any *)
(* faults, and any division of the nodes into those to be configured and   *)
(* those that fail:                                                        *)
(*   TypeCorrect    the types, and that no counter leaves its range        *)
(*   SignalCorrect  signalSlaveCount is the number of nodes still marked   *)
(*                                                                         *)
(* Each handler is shown to keep the types, the other nodes, and that the  *)
(* counter is the number of the marked nodes (Keeps).                      *)
(***************************************************************************)
EXTENDS NmtMn, FiniteSetTheorems, SequenceTheorems, TLAPS

NodeRec == [state : NodeStates, flags : SUBSET Flags, exp : CnStates, curr : CnStates,
            timer : TimerKinds, longer : BOOLEAN]
Command == [to : SUBSET Cn, cmd : Commands]
Posted == {"AllMandatoryCNIdent", "EnterReadyToOperate", "EnterMsOperational"}
Mnu == [node : [Cn -> NodeRec], signal : 0 .. CountMod - 1, mandatory : 0 .. CountMod - 1, informed : BOOLEAN,
        ident : SUBSET Cn, status : SUBSET Cn, cmds : Seq(Command), boot : Seq(Posted),
        link : [Cn -> Links], conf : [Cn -> {"stale", "running", "done"}],
        od : [startAll : BOOLEAN, timeoutReadyToOp : BOOLEAN, timeoutCheckCom : BOOLEAN]]

MnStates == {"PreOp1", "PreOp2", "ReadyToOp", "Operational"}
CnView == CnStates \cup {"Enabled"}

Types ==
  /\ mn \in MnStates /\ fTimerMsPreOp2 \in BOOLEAN /\ fAllMandatoryCNIdent \in BOOLEAN /\ residence \in BOOLEAN
  /\ mnu \in Mnu /\ cn \in [Cn -> CnView]

Marked(s) == {c \in Cn : HasFlag(s, c, "notScanned")}
Exact(s) == s.signal = Cardinality(Marked(s))

(* What a handler does to the counter: it marks nobody, and counts down whom it no longer marks. *)
CountsDown(s, t) ==
  /\ t \in Mnu /\ t.informed = s.informed /\ t.boot = s.boot
  /\ Marked(t) \subseteq Marked(s)
  /\ Exact(s) => Exact(t)

(* Nothing of node c is changed, and no command for it is added. *)
Apart(s, t, c) ==
  /\ t.node[c] = s.node[c] /\ t.link[c] = s.link[c] /\ t.conf[c] = s.conf[c]
  /\ c \in t.ident <=> c \in s.ident
  /\ \A i \in DOMAIN s.cmds : i \in DOMAIN t.cmds /\ t.cmds[i] = s.cmds[i]
  /\ \A i \in DOMAIN t.cmds : i \in DOMAIN s.cmds \/ c \notin t.cmds[i].to

(* What a handler for node c does to the counters and to the other nodes. *)
Keeps(s, t, c) ==
  /\ CountsDown(s, t)
  /\ c \notin Mandatory => t.mandatory = s.mandatory
  /\ \A d \in Cn \ {c} : Apart(s, t, d)
  /\ \A d \in Cn \ {c} : d \in t.status <=> d \in s.status

-----------------------------------------------------------------------------
(* Sets and counters *)

LEMMA SubsetsOfCn ==
  ASSUME NEW S \in SUBSET Cn
  PROVE  IsFiniteSet(S) /\ Cardinality(S) \in 0 .. CountMod - 1 /\ Cardinality(S) \in Nat
<1>1. IsFiniteSet(Cn) /\ CountMod \in Nat /\ CountMod > 2 * Cardinality(Cn)
  BY NmtMnAssumption
<1>2. Cardinality(Cn) \in Nat
  BY <1>1, FS_CardinalityType
<1>3. IsFiniteSet(S) /\ Cardinality(S) <= Cardinality(Cn)
  BY <1>1, FS_Subset
<1>4. Cardinality(S) \in Nat
  BY <1>3, FS_CardinalityType
<1> QED BY <1>1, <1>2, <1>3, <1>4

LEMMA LessType ==
  ASSUME NEW n \in 0 .. CountMod - 1
  PROVE  Less(n) \in 0 .. CountMod - 1 /\ (n > 0 => Less(n) = n - 1)
<1>1. CountMod \in Nat /\ CountMod > 0
  <2>1. Cardinality(Cn) \in Nat
    BY NmtMnAssumption, FS_CardinalityType
  <2> QED BY <2>1, NmtMnAssumption
<1> QED BY <1>1 DEF Less

LEMMA SetToSeqType == ASSUME NEW S, IsFiniteSet(S) PROVE SetToSeq(S) \in Seq(S)
<1>1. Cardinality(S) \in Nat /\ ExistsBijection(1 .. Cardinality(S), S)
  BY FS_CardinalityType
<1>2. PICK f \in [1 .. Cardinality(S) -> S] : IsInjective(f)
  BY <1>1 DEF ExistsBijection, Bijection, Injection, Surjection, IsInjective
<1>3. SetToSeq(S) \in [1 .. Cardinality(S) -> S]
  BY <1>2 DEF SetToSeq
<1> QED BY <1>1, <1>3

-----------------------------------------------------------------------------
(* Pieces of the handlers *)

LEMMA MnuType ==
  ASSUME NEW s \in Mnu
  PROVE  /\ s.node \in [Cn -> NodeRec] /\ s.signal \in 0 .. CountMod - 1 /\ s.mandatory \in 0 .. CountMod - 1
         /\ s.informed \in BOOLEAN /\ s.ident \in SUBSET Cn /\ s.status \in SUBSET Cn
         /\ s.cmds \in Seq(Command) /\ s.boot \in Seq(Posted) /\ s.link \in [Cn -> Links]
         /\ s.conf \in [Cn -> {"stale", "running", "done"}]
         /\ s.od.timeoutReadyToOp \in BOOLEAN
         /\ \A c \in Cn : /\ s.node[c].state \in NodeStates /\ s.node[c].flags \subseteq Flags
                          /\ s.node[c].exp \in CnStates /\ s.node[c].curr \in CnStates
                          /\ s.node[c].timer \in TimerKinds /\ s.node[c].longer \in BOOLEAN
BY DEF Mnu, NodeRec

\* The fields besides node and the counter are nothing to CountsDown.
LEMMA CountsRest ==
  ASSUME NEW s \in Mnu, NEW t \in Mnu, t.informed = s.informed, t.boot = s.boot,
         t.signal = s.signal, Marked(t) = Marked(s)
  PROVE  CountsDown(s, t)
BY DEF CountsDown, Exact

LEMMA CountsNodes ==
  ASSUME NEW s \in Mnu, NEW t \in Mnu, t.informed = s.informed, t.boot = s.boot,
         t.signal = s.signal, t.node = s.node
  PROVE  CountsDown(s, t)
<1>1. Marked(t) = Marked(s)
  BY DEF Marked, HasFlag
<1> QED BY <1>1, CountsRest

\* The fields that belong to other nodes, or to none.
SameRest(s, t, c) ==
  /\ t.informed = s.informed /\ t.boot = s.boot /\ t.cmds = s.cmds
  /\ c \notin Mandatory => t.mandatory = s.mandatory
  /\ \A d \in Cn \ {c} : /\ t.link[d] = s.link[d] /\ t.conf[d] = s.conf[d]
                          /\ (d \in t.ident <=> d \in s.ident) /\ (d \in t.status <=> d \in s.status)

LEMMA KeepsNodes ==
  ASSUME NEW s \in Mnu, NEW t \in Mnu, NEW c \in Cn, SameRest(s, t, c), t.signal = s.signal, t.node = s.node
  PROVE  Keeps(s, t, c)
<1>1. CountsDown(s, t)
  BY CountsNodes DEF SameRest
<1> QED BY <1>1 DEF Keeps, Apart, SameRest

LEMMA KeepsSelf == ASSUME NEW s \in Mnu, NEW c \in Cn PROVE Keeps(s, s, c)
BY KeepsNodes DEF SameRest

LEMMA KeepsTrans ==
  ASSUME NEW s, NEW t, NEW u, NEW c, Keeps(s, t, c), Keeps(t, u, c)
  PROVE  Keeps(s, u, c)
<1>1. CountsDown(s, u)
  BY DEF Keeps, CountsDown
<1>2. ASSUME NEW d \in Cn \ {c} PROVE Apart(s, u, d)
  <2>1. Apart(s, t, d) /\ Apart(t, u, d)
    BY DEF Keeps
  <2> QED BY <2>1 DEF Apart
<1>3. \A d \in Cn \ {c} : d \in u.status <=> d \in s.status
  BY DEF Keeps
<1> QED BY <1>1, <1>2, <1>3 DEF Keeps

LEMMA NodePut ==
  ASSUME NEW s \in Mnu, NEW c \in Cn, NEW r \in NodeRec
  PROVE  LET t == [s EXCEPT !.node = [@ EXCEPT ![c] = r]]
         IN /\ t \in Mnu /\ t.signal = s.signal /\ t.informed = s.informed /\ t.boot = s.boot
            /\ t.node = [s.node EXCEPT ![c] = r]
            /\ ("notScanned" \in r.flags <=> HasFlag(s, c, "notScanned")) => Keeps(s, t, c)
<1> DEFINE n == [s.node EXCEPT ![c] = r]
           t == [s EXCEPT !.node = n]
<1>1. n \in [Cn -> NodeRec] /\ n[c] = r /\ \A d \in Cn : d # c => n[d] = s.node[d]
  BY MnuType
<1> HIDE DEF n
<1>2. t \in Mnu /\ t.signal = s.signal /\ t.informed = s.informed /\ t.boot = s.boot /\ t.node = n
  BY <1>1 DEF Mnu
<1>5. t.cmds = s.cmds /\ t.mandatory = s.mandatory /\ t.link = s.link /\ t.conf = s.conf /\ t.ident = s.ident
      /\ t.informed = s.informed /\ t.boot = s.boot /\ t.status = s.status
  BY DEF Mnu
<1> HIDE DEF t
<1>3. ASSUME "notScanned" \in r.flags <=> HasFlag(s, c, "notScanned") PROVE Marked(t) = Marked(s)
  BY <1>1, <1>2, <1>3 DEF Marked, HasFlag
<1>4. ("notScanned" \in r.flags <=> HasFlag(s, c, "notScanned")) => Keeps(s, t, c)
  <2>1. SameRest(s, t, c)
    BY <1>5 DEF SameRest
  <2>2. \A d \in Cn \ {c} : t.node[d] = s.node[d]
    BY <1>1, <1>2
  <2> QED BY <1>2, <1>3, <2>1, <2>2, CountsRest DEF Keeps, Apart, SameRest
<1> QED BY <1>2, <1>4 DEF t, n

LEMMA NodeFields ==
  ASSUME NEW s \in Mnu, NEW c \in Cn
  PROVE  /\ \A st \in NodeStates : Keeps(s, [s EXCEPT !.node[c].state = st], c)
         /\ \A st \in CnStates : Keeps(s, [s EXCEPT !.node[c].exp = st], c) /\ Keeps(s, [s EXCEPT !.node[c].curr = st], c)
         /\ \A k \in TimerKinds : Keeps(s, [s EXCEPT !.node[c].timer = k], c)
         /\ \A b \in BOOLEAN : Keeps(s, [s EXCEPT !.node[c].longer = b], c)
         /\ \A f \in SUBSET Flags : ("notScanned" \in f <=> HasFlag(s, c, "notScanned"))
                                       => Keeps(s, [s EXCEPT !.node[c].flags = f], c)
<1> DEFINE n == s.node[c]
<1>0. n \in NodeRec /\ n.flags = s.node[c].flags
  BY MnuType
<1> HIDE DEF n
<1>1. ASSUME NEW st \in NodeStates PROVE Keeps(s, [s EXCEPT !.node[c].state = st], c)
  <2>1. [n EXCEPT !.state = st] \in NodeRec /\ [n EXCEPT !.state = st].flags = n.flags
    BY <1>0 DEF NodeRec
  <2>2. Keeps(s, [s EXCEPT !.node = [@ EXCEPT ![c] = [n EXCEPT !.state = st]]], c)
    BY <1>0, <2>1, NodePut DEF HasFlag
  <2> QED BY <2>2 DEF n
<1>2. ASSUME NEW st \in CnStates PROVE Keeps(s, [s EXCEPT !.node[c].exp = st], c)
  <2>1. [n EXCEPT !.exp = st] \in NodeRec /\ [n EXCEPT !.exp = st].flags = n.flags
    BY <1>0 DEF NodeRec
  <2>2. Keeps(s, [s EXCEPT !.node = [@ EXCEPT ![c] = [n EXCEPT !.exp = st]]], c)
    BY <1>0, <2>1, NodePut DEF HasFlag
  <2> QED BY <2>2 DEF n
<1>3. ASSUME NEW st \in CnStates PROVE Keeps(s, [s EXCEPT !.node[c].curr = st], c)
  <2>1. [n EXCEPT !.curr = st] \in NodeRec /\ [n EXCEPT !.curr = st].flags = n.flags
    BY <1>0 DEF NodeRec
  <2>2. Keeps(s, [s EXCEPT !.node = [@ EXCEPT ![c] = [n EXCEPT !.curr = st]]], c)
    BY <1>0, <2>1, NodePut DEF HasFlag
  <2> QED BY <2>2 DEF n
<1>4. ASSUME NEW k \in TimerKinds PROVE Keeps(s, [s EXCEPT !.node[c].timer = k], c)
  <2>1. [n EXCEPT !.timer = k] \in NodeRec /\ [n EXCEPT !.timer = k].flags = n.flags
    BY <1>0 DEF NodeRec
  <2>2. Keeps(s, [s EXCEPT !.node = [@ EXCEPT ![c] = [n EXCEPT !.timer = k]]], c)
    BY <1>0, <2>1, NodePut DEF HasFlag
  <2> QED BY <2>2 DEF n
<1>5. ASSUME NEW b \in BOOLEAN PROVE Keeps(s, [s EXCEPT !.node[c].longer = b], c)
  <2>1. [n EXCEPT !.longer = b] \in NodeRec /\ [n EXCEPT !.longer = b].flags = n.flags
    BY <1>0 DEF NodeRec
  <2>2. Keeps(s, [s EXCEPT !.node = [@ EXCEPT ![c] = [n EXCEPT !.longer = b]]], c)
    BY <1>0, <2>1, NodePut DEF HasFlag
  <2> QED BY <2>2 DEF n
<1>6. ASSUME NEW f \in SUBSET Flags, "notScanned" \in f <=> HasFlag(s, c, "notScanned")
      PROVE  Keeps(s, [s EXCEPT !.node[c].flags = f], c)
  <2>1. [n EXCEPT !.flags = f] \in NodeRec /\ [n EXCEPT !.flags = f].flags = f
    BY <1>0 DEF NodeRec
  <2>2. Keeps(s, [s EXCEPT !.node = [@ EXCEPT ![c] = [n EXCEPT !.flags = f]]], c)
    BY <1>6, <2>1, NodePut
  <2> QED BY <2>2 DEF n
<1> QED BY <1>1, <1>2, <1>3, <1>4, <1>5, <1>6

LEMMA Names ==
  /\ \A st \in {"Unknown", "Identified", "ConfRestored", "ResetConf", "Configured", "ReadyToOp", "ComChecked",
                "Operational"} : st \in NodeStates
  /\ \A st \in {"NotActive", "PreOp1", "PreOp2", "ReadyToOp", "Operational"} : st \in CnStates
  /\ \A k \in {"none", "IdentReq", "StatReq", "StateMon"} : k \in TimerKinds
  /\ \A f \in {"isochron", "notScanned", "cmdIssued", "preop2Reached"} : f \in Flags
  /\ \A d \in {"EnableReadyToOperate", "StartNode", "ResetNode", "ResetConfiguration"} : d \in Commands
  /\ \A st \in CnStates \cup {"out", "adding", "gone"} : st \in Links
BY DEF NodeStates, CnStates, TimerKinds, Flags, Commands, Links

LEMMA SetFlagKeeps ==
  ASSUME NEW s \in Mnu, NEW c \in Cn, NEW f \in Flags \ {"notScanned"}
  PROVE  Keeps(s, SetFlag(s, c, f), c)
<1> DEFINE g == s.node[c].flags \cup {f}
<1>1. g \in SUBSET Flags /\ ("notScanned" \in g <=> HasFlag(s, c, "notScanned"))
  BY MnuType DEF HasFlag
<1> HIDE DEF g
<1>2. Keeps(s, [s EXCEPT !.node[c].flags = g], c)
  BY <1>1, NodeFields
<1> QED BY <1>2 DEF g, SetFlag

LEMMA ClearKeeps ==
  ASSUME NEW s \in Mnu, NEW c \in Cn, NEW fs \in SUBSET (Flags \ {"notScanned"})
  PROVE  Keeps(s, Clear(s, c, fs), c)
<1> DEFINE g == s.node[c].flags \ fs
<1>1. g \in SUBSET Flags /\ ("notScanned" \in g <=> HasFlag(s, c, "notScanned"))
  BY MnuType DEF HasFlag
<1> HIDE DEF g
<1>2. Keeps(s, [s EXCEPT !.node[c].flags = g], c)
  BY <1>1, NodeFields
<1> QED BY <1>2 DEF g, Clear

LEMMA ClearMnu == ASSUME NEW s \in Mnu, NEW c \in Cn, NEW fs PROVE Clear(s, c, fs) \in Mnu
<1> DEFINE f == s.node[c].flags \ fs
           r == [s.node[c] EXCEPT !.flags = f]
<1>1. f \in SUBSET Flags /\ s.node[c] \in NodeRec
  BY MnuType
<1> HIDE DEF f
<1>2. r \in NodeRec
  BY <1>1 DEF NodeRec
<1>3. [s EXCEPT !.node = [@ EXCEPT ![c] = r]] \in Mnu
  BY <1>2, NodePut
<1> QED BY <1>3 DEF Clear, f

LEMMA StartKeeps ==
  ASSUME NEW s \in Mnu, NEW c \in Cn, NEW k \in TimerKinds PROVE Keeps(s, Start(s, c, k), c)
BY NodeFields DEF Start

LEMMA TolerateKeeps == ASSUME NEW s \in Mnu, NEW c \in Cn PROVE Keeps(s, Tolerate(s, c), c)
<1>1. Keeps(s, SetFlag(s, c, "cmdIssued"), c)
  BY SetFlagKeeps DEF Flags
<1>2. Keeps(SetFlag(s, c, "cmdIssued"), Start(SetFlag(s, c, "cmdIssued"), c, "StateMon"), c)
  BY <1>1, StartKeeps, Names DEF Keeps, CountsDown
<1> QED BY <1>1, <1>2, KeepsTrans DEF Tolerate

\* The one place where the counter goes down: by one for a node that was marked and is not any more.
LEMMA ScannedKeeps == ASSUME NEW s \in Mnu, NEW c \in Cn PROVE Keeps(s, Scanned(s, c), c)
<1>1. CASE ~HasFlag(s, c, "notScanned")
  BY <1>1, KeepsSelf DEF Scanned
<1>2. CASE HasFlag(s, c, "notScanned")
  <2> DEFINE n == [s.node EXCEPT ![c] = [s.node[c] EXCEPT !.flags = @ \ {"notScanned"}]]
             t == [s EXCEPT !.node = n, !.signal = Less(s.signal)]
  <2>1. s.node[c] \in NodeRec
    BY MnuType
  <2>2. [s.node[c] EXCEPT !.flags = @ \ {"notScanned"}] \in NodeRec
        /\ [s.node[c] EXCEPT !.flags = @ \ {"notScanned"}].flags = s.node[c].flags \ {"notScanned"}
    BY <2>1 DEF NodeRec
  <2>3. n \in [Cn -> NodeRec] /\ n[c].flags = s.node[c].flags \ {"notScanned"} /\ \A d \in Cn : d # c => n[d] = s.node[d]
    BY <2>2, MnuType
  <2>4. Less(s.signal) \in 0 .. CountMod - 1
    BY MnuType, LessType
  <2> HIDE DEF n
  <2>5. t \in Mnu /\ t.node = n /\ t.signal = Less(s.signal) /\ t.informed = s.informed /\ t.boot = s.boot
    BY <2>3, <2>4 DEF Mnu
  <2>9. /\ t.cmds = s.cmds /\ t.mandatory = s.mandatory /\ t.link = s.link /\ t.conf = s.conf /\ t.ident = s.ident
        /\ t.status = s.status /\ \A d \in Cn \ {c} : t.node[d] = s.node[d]
    BY <2>3, <2>5 DEF Mnu
  <2>6. Scanned(s, c) = t
    BY <1>2 DEF Scanned, Clear, n
  <2> HIDE DEF t
  <2>7. Marked(t) = Marked(s) \ {c} /\ c \in Marked(s)
    BY <1>2, <2>3, <2>5 DEF Marked, HasFlag
  <2>8. ASSUME Exact(s) PROVE Exact(t)
    <3>1. Marked(s) \in SUBSET Cn /\ Marked(t) \in SUBSET Cn
      BY DEF Marked
    <3>2. Cardinality(Marked(t)) = Cardinality(Marked(s)) - 1 /\ Cardinality(Marked(s)) \in Nat
          /\ Cardinality(Marked(t)) \in Nat
      BY <2>7, <3>1, SubsetsOfCn, FS_RemoveElement
    <3>3. s.signal > 0 /\ s.signal \in 0 .. CountMod - 1
      BY <2>8, <3>2, MnuType DEF Exact
    <3>4. Less(s.signal) = s.signal - 1
      BY <3>3, LessType
    <3> QED BY <2>5, <2>8, <3>2, <3>4 DEF Exact
  <2>10. CountsDown(s, t)
    BY <2>5, <2>7, <2>8 DEF CountsDown
  <2> QED BY <2>6, <2>9, <2>10 DEF Keeps, Apart
<1> QED BY <1>1, <1>2

LEMMA DoneKeeps == ASSUME NEW s \in Mnu, NEW c \in Cn PROVE Keeps(s, Done(s, c), c)
<1>1. Less(s.mandatory) \in 0 .. CountMod - 1
  BY MnuType, LessType
<1>2. ASSUME c \in Mandatory PROVE Keeps(s, [s EXCEPT !.mandatory = Less(s.mandatory)], c)
  <2>1. [s EXCEPT !.mandatory = Less(s.mandatory)] \in Mnu
    BY <1>1 DEF Mnu
  <2> QED BY <1>2, <2>1, KeepsNodes DEF Mnu, SameRest
<1> QED BY <1>2, KeepsSelf DEF Done

LEMMA RequestKeeps ==
  ASSUME NEW s \in Mnu, NEW c \in Cn
  PROVE  Keeps(s, RequestIdent(s, c), c) /\ Keeps(s, RequestStatus(s, c), c)
<1> DEFINE i == s.ident \cup {c}  st == s.status \cup {c}
<1>1. i \in SUBSET Cn /\ st \in SUBSET Cn
  BY MnuType
<1>4. \A d \in Cn \ {c} : (d \in i <=> d \in s.ident) /\ (d \in st <=> d \in s.status)
  OBVIOUS
<1> HIDE DEF i, st
<1>2. [s EXCEPT !.ident = i] \in Mnu /\ [s EXCEPT !.status = st] \in Mnu
  BY <1>1 DEF Mnu
<1>3. Keeps(s, [s EXCEPT !.ident = i], c) /\ Keeps(s, [s EXCEPT !.status = st], c)
  BY <1>2, <1>4, KeepsNodes DEF Mnu, SameRest
<1> QED BY <1>3 DEF RequestIdent, RequestStatus, i, st

LEMMA SendCounts ==
  ASSUME NEW s \in Mnu, NEW to \in SUBSET Cn, NEW d \in Commands
  PROVE  CountsDown(s, Send(s, to, d))
<1> DEFINE q == Append(s.cmds, [to |-> to, cmd |-> d])
           l == [c \in Cn |-> IF c \in to /\ d \in {"ResetNode", "ResetConfiguration"}
                              THEN Removed(s.link[c]) ELSE s.link[c]]
<1>1. q \in Seq(Command)
  <2>1. [to |-> to, cmd |-> d] \in Command
    BY DEF Command
  <2> HIDE DEF Command
  <2>2. s.cmds \in Seq(Command)
    BY MnuType
  <2> QED BY <2>1, <2>2
<1>2. l \in [Cn -> Links]
  BY MnuType, Names DEF Removed
<1> HIDE DEF q, l
<1>3. [s EXCEPT !.cmds = q, !.link = l] \in Mnu
  BY <1>1, <1>2 DEF Mnu
<1>4. CountsDown(s, [s EXCEPT !.cmds = q, !.link = l])
  BY <1>3, CountsNodes DEF Mnu
<1> QED BY <1>4 DEF Send, q, l

LEMMA SendFields ==
  ASSUME NEW s \in Mnu, NEW to \in SUBSET Cn, NEW d \in Commands
  PROVE  LET t == Send(s, to, d)
         IN /\ t.cmds = Append(s.cmds, [to |-> to, cmd |-> d])
            /\ t.link = [c \in Cn |-> IF c \in to /\ d \in {"ResetNode", "ResetConfiguration"}
                                     THEN Removed(s.link[c]) ELSE s.link[c]]
            /\ t.node = s.node /\ t.mandatory = s.mandatory /\ t.conf = s.conf /\ t.ident = s.ident
            /\ t.status = s.status /\ t.informed = s.informed /\ t.boot = s.boot
BY DEF Send, Mnu

LEMMA SendKeeps ==
  ASSUME NEW s \in Mnu, NEW c \in Cn, NEW d \in Commands
  PROVE  Keeps(s, Send(s, {c}, d), c)
<1> DEFINE t == Send(s, {c}, d)
           e == [to |-> {c}, cmd |-> d]
<1>1. CountsDown(s, t)
  BY SendCounts
<1>2. /\ t.cmds = Append(s.cmds, e) /\ t.node = s.node /\ t.mandatory = s.mandatory /\ t.conf = s.conf
      /\ t.ident = s.ident /\ t.status = s.status /\ \A b \in Cn \ {c} : t.link[b] = s.link[b]
  <2>1. /\ t.cmds = Append(s.cmds, e) /\ t.node = s.node /\ t.mandatory = s.mandatory /\ t.conf = s.conf
        /\ t.ident = s.ident /\ t.status = s.status
        /\ t.link = [b \in Cn |-> IF b \in {c} /\ d \in {"ResetNode", "ResetConfiguration"}
                                 THEN Removed(s.link[b]) ELSE s.link[b]]
    BY DEF Send, Mnu
  <2> HIDE DEF t
  <2> QED BY <2>1
<1>3. e.to = {c} /\ e \in Command
  BY DEF Command
<1> HIDE DEF t, e
<1>4. /\ \A i \in DOMAIN s.cmds : i \in DOMAIN t.cmds /\ t.cmds[i] = s.cmds[i]
      /\ \A i \in DOMAIN t.cmds : i \in DOMAIN s.cmds \/ t.cmds[i] = e
  <2>1. s.cmds \in Seq(Command)
    BY MnuType
  <2> HIDE DEF Command
  <2> QED BY <1>2, <1>3, <2>1
<1>5. ASSUME NEW b \in Cn \ {c} PROVE Apart(s, t, b)
  BY <1>2, <1>3, <1>4 DEF Apart
<1> QED BY <1>1, <1>2, <1>5 DEF Keeps, t

-----------------------------------------------------------------------------
(* The handlers *)

LEMMA Step ==
  ASSUME NEW s, NEW t, NEW c, Keeps(s, t, c) PROVE t \in Mnu
BY DEF Keeps, CountsDown

LEMMA NodeBootStep2Keeps == ASSUME NEW s \in Mnu, NEW c \in Cn PROVE Keeps(s, NodeBootStep2(s, c), c)
<1> DEFINE t == Send(s, {c}, "EnableReadyToOperate")
<1>1. Keeps(s, t, c)
  BY SendKeeps, Names
<1> DEFINE l == t.node[c].longer \/ s.od.timeoutReadyToOp
<1> HIDE DEF t
<1>4. l \in BOOLEAN
  BY <1>1, Step, MnuType
<1> HIDE DEF l
<1>2. Keeps(t, [t EXCEPT !.node[c].longer = l], c)
  BY <1>1, <1>4, Step, NodeFields
<1>3. Keeps(s, [t EXCEPT !.node[c].longer = l], c)
  BY <1>1, <1>2, KeepsTrans
<1> QED BY <1>3, KeepsSelf DEF NodeBootStep2, t, l

LEMMA NodeCheckComKeeps == ASSUME NEW s \in Mnu, NEW c \in Cn PROVE Keeps(s, NodeCheckCom(s, c), c)
BY NodeFields, Names DEF NodeCheckCom

LEMMA ReachedPreOp2Keeps ==
  ASSUME NEW s \in Mnu, NEW m, NEW c \in Cn PROVE Keeps(s, ReachedPreOp2(s, m, c), c)
<1> DEFINE t == SetFlag(s, c, "preop2Reached")
           l == [t.link EXCEPT ![c] = IF @ = "out" THEN "adding" ELSE @]
<1>1. Keeps(s, t, c) /\ t \in Mnu
  BY SetFlagKeeps, Step DEF Flags
<1>2. l \in [Cn -> Links]
  BY <1>1, MnuType, Names
<1>7. \A d \in Cn \ {c} : l[d] = t.link[d]
  BY <1>1, MnuType
<1> HIDE DEF t, l
<1>3. [t EXCEPT !.link = l] \in Mnu
  BY <1>1, <1>2 DEF Mnu
<1>4. Keeps(t, [t EXCEPT !.link = l], c)
  BY <1>1, <1>3, <1>7, KeepsNodes DEF Mnu, SameRest
<1>5. Keeps(t, NodeBootStep2(t, c), c)
  BY <1>1, NodeBootStep2Keeps
<1>6. Keeps(s, [t EXCEPT !.link = l], c) /\ Keeps(s, NodeBootStep2(t, c), c) /\ Keeps(s, s, c)
  BY <1>1, <1>4, <1>5, KeepsTrans, KeepsSelf
<1> QED BY <1>1, <1>6 DEF ReachedPreOp2, t, l

(* What checkNmtState returns: a record with the state and the verdict *)
Kept(s, r, c) == \E t \in Mnu, b \in BOOLEAN : r = [s |-> t, ok |-> b] /\ Keeps(s, t, c)

LEMMA KeptVerdict ==
  ASSUME NEW s \in Mnu, NEW t, NEW c, Keeps(s, t, c) PROVE Kept(s, Accept(t), c) /\ Kept(s, Reject(t), c)
<1>1. t \in Mnu
  BY Step
<1> QED BY <1>1 DEF Kept, Accept, Reject

LEMMA KeptState == ASSUME NEW s, NEW r, NEW c, Kept(s, r, c) PROVE Keeps(s, r.s, c) /\ r.s \in Mnu
<1>1. PICK t \in Mnu, b \in BOOLEAN : r = [s |-> t, ok |-> b] /\ Keeps(s, t, c)
  BY DEF Kept
<1>2. r.s = t
  BY <1>1
<1> QED BY <1>1, <1>2

LEMMA UpdateKeeps ==
  ASSUME NEW s \in Mnu, NEW r, NEW c \in Cn, Kept(s, r, c), NEW st \in CnStates
  PROVE  Kept(s, Update(r, c, st), c)
<1>1. PICK t \in Mnu, b \in BOOLEAN : r = [s |-> t, ok |-> b] /\ Keeps(s, t, c)
  BY DEF Kept
<1> DEFINE u == [t EXCEPT !.node[c].curr = st]
<1>2. Keeps(t, u, c)
  BY NodeFields
<1>3. Keeps(s, u, c) /\ u \in Mnu
  BY <1>1, <1>2, KeepsTrans, Step
<1>4. [r EXCEPT !.s.node[c].curr = st] = [s |-> u, ok |-> b]
  BY <1>1
<1> QED BY <1>3, <1>4 DEF Update, Kept

LEMMA ReachedReadyToOpKeeps ==
  ASSUME NEW s \in Mnu, NEW m, NEW c \in Cn PROVE Kept(s, ReachedReadyToOp(s, m, c), c)
<1> DEFINE s1 == [s EXCEPT !.node[c].longer = FALSE]
           s2 == [s1 EXCEPT !.node[c].state = "ReadyToOp"]
           s3 == [s2 EXCEPT !.node[c].exp = "ReadyToOp"]
           t == Done(s3, c)
           k == NodeCheckCom(t, c)
<1>0. [s EXCEPT !.node[c].longer = FALSE, !.node[c].state = "ReadyToOp", !.node[c].exp = "ReadyToOp"] = s3
  OBVIOUS
<1>1. Keeps(s, s1, c) /\ s1 \in Mnu
  BY NodeFields, Step
<1> HIDE DEF s1
<1>2. Keeps(s1, s2, c) /\ s2 \in Mnu
  BY <1>1, NodeFields, Names, Step
<1> HIDE DEF s2
<1>3. Keeps(s2, s3, c) /\ s3 \in Mnu
  BY <1>2, NodeFields, Names, Step
<1> HIDE DEF s3
<1>4. Keeps(s3, t, c) /\ t \in Mnu
  BY <1>3, DoneKeeps, Step
<1>5. Keeps(s, t, c)
  BY <1>1, <1>2, <1>3, <1>4, KeepsTrans
<1> HIDE DEF t
<1>6. Keeps(t, k, c) /\ k \in Mnu
  BY <1>4, NodeCheckComKeeps, Step
<1> HIDE DEF k
<1>7. Keeps(k, Send(k, {c}, "StartNode"), c)
  BY <1>6, SendKeeps, Names
<1>8. Keeps(s, k, c) /\ Keeps(s, Send(k, {c}, "StartNode"), c)
  BY <1>5, <1>6, <1>7, KeepsTrans
<1>9. Kept(s, Accept(t), c) /\ Kept(s, Reject(k), c) /\ Kept(s, Accept(k), c) /\ Kept(s, Accept(Send(k, {c}, "StartNode")), c)
  BY <1>5, <1>8, KeptVerdict
<1> QED BY <1>0, <1>9 DEF ReachedReadyToOp, k, t

LEMMA WrongStateKeeps == ASSUME NEW s \in Mnu, NEW c \in Cn PROVE Keeps(s, WrongState(s, c), c)
<1> DEFINE t == Scanned(s, c)
           u == [t EXCEPT !.node[c].state = "Unknown"]
<1>1. Keeps(s, t, c) /\ t \in Mnu
  BY ScannedKeeps, Step
<1> HIDE DEF t
<1>2. Keeps(t, u, c) /\ u \in Mnu
  BY <1>1, NodeFields, Names, Step
<1> HIDE DEF u
<1>3. Keeps(u, Send(u, {c}, "ResetNode"), c)
  BY <1>2, SendKeeps, Names
<1>4. Keeps(s, Send(u, {c}, "ResetNode"), c)
  BY <1>1, <1>2, <1>3, KeepsTrans
<1> QED BY <1>4 DEF WrongState, u, t

LEMMA CheckNmtStateKeeps ==
  ASSUME NEW s \in Mnu, NEW m, NEW c \in Cn, NEW st \in CnStates, NEW error \in BOOLEAN
  PROVE  Kept(s, CheckNmtState(s, m, c, st, error), c)
<1> DEFINE o == [s EXCEPT !.node[c].state = "Operational"]
<1>1. Keeps(s, o, c) /\ o \in Mnu
  BY NodeFields, Names, Step
<1> HIDE DEF o
<1>2. Keeps(s, Done(o, c), c)
  BY <1>1, DoneKeeps, KeepsTrans
<1>3. Keeps(s, s, c) /\ Keeps(s, ReachedPreOp2(s, m, c), c) /\ Keeps(s, WrongState(s, c), c)
  BY KeepsSelf, ReachedPreOp2Keeps, WrongStateKeeps
<1>4. /\ Kept(s, Accept(Done(o, c)), c) /\ Kept(s, Accept(s), c) /\ Kept(s, Reject(s), c)
      /\ Kept(s, Accept(ReachedPreOp2(s, m, c)), c) /\ Kept(s, Reject(WrongState(s, c)), c)
      /\ Kept(s, ReachedReadyToOp(s, m, c), c)
  BY <1>2, <1>3, KeptVerdict, ReachedReadyToOpKeeps
<1>5. /\ Kept(s, Update(Accept(Done(o, c)), c, st), c) /\ Kept(s, Update(Accept(s), c, st), c)
      /\ Kept(s, Update(Reject(s), c, st), c) /\ Kept(s, Update(Accept(ReachedPreOp2(s, m, c)), c, st), c)
      /\ Kept(s, Update(Reject(WrongState(s, c)), c, st), c) /\ Kept(s, Update(ReachedReadyToOp(s, m, c), c, st), c)
  BY <1>4, UpdateKeeps
<1> QED BY <1>4, <1>5 DEF CheckNmtState, o

LEMMA OnlyCheckKeeps ==
  ASSUME NEW s \in Mnu, NEW m, NEW c \in Cn, NEW st \in CnStates, NEW error \in BOOLEAN
  PROVE  Keeps(s, OnlyCheck(s, m, c, st, error), c)
BY CheckNmtStateKeeps, KeptState DEF OnlyCheck

LEMMA ConfiguredKeeps == ASSUME NEW s \in Mnu, NEW m, NEW c \in Cn PROVE Keeps(s, Configured(s, m, c), c)
<1> DEFINE t == [s EXCEPT !.node[c].state = "Configured"]
<1>1. Keeps(s, t, c) /\ t \in Mnu
  BY NodeFields, Names, Step
<1> HIDE DEF t
<1>2. Keeps(s, Done(t, c), c) /\ Keeps(s, NodeBootStep2(t, c), c) /\ Keeps(s, s, c)
  BY <1>1, DoneKeeps, NodeBootStep2Keeps, KeepsTrans, KeepsSelf
<1> QED BY <1>2 DEF Configured, t

LEMMA BootKeeps == ASSUME NEW s \in Mnu, NEW m, NEW c \in Cn PROVE Keeps(s, Boot(s, m, c), c)
<1>1. Keeps(s, [s EXCEPT !.conf[c] = "running"], c)
  <2>1. [s EXCEPT !.conf[c] = "running"] \in Mnu
    BY DEF Mnu
  <2>2. \A d \in Cn \ {c} : [s EXCEPT !.conf[c] = "running"].conf[d] = s.conf[d]
    BY MnuType DEF Mnu
  <2> QED BY <2>1, <2>2, KeepsNodes DEF Mnu, SameRest
<1> QED BY <1>1, ConfiguredKeeps DEF Boot

LEMMA IdentResponseKeeps ==
  ASSUME NEW s \in Mnu, NEW m, NEW c \in Cn, NEW st \in CnStates
  PROVE  Keeps(s, IdentResponse(s, m, c, st), c)
<1> DEFINE known == s.node[c].state \in {"ResetConf", "ConfRestored"}
           named == [s EXCEPT !.node[c].state = IF known THEN @ ELSE "Identified"]
           found == Clear(named, c, {"isochron", "cmdIssued", "preop2Reached"})
           heard == Scanned(found, c)
           timed == IF st = "PreOp1" THEN Tolerate(found, c) ELSE found
           expecting == IF m = "PreOp1" THEN [heard EXCEPT !.node[c].exp = "PreOp1"]
                        ELSE [timed EXCEPT !.node[c].exp = "PreOp2"]
           r == CheckNmtState(expecting, m, c, st, FALSE)
           asked == IF HasFlag(r.s, c, "cmdIssued") THEN r.s ELSE RequestStatus(r.s, c)
<1>1. Keeps(s, named, c) /\ named \in Mnu
  <2>1. (IF known THEN s.node[c].state ELSE "Identified") \in NodeStates
    BY Names, MnuType
  <2> QED BY <2>1, NodeFields, Step
<1> HIDE DEF named
<1>2. Keeps(named, found, c) /\ found \in Mnu
  BY <1>1, ClearKeeps, Step DEF Flags
<1> HIDE DEF found
<1>3. Keeps(found, heard, c) /\ heard \in Mnu /\ Keeps(found, timed, c) /\ timed \in Mnu
  BY <1>2, ScannedKeeps, TolerateKeeps, KeepsSelf, Step
<1> HIDE DEF heard, timed
<1>4. Keeps(found, expecting, c) /\ expecting \in Mnu
  <2>1. Keeps(found, [heard EXCEPT !.node[c].exp = "PreOp1"], c)
    BY <1>3, NodeFields, Names, KeepsTrans
  <2>2. Keeps(found, [timed EXCEPT !.node[c].exp = "PreOp2"], c)
    BY <1>3, NodeFields, Names, KeepsTrans
  <2> QED BY <2>1, <2>2, Step
<1>5. Keeps(s, expecting, c)
  BY <1>1, <1>2, <1>4, KeepsTrans
<1>6. Kept(expecting, r, c)
  <2> HIDE DEF expecting
  <2> QED BY <1>4, CheckNmtStateKeeps
<1>7. Keeps(s, r.s, c) /\ r.s \in Mnu
  <2> HIDE DEF r, expecting
  <2>1. Keeps(expecting, r.s, c) /\ r.s \in Mnu
    BY <1>6, KeptState
  <2> QED BY <1>5, <2>1, KeepsTrans
<1>8. IdentResponse(s, m, c, st) = IF ~r.ok THEN r.s ELSE Boot(asked, m, c)
  BY DEF IdentResponse, named, found, heard, timed
<1> HIDE DEF r
<1>9. Keeps(s, asked, c) /\ asked \in Mnu
  BY <1>7, RequestKeeps, KeepsTrans, Step
<1> HIDE DEF asked
<1>10. Keeps(s, Boot(asked, m, c), c)
  BY <1>9, BootKeeps, KeepsTrans
<1> QED BY <1>7, <1>8, <1>10

LEMMA NoIdentResponseKeeps ==
  ASSUME NEW s \in Mnu, NEW m, NEW c \in Cn PROVE Keeps(s, NoIdentResponse(s, m, c), c)
<1> DEFINE scanned == IF m = "PreOp1" THEN Scanned(s, c) ELSE s
           known == s.node[c].state \in {"ResetConf", "ConfRestored"}
           t == [scanned EXCEPT !.node[c].state = IF known THEN @ ELSE "Unknown"]
           r == CheckNmtState(t, m, c, "NotActive", FALSE)
<1>1. Keeps(s, scanned, c) /\ scanned \in Mnu
  BY ScannedKeeps, KeepsSelf, Step
<1>2. Keeps(scanned, t, c) /\ t \in Mnu
  <2> HIDE DEF scanned
  <2>1. (IF known THEN scanned.node[c].state ELSE "Unknown") \in NodeStates
    BY <1>1, Names, MnuType
  <2> QED BY <1>1, <2>1, NodeFields, Step
<1>3. Kept(t, r, c)
  <2> HIDE DEF t
  <2> QED BY <1>2, CheckNmtStateKeeps, Names
<1>4. Keeps(s, r.s, c) /\ r.s \in Mnu
  <2> HIDE DEF r, t, scanned
  <2>1. Keeps(t, r.s, c) /\ r.s \in Mnu
    BY <1>3, KeptState
  <2> QED BY <1>1, <1>2, <2>1, KeepsTrans
<1>5. NoIdentResponse(s, m, c) = IF FullCycle(m) THEN Start(r.s, c, "IdentReq") ELSE RequestIdent(r.s, c)
  BY DEF NoIdentResponse
<1> HIDE DEF r
<1>6. Keeps(s, Start(r.s, c, "IdentReq"), c) /\ Keeps(s, RequestIdent(r.s, c), c)
  BY <1>4, StartKeeps, RequestKeeps, Names, KeepsTrans
<1> QED BY <1>5, <1>6

LEMMA StatusResponseKeeps ==
  ASSUME NEW s \in Mnu, NEW m, NEW c \in Cn, NEW st \in CnStates
  PROVE  Keeps(s, StatusResponse(s, m, c, st), c)
<1> DEFINE t == IF FullCycle(m) THEN Scanned(s, c) ELSE s
           r == CheckNmtState(t, m, c, st, FALSE)
<1>1. Keeps(s, t, c) /\ t \in Mnu
  BY ScannedKeeps, KeepsSelf, Step
<1>2. Kept(t, r, c)
  <2> HIDE DEF t
  <2> QED BY <1>1, CheckNmtStateKeeps
<1>3. Keeps(s, r.s, c) /\ r.s \in Mnu
  <2> HIDE DEF r, t
  <2>1. Keeps(t, r.s, c) /\ r.s \in Mnu
    BY <1>2, KeptState
  <2> QED BY <1>1, <2>1, KeepsTrans
<1>4. StatusResponse(s, m, c, st) =
        IF ~r.ok THEN r.s
        ELSE IF m = "PreOp1" THEN RequestStatus(r.s, c)
        ELSE IF HasFlag(r.s, c, "isochron") THEN r.s ELSE Start(r.s, c, "StatReq")
  BY DEF StatusResponse
<1> HIDE DEF r
<1>5. Keeps(s, Start(r.s, c, "StatReq"), c) /\ Keeps(s, RequestStatus(r.s, c), c)
  BY <1>3, StartKeeps, RequestKeeps, Names, KeepsTrans
<1> QED BY <1>3, <1>4, <1>5

LEMMA TimerLongerKeeps == ASSUME NEW s \in Mnu, NEW m, NEW c \in Cn PROVE Keeps(s, TimerLonger(s, m, c), c)
<1> DEFINE u == [s EXCEPT !.node[c].state = "ComChecked"]
           t == Done(Scanned(u, c), c)
<1>1. Keeps(s, u, c) /\ u \in Mnu
  BY NodeFields, Names, Step
<1> HIDE DEF u
<1>2. Keeps(u, Scanned(u, c), c) /\ Scanned(u, c) \in Mnu
  BY <1>1, ScannedKeeps, Step
<1>3. Keeps(Scanned(u, c), t, c) /\ t \in Mnu
  BY <1>2, DoneKeeps, Step
<1>4. Keeps(s, t, c)
  BY <1>1, <1>2, <1>3, KeepsTrans
<1> HIDE DEF t
<1>5. Keeps(t, Send(t, {c}, "StartNode"), c)
  BY <1>3, SendKeeps, Names
<1>6. Keeps(s, Send(t, {c}, "StartNode"), c) /\ Keeps(s, s, c) /\ Keeps(s, OnlyCheck(s, m, c, "NotActive", TRUE), c)
  BY <1>4, <1>5, KeepsTrans, KeepsSelf, OnlyCheckKeeps, Names
<1> QED BY <1>4, <1>6 DEF TimerLonger, t, u

LEMMA TimerStatReqKeeps == ASSUME NEW s \in Mnu, NEW c \in Cn PROVE Keeps(s, TimerStatReq(s, c), c)
<1> DEFINE t == Clear(s, c, {"cmdIssued"})
<1>1. Keeps(s, t, c) /\ t \in Mnu
  BY ClearKeeps, Step DEF Flags
<1> HIDE DEF t
<1>2. Keeps(s, RequestStatus(t, c), c)
  BY <1>1, RequestKeeps, KeepsTrans
<1> QED BY <1>2, RequestKeeps DEF TimerStatReq, t

-----------------------------------------------------------------------------
(* What is done to all nodes at once *)

LEMMA NodesPut ==
  ASSUME NEW s \in Mnu, NEW n \in [Cn -> NodeRec]
  PROVE  LET t == [s EXCEPT !.node = n]
         IN /\ t \in Mnu /\ t.signal = s.signal /\ t.informed = s.informed /\ t.boot = s.boot /\ t.node = n
            /\ (\A c \in Cn : "notScanned" \in n[c].flags <=> HasFlag(s, c, "notScanned")) => CountsDown(s, t)
<1> DEFINE t == [s EXCEPT !.node = n]
<1>1. t \in Mnu /\ t.signal = s.signal /\ t.informed = s.informed /\ t.boot = s.boot /\ t.node = n
  BY DEF Mnu
<1> HIDE DEF t
<1>2. ASSUME \A c \in Cn : "notScanned" \in n[c].flags <=> HasFlag(s, c, "notScanned") PROVE Marked(t) = Marked(s)
  BY <1>1, <1>2 DEF Marked, HasFlag
<1> QED BY <1>1, <1>2, CountsRest DEF t

LEMMA NmtCmdSentKeeps ==
  ASSUME NEW s \in Mnu, NEW to, NEW cmd PROVE CountsDown(s, NmtCmdSent(s, to, cmd))
<1> DEFINE reset == cmd \in {"ResetNode", "ResetConfiguration"}
           Sent(n) == IF reset THEN [n EXCEPT !.exp = "NotActive", !.timer = "IdentReq"]
                      ELSE [n EXCEPT !.exp = IF cmd = "StartNode" THEN "Operational" ELSE "PreOp2",
                                     !.timer = "StateMon", !.flags = @ \cup {"cmdIssued"}]
           n == [c \in Cn |-> IF c \in to THEN Sent(s.node[c]) ELSE s.node[c]]
<1>1. ASSUME NEW r \in NodeRec
      PROVE  Sent(r) \in NodeRec /\ ("notScanned" \in Sent(r).flags <=> "notScanned" \in r.flags)
  BY Names DEF NodeRec
<1> HIDE DEF Sent
<1>2. n \in [Cn -> NodeRec] /\ \A c \in Cn : "notScanned" \in n[c].flags <=> HasFlag(s, c, "notScanned")
  BY <1>1, MnuType DEF HasFlag
<1>3. NmtCmdSent(s, to, cmd) = [s EXCEPT !.node = n]
  BY DEF NmtCmdSent, Sent
<1> HIDE DEF n
<1> QED BY <1>2, <1>3, NodesPut

\* Await marks the nodes of counted, besides those that are marked.
LEMMA AwaitMarks ==
  ASSUME NEW s \in Mnu, NEW counted \in SUBSET Cn, NEW mandatory \in SUBSET Cn
  PROVE  LET t == Await(s, counted, mandatory)
         IN /\ t \in Mnu /\ t.informed = FALSE /\ t.boot = s.boot
            /\ t.signal = Cardinality(counted) /\ Marked(t) = Marked(s) \cup counted
<1> DEFINE n == [c \in Cn |-> IF c \in counted THEN [s.node[c] EXCEPT !.flags = @ \cup {"notScanned"}] ELSE s.node[c]]
           a == Cardinality(counted)  b == Cardinality(mandatory)
           t == [s EXCEPT !.informed = FALSE, !.signal = a, !.mandatory = b, !.node = n]
<1>1. ASSUME NEW r \in NodeRec
      PROVE  /\ [r EXCEPT !.flags = @ \cup {"notScanned"}] \in NodeRec
             /\ [r EXCEPT !.flags = @ \cup {"notScanned"}].flags = r.flags \cup {"notScanned"}
  BY Names DEF NodeRec
<1>2. /\ n \in [Cn -> NodeRec]
      /\ \A c \in Cn : "notScanned" \in n[c].flags <=> c \in counted \/ HasFlag(s, c, "notScanned")
  BY <1>1, MnuType DEF HasFlag
<1>3. a \in 0 .. CountMod - 1 /\ b \in 0 .. CountMod - 1
  BY SubsetsOfCn
<1>4. Await(s, counted, mandatory) = t
  BY DEF Await
<1> HIDE DEF n
<1>5. t \in Mnu /\ t.informed = FALSE /\ t.boot = s.boot /\ t.signal = a /\ t.node = n
  BY <1>2, <1>3 DEF Mnu
<1> HIDE DEF t
<1>6. Marked(t) = Marked(s) \cup counted
  BY <1>2, <1>5 DEF Marked, HasFlag
<1> QED BY <1>4, <1>5, <1>6

\* doPreop1 marks all nodes, whatever was marked before.
LEMMA DoPreop1Marks ==
  ASSUME NEW s \in Mnu, NEW late
  PROVE  LET t == DoPreop1(s, late)
         IN t \in Mnu /\ t.informed = FALSE /\ t.boot = s.boot /\ Exact(t)
<1> DEFINE l == [c \in Cn |-> Removed(s.link[c])]
           n == [c \in Cn |-> [s.node[c] EXCEPT !.state = "Unknown", !.longer = FALSE,
                                                !.flags = @ \ {"isochron"},
                                                !.timer = IF c \in late THEN @ ELSE "none"]]
           u == [s EXCEPT !.ident = {}, !.status = {}, !.link = l, !.node = n]
           r == Send(u, Cn, "ResetNode")
<1>1. l \in [Cn -> Links]
  BY MnuType, Names DEF Removed
<1>2. n \in [Cn -> NodeRec]
  <2>1. ASSUME NEW c \in Cn PROVE n[c] \in NodeRec
    <3>1. s.node[c] \in NodeRec /\ (IF c \in late THEN s.node[c].timer ELSE "none") \in TimerKinds
      BY MnuType, Names
    <3> QED BY <3>1, Names DEF NodeRec
  <2> QED BY <2>1
<1>3. DoPreop1(s, late) = Await(r, Cn, Mandatory)
  BY DEF DoPreop1
<1> HIDE DEF l, n
<1>4. u \in Mnu /\ u.boot = s.boot
  BY <1>1, <1>2 DEF Mnu
<1> HIDE DEF u
<1>5. r \in Mnu /\ r.boot = s.boot
  BY <1>4, SendCounts, Names DEF CountsDown
<1> HIDE DEF r
<1>6. Mandatory \in SUBSET Cn
  BY NmtMnAssumption
<1> DEFINE t == Await(r, Cn, Mandatory)
<1>7. /\ t \in Mnu /\ t.informed = FALSE /\ t.boot = r.boot
      /\ t.signal = Cardinality(Cn) /\ Marked(t) = Marked(r) \cup Cn
  BY <1>5, <1>6, AwaitMarks
<1> HIDE DEF t
<1>8. Marked(t) = Cn
  BY <1>7 DEF Marked
<1> QED BY <1>3, <1>5, <1>7, <1>8 DEF Exact, t

\* Entering one of the later states: the count begins anew, provided that no node is left from the last.
Enters(s, t) ==
  /\ t \in Mnu /\ t.informed = FALSE /\ t.boot = s.boot
  /\ Marked(s) = {} => Exact(t)

LEMMA AwaitEnters ==
  ASSUME NEW s \in Mnu, NEW r, CountsDown(s, r), NEW counted \in SUBSET Cn, NEW mandatory \in SUBSET Cn
  PROVE  Enters(s, Await(r, counted, mandatory))
<1> DEFINE t == Await(r, counted, mandatory)
<1>1. r \in Mnu /\ r.boot = s.boot /\ Marked(r) \subseteq Marked(s)
  BY DEF CountsDown
<1>2. /\ t \in Mnu /\ t.informed = FALSE /\ t.boot = r.boot
      /\ t.signal = Cardinality(counted) /\ Marked(t) = Marked(r) \cup counted
  BY <1>1, AwaitMarks
<1> HIDE DEF t
<1>3. Marked(s) = {} => Marked(t) = counted
  BY <1>1, <1>2
<1> QED BY <1>1, <1>2, <1>3 DEF Enters, Exact, t

LEMMA StartBootStep2Enters == ASSUME NEW s \in Mnu PROVE Enters(s, StartBootStep2(s))
<1> DEFINE expecting == {c \in Cn : s.node[c].exp = "PreOp1"}
           boot == expecting \cap InState(s, "Configured")
           n == [c \in Cn |-> IF c \notin expecting THEN s.node[c]
                              ELSE [s.node[c] EXCEPT !.exp = "PreOp2", !.timer = "StateMon",
                                                     !.flags = @ \cup {"cmdIssued"}]]
           r == [s EXCEPT !.node = n]
<1>1. n \in [Cn -> NodeRec] /\ \A c \in Cn : "notScanned" \in n[c].flags <=> HasFlag(s, c, "notScanned")
  <2>1. ASSUME NEW c \in Cn PROVE n[c] \in NodeRec /\ ("notScanned" \in n[c].flags <=> HasFlag(s, c, "notScanned"))
    <3>1. s.node[c] \in NodeRec
      BY MnuType
    <3> QED BY <3>1, Names DEF NodeRec, HasFlag
  <2> QED BY <2>1
<1>2. StartBootStep2(s) = Await(r, boot, boot \cap Mandatory)
  BY DEF StartBootStep2
<1>3. boot \in SUBSET Cn /\ boot \cap Mandatory \in SUBSET Cn
  OBVIOUS
<1> HIDE DEF n, boot
<1>4. CountsDown(s, r)
  BY <1>1, NodesPut
<1> HIDE DEF r
<1> QED BY <1>2, <1>3, <1>4, AwaitEnters

LEMMA StartCheckComEnters == ASSUME NEW s \in Mnu PROVE Enters(s, StartCheckCom(s))
<1> DEFINE ready == InState(s, "ReadyToOp")
           timed == {c \in ready : Timed(s, c)}
           n == [c \in Cn |-> IF c \in timed THEN [s.node[c] EXCEPT !.longer = TRUE]
                              ELSE IF c \in ready THEN [s.node[c] EXCEPT !.state = "ComChecked"] ELSE s.node[c]]
           r == [s EXCEPT !.node = n]
<1>1. n \in [Cn -> NodeRec] /\ \A c \in Cn : "notScanned" \in n[c].flags <=> HasFlag(s, c, "notScanned")
  <2>1. ASSUME NEW c \in Cn PROVE n[c] \in NodeRec /\ ("notScanned" \in n[c].flags <=> HasFlag(s, c, "notScanned"))
    <3>1. s.node[c] \in NodeRec
      BY MnuType
    <3> QED BY <3>1, Names DEF NodeRec, HasFlag
  <2> QED BY <2>1
<1>2. StartCheckCom(s) = Await(r, ready, timed \cap Mandatory)
  BY DEF StartCheckCom
<1>3. ready \in SUBSET Cn /\ timed \cap Mandatory \in SUBSET Cn
  BY DEF InState
<1> HIDE DEF n, ready, timed
<1>4. CountsDown(s, r)
  BY <1>1, NodesPut
<1> HIDE DEF r
<1> QED BY <1>2, <1>3, <1>4, AwaitEnters

LEMMA StartNodesEnters == ASSUME NEW s \in Mnu PROVE Enters(s, StartNodes(s))
<1> DEFINE checked == InState(s, "ComChecked")
           start == IF s.od.startAll THEN {Cn} ELSE {{c} : c \in checked}
           cmds == {[to |-> to, cmd |-> "StartNode"] : to \in start}
           q == s.cmds \o SetToSeq(cmds)
           r == [s EXCEPT !.cmds = q]
<1>1. checked \in SUBSET Cn /\ checked \cap Mandatory \in SUBSET Cn
  BY DEF InState
<1>2. start \subseteq SUBSET Cn
  BY <1>1
<1>3. cmds \subseteq Command
  BY <1>2, Names DEF Command
<1>4. IsFiniteSet(start)
  <2> DEFINE f == [c \in checked |-> {c}]
  <2>1. IsFiniteSet(checked)
    BY <1>1, SubsetsOfCn
  <2>2. f \in Surjection(checked, {{c} : c \in checked})
    BY DEF Surjection
  <2>3. IsFiniteSet({{c} : c \in checked})
    BY <2>1, <2>2, FS_Surjection
  <2> QED BY <2>3, FS_Singleton
<1>5. IsFiniteSet(cmds)
  <2> DEFINE f == [to \in start |-> [to |-> to, cmd |-> "StartNode"]]
  <2> HIDE DEF start
  <2>1. f \in Surjection(start, cmds)
    BY DEF Surjection
  <2> QED BY <1>4, <2>1, FS_Surjection
<1>6. StartNodes(s) = Await(r, checked, checked \cap Mandatory)
  BY DEF StartNodes
<1> HIDE DEF checked, cmds
<1>7. SetToSeq(cmds) \in Seq(Command)
  <2>1. SetToSeq(cmds) \in Seq(cmds)
    BY <1>5, SetToSeqType
  <2> QED BY <1>3, <2>1
<1>8. q \in Seq(Command)
  <2>1. s.cmds \in Seq(Command)
    BY MnuType
  <2> HIDE DEF Command
  <2> QED BY <1>7, <2>1
<1> HIDE DEF q
<1>9. CountsDown(s, r)
  <2>1. r \in Mnu
    BY <1>8 DEF Mnu
  <2> QED BY <2>1, CountsNodes DEF Mnu
<1> HIDE DEF r
<1> QED BY <1>1, <1>6, <1>9, AwaitEnters

-----------------------------------------------------------------------------
(* The invariant *)

(* The event that ends the boot step of the present state is the last one in the queue, and it is there *)
(* only when it has been told; later states have no event of another state before it.                   *)
Queued(m, informed, boot) ==
  IF m = "PreOp1" THEN \A i \in DOMAIN boot : boot[i] = "AllMandatoryCNIdent" => i = Len(boot) /\ informed
  ELSE boot = <<>> \/ (informed /\ m # "Operational" /\ boot = <<BootEvent[m]>>)

(* Who is told has waited for all nodes. *)
Counted(s, m) == Exact(s) /\ (s.informed => s.signal = 0) /\ Queued(m, s.informed, s.boot)

(* Without a waiting time PRE_OPERATIONAL_1 is left by the event of the nodes, never by its timer. *)
Phase ==
  /\ fAllMandatoryCNIdent = FALSE
  /\ residence => mn = "PreOp1"
  /\ ~residence => fTimerMsPreOp2

Inv == Types /\ (~Waits => Phase /\ Counted(mnu, mn))

LEMMA KeepsCounted ==
  ASSUME NEW s \in Mnu, NEW t, CountsDown(s, t), NEW m, Counted(s, m) PROVE Counted(t, m)
<1>1. t \in Mnu /\ t.informed = s.informed /\ t.boot = s.boot /\ Marked(t) \subseteq Marked(s) /\ Exact(t)
  BY DEF CountsDown, Counted
<1>2. ASSUME s.signal = 0 PROVE t.signal = 0
  <2>1. Marked(s) \in SUBSET Cn
    BY DEF Marked
  <2>2. Marked(s) = {}
    BY <1>2, <2>1, SubsetsOfCn, FS_EmptySet DEF Counted, Exact
  <2>3. Marked(t) = {}
    BY <1>1, <2>2
  <2> QED BY <1>1, <2>3, FS_EmptySet DEF Exact
<1> QED BY <1>1, <1>2 DEF Counted

LEMMA BootCheckCounted ==
  ASSUME NEW s \in Mnu, NEW m \in MnStates
  PROVE  BootCheck(s, m) \in Mnu /\ (Counted(s, m) => Counted(BootCheck(s, m), m))
<1>1. CASE s.informed \/ s.signal # 0 \/ s.mandatory # 0
  BY <1>1 DEF BootCheck
<1>2. CASE ~(s.informed \/ s.signal # 0 \/ s.mandatory # 0)
  <2> DEFINE b == IF m \in DOMAIN BootEvent THEN Append(s.boot, BootEvent[m]) ELSE s.boot
             t == [s EXCEPT !.informed = TRUE, !.boot = b]
  <2>1. b \in Seq(Posted)
    <3>1. m \in DOMAIN BootEvent => BootEvent[m] \in Posted
      BY DEF BootEvent, Posted
    <3>2. s.boot \in Seq(Posted)
      BY MnuType
    <3> QED BY <3>1, <3>2
  <2>2. BootCheck(s, m) = t
    BY <1>2 DEF BootCheck
  <2> HIDE DEF b
  <2>3. t \in Mnu /\ t.informed = TRUE /\ t.boot = b /\ t.signal = s.signal /\ t.node = s.node
    BY <2>1 DEF Mnu
  <2> HIDE DEF t
  <2>4. ASSUME Counted(s, m) PROVE Counted(t, m)
    <3>1. Marked(t) = Marked(s)
      BY <2>3 DEF Marked, HasFlag
    <3>2. Exact(t) /\ t.signal = 0
      BY <1>2, <2>3, <2>4, <3>1 DEF Counted, Exact
    <3>3. Queued(m, s.informed, s.boot) /\ ~s.informed /\ s.boot \in Seq(Posted)
      BY <1>2, <2>4, MnuType DEF Counted
    <3>4. ASSUME m = "PreOp1" PROVE Queued(m, t.informed, t.boot)
      <4>1. b = Append(s.boot, "AllMandatoryCNIdent")
        BY <3>4 DEF b, BootEvent
      <4>2. \A i \in DOMAIN s.boot : s.boot[i] # "AllMandatoryCNIdent"
        BY <3>3, <3>4 DEF Queued
      <4>3. \A i \in DOMAIN b : b[i] = "AllMandatoryCNIdent" => i = Len(b)
        BY <3>3, <4>1, <4>2
      <4> QED BY <2>3, <3>4, <4>3 DEF Queued
    <3>5. ASSUME m # "PreOp1" PROVE Queued(m, t.informed, t.boot)
      <4>1. s.boot = <<>>
        BY <3>3, <3>5 DEF Queued
      <4>2. CASE m = "Operational"
        <5>1. m \notin DOMAIN BootEvent
          BY <4>2 DEF BootEvent
        <5>2. b = <<>>
          BY <4>1, <5>1 DEF b
        <5>3. t.boot = <<>>
          BY <2>3, <5>2
        <5> QED BY <3>5, <5>3, Zenon DEF Queued
      <4>3. CASE m # "Operational"
        <5>1. m \in DOMAIN BootEvent
          BY <3>5, <4>3 DEF BootEvent, MnStates
        <5>2. b = <<BootEvent[m]>>
          BY <4>1, <5>1 DEF b
        <5> QED BY <2>3, <3>5, <4>3, <5>2 DEF Queued
      <4> QED BY <4>2, <4>3
    <3> QED BY <3>2, <3>4, <3>5 DEF Counted
  <2> QED BY <2>2, <2>3, <2>4
<1> QED BY <1>1, <1>2

\* A step that ends a handler, or that only changes what CountsDown does not see.
LEMMA HandlerInv ==
  ASSUME Inv, UNCHANGED <<mn, fTimerMsPreOp2, fAllMandatoryCNIdent, residence>>, cn' \in [Cn -> CnView],
         NEW s, CountsDown(mnu, s), mnu' = s \/ mnu' = BootCheck(s, mn)
  PROVE  Inv'
<1>1. s \in Mnu /\ mnu \in Mnu /\ mn \in MnStates
  BY DEF Inv, Types, CountsDown
<1>2. BootCheck(s, mn) \in Mnu
  BY <1>1, BootCheckCounted
<1>3. Types'
  BY <1>1, <1>2 DEF Inv, Types
<1>4. ASSUME ~Waits PROVE Phase' /\ Counted(mnu', mn')
  <2>1. Phase /\ Counted(mnu, mn)
    BY <1>4 DEF Inv
  <2>2. Counted(s, mn) /\ Counted(BootCheck(s, mn), mn)
    BY <1>1, <2>1, KeepsCounted, BootCheckCounted
  <2> QED BY <2>1, <2>2 DEF Phase
<1> QED BY <1>3, <1>4 DEF Inv

-----------------------------------------------------------------------------
(* The actions *)

LEMMA Reports == \A st \in CnView : Reported(st) \in CnStates
BY DEF CnView, CnStates, Reported

LEMMA InitInv == ASSUME Init PROVE Inv
<1>0. PICK od \in Objects :
       mnu = DoPreop1([node |-> [c \in Cn |-> NewNode], signal |-> 0, mandatory |-> 0, informed |-> FALSE,
                       ident |-> {}, status |-> {}, cmds |-> <<>>, boot |-> <<>>,
                       link |-> [c \in Cn |-> "out"],
                       conf |-> [c \in Cn |-> IF c \in ToConfigure THEN "stale" ELSE "done"],
                       od |-> od], {})
  BY DEF Init
<1> DEFINE s == [node |-> [c \in Cn |-> NewNode], signal |-> 0, mandatory |-> 0, informed |-> FALSE,
                 ident |-> {}, status |-> {}, cmds |-> <<>>, boot |-> <<>>,
                 link |-> [c \in Cn |-> "out"],
                 conf |-> [c \in Cn |-> IF c \in ToConfigure THEN "stale" ELSE "done"],
                 od |-> od]
<1>1. NewNode \in NodeRec
  BY Names DEF NewNode, NodeRec
<1>2. [c \in Cn |-> NewNode] \in [Cn -> NodeRec] /\ [c \in Cn |-> "out"] \in [Cn -> Links]
      /\ [c \in Cn |-> IF c \in ToConfigure THEN "stale" ELSE "done"] \in [Cn -> {"stale", "running", "done"}]
  BY <1>1, Names
<1>3. 0 \in 0 .. CountMod - 1
  <2>1. {} \in SUBSET Cn
    OBVIOUS
  <2> QED BY <2>1, SubsetsOfCn, FS_EmptySet
<1>4. <<>> \in Seq(Command) /\ <<>> \in Seq(Posted)
  OBVIOUS
<1>5. s \in Mnu /\ s.boot = <<>>
  BY <1>2, <1>3, <1>4, NmtMnAssumption DEF Mnu
<1>6. mnu = DoPreop1(s, {})
  BY <1>0
<1> HIDE DEF s
<1>7. mnu \in Mnu /\ mnu.informed = FALSE /\ mnu.boot = <<>> /\ Exact(mnu)
  BY <1>5, <1>6, DoPreop1Marks
<1>8. Types
  BY <1>7 DEF Init, Types, MnStates, CnView, CnStates
<1>9. Phase
  BY DEF Init, Phase
<1>10. Counted(mnu, mn)
  <2>1. DOMAIN <<>> = {}
    OBVIOUS
  <2>2. mn = "PreOp1" /\ mnu.boot = <<>> /\ \A i \in DOMAIN mnu.boot : FALSE
    BY <1>7, <2>1 DEF Init
  <2>3. Queued(mn, mnu.informed, mnu.boot)
    BY <2>2, Zenon DEF Queued
  <2> QED BY <1>7, <2>3 DEF Counted
<1> QED BY <1>8, <1>9, <1>10 DEF Inv

(* A handler for node c that leaves the other nodes alone, possibly with the check at its end. *)
Handled(c) ==
  /\ UNCHANGED <<mn, fTimerMsPreOp2, fAllMandatoryCNIdent, residence>>
  /\ \E s \in Mnu : Keeps(mnu, s, c) /\ (mnu' = s \/ mnu' = BootCheck(s, mn))

LEMMA HandledInv == ASSUME Inv, NEW c \in Cn, Handled(c), cn' = cn PROVE Inv'
<1>1. PICK s \in Mnu : Keeps(mnu, s, c) /\ (mnu' = s \/ mnu' = BootCheck(s, mn))
  BY DEF Handled
<1>2. CountsDown(mnu, s)
  BY <1>1 DEF Keeps
<1>3. cn' \in [Cn -> CnView]
  BY DEF Inv, Types
<1> QED BY <1>1, <1>2, <1>3, HandlerInv DEF Handled

LEMMA IdentHandled == ASSUME Types, NEW c \in Cn, Ident(c) PROVE Handled(c)
<1> DEFINE s == [mnu EXCEPT !.ident = @ \ {c}]
<1>1. mnu \in Mnu /\ cn[c] \in CnView /\ cn \in [Cn -> CnView]
  BY DEF Types, Ident
<1>2. Reported(cn[c]) \in CnStates
  BY <1>1, Reports
<1>3. Keeps(mnu, s, c) /\ s \in Mnu
  <2>1. mnu.ident \ {c} \in SUBSET Cn
    BY <1>1, MnuType
  <2>2. s \in Mnu
    BY <1>1, <2>1 DEF Mnu
  <2> QED BY <1>1, <2>2, KeepsNodes DEF Mnu, SameRest
<1>4. /\ UNCHANGED <<mn, fTimerMsPreOp2, fAllMandatoryCNIdent, residence>>
      /\ \/ mnu' = BootCheck(IdentResponse(s, mn, c, Reported(cn[c])), mn)
         \/ mnu' = BootCheck(NoIdentResponse(s, mn, c), mn)
  BY DEF Ident, Handle, Steady
<1> HIDE DEF s
<1>5. Keeps(mnu, IdentResponse(s, mn, c, Reported(cn[c])), c) /\ Keeps(mnu, NoIdentResponse(s, mn, c), c)
  BY <1>2, <1>3, IdentResponseKeeps, NoIdentResponseKeeps, KeepsTrans
<1> QED BY <1>1, <1>4, <1>5, Step DEF Handled

LEMMA StatusHandled == ASSUME Types, NEW c \in Cn, Status(c) PROVE Handled(c)
<1> DEFINE s == [mnu EXCEPT !.status = @ \ {c}]
<1>1. mnu \in Mnu /\ cn[c] \in CnView /\ cn \in [Cn -> CnView]
  BY DEF Types, Status
<1>2. Reported(cn[c]) \in CnStates
  BY <1>1, Reports
<1>3. Keeps(mnu, s, c) /\ s \in Mnu
  <2>1. mnu.status \ {c} \in SUBSET Cn
    BY <1>1, MnuType
  <2>2. s \in Mnu
    BY <1>1, <2>1 DEF Mnu
  <2> QED BY <1>1, <2>2, KeepsNodes DEF Mnu, SameRest
<1>4. /\ UNCHANGED <<mn, fTimerMsPreOp2, fAllMandatoryCNIdent, residence>>
      /\ \/ mnu' = BootCheck(StatusResponse(s, mn, c, Reported(cn[c])), mn)
         \/ mnu' = BootCheck(OnlyCheck(s, mn, c, "NotActive", TRUE), mn)
  BY DEF Status, Handle, Steady
<1> HIDE DEF s
<1>5. Keeps(mnu, StatusResponse(s, mn, c, Reported(cn[c])), c) /\ Keeps(mnu, OnlyCheck(s, mn, c, "NotActive", TRUE), c)
  BY <1>2, <1>3, StatusResponseKeeps, OnlyCheckKeeps, Names, KeepsTrans
<1> QED BY <1>1, <1>4, <1>5, Step DEF Handled

LEMMA CmdSentInv == ASSUME Inv, CmdSent PROVE Inv'
<1> DEFINE e == Head(mnu.cmds)
           s == [mnu EXCEPT !.cmds = Tail(@)]
<1>1. mnu \in Mnu /\ mnu.cmds # <<>> /\ cn \in [Cn -> CnView]
  BY DEF Inv, Types, CmdSent
<1>2. CountsDown(mnu, s) /\ s \in Mnu
  <2>1. Tail(mnu.cmds) \in Seq(Command)
    <3> HIDE DEF Command
    <3>1. mnu.cmds \in Seq(Command)
      BY <1>1, MnuType
    <3> QED BY <1>1, <3>1
  <2>2. s \in Mnu
    BY <1>1, <2>1 DEF Mnu
  <2> QED BY <1>1, <2>2, CountsNodes DEF Mnu
<1>3. /\ UNCHANGED <<mn, fTimerMsPreOp2, fAllMandatoryCNIdent, residence>>
      /\ mnu' = NmtCmdSent(s, e.to, e.cmd)
  BY DEF CmdSent, Steady
<1>4. cn' \in [Cn -> CnView]
  <2>1. \A c \in Cn : Obey(cn[c], e.cmd) \in CnView /\ cn[c] \in CnView
    BY <1>1 DEF Obey, CnView, CnStates
  <2>2. PICK H : cn' = [c \in Cn |-> IF c \in e.to \cap H THEN Obey(cn[c], e.cmd) ELSE cn[c]]
    BY DEF CmdSent
  <2> HIDE DEF e
  <2> QED BY <2>1, <2>2
<1> HIDE DEF s, e
<1>5. CountsDown(mnu, NmtCmdSent(s, e.to, e.cmd))
  BY <1>2, NmtCmdSentKeeps DEF CountsDown
<1> QED BY <1>3, <1>4, <1>5, HandlerInv

LEMMA NodeAddedHandled == ASSUME Types, NEW c \in Cn, NodeAdded(c) PROVE Handled(c)
<1> DEFINE l == [mnu.link EXCEPT ![c] = IF @ = "adding" THEN "NotActive" ELSE "out"]
           u == [mnu EXCEPT !.link = l]
           s == SetFlag(u, c, "isochron")
<1>1. mnu \in Mnu /\ cn \in [Cn -> CnView]
  BY DEF Types, NodeAdded
<1>2. l \in [Cn -> Links] /\ \A d \in Cn \ {c} : l[d] = mnu.link[d]
  BY <1>1, MnuType, Names
<1>3. /\ UNCHANGED <<mn, fTimerMsPreOp2, fAllMandatoryCNIdent, residence>>
      /\ mnu' = s \/ mnu' = NodeBootStep2(s, c)
  BY DEF NodeAdded, Steady
<1> HIDE DEF l
<1>4. Keeps(mnu, u, c) /\ u \in Mnu
  <2>1. u \in Mnu
    BY <1>1, <1>2 DEF Mnu
  <2> QED BY <1>1, <1>2, <2>1, KeepsNodes DEF Mnu, SameRest
<1> HIDE DEF u
<1>5. Keeps(u, s, c) /\ s \in Mnu
  BY <1>4, SetFlagKeeps, Step DEF Flags
<1> HIDE DEF s
<1>6. Keeps(mnu, s, c) /\ Keeps(mnu, NodeBootStep2(s, c), c)
  BY <1>4, <1>5, NodeBootStep2Keeps, KeepsTrans
<1> QED BY <1>1, <1>3, <1>6, Step DEF Handled

LEMMA LinkKeeps ==
  ASSUME NEW s \in Mnu, NEW c \in Cn, NEW l \in Links PROVE Keeps(s, [s EXCEPT !.link[c] = l], c)
<1>1. [s EXCEPT !.link[c] = l] \in Mnu
  BY DEF Mnu
<1> QED BY <1>1, KeepsNodes DEF Mnu, SameRest

LEMMA HeartbeatHandled == ASSUME Types, NEW c \in Cn, Heartbeat(c) PROVE Handled(c)
<1> DEFINE st == Reported(cn[c])
           s == [mnu EXCEPT !.link[c] = st]
<1>1. mnu \in Mnu /\ cn[c] \in CnView /\ cn \in [Cn -> CnView]
  BY DEF Types, Heartbeat
<1>2. st \in CnStates /\ st \in Links
  BY <1>1, Reports, Names
<1>3. /\ UNCHANGED <<mn, fTimerMsPreOp2, fAllMandatoryCNIdent, residence>>
      /\ mnu' = BootCheck(OnlyCheck(s, mn, c, st, FALSE), mn)
  BY DEF Heartbeat, Handle, Steady
<1> HIDE DEF st
<1>4. Keeps(mnu, s, c) /\ s \in Mnu
  BY <1>1, <1>2, LinkKeeps, Step
<1> HIDE DEF s
<1>5. Keeps(mnu, OnlyCheck(s, mn, c, st, FALSE), c)
  BY <1>2, <1>4, OnlyCheckKeeps, KeepsTrans
<1> QED BY <1>1, <1>3, <1>5, Step DEF Handled

LEMMA LossPresHandled == ASSUME Types, NEW c \in Cn, LossPres(c) PROVE Handled(c)
<1> DEFINE s == [mnu EXCEPT !.link[c] = "out"]
<1>1. mnu \in Mnu /\ cn \in [Cn -> CnView]
  BY DEF Types, LossPres
<1>2. /\ UNCHANGED <<mn, fTimerMsPreOp2, fAllMandatoryCNIdent, residence>>
      /\ mnu' = BootCheck(OnlyCheck(s, mn, c, "NotActive", TRUE), mn)
  BY DEF LossPres, Handle, Steady
<1>3. Keeps(mnu, s, c) /\ s \in Mnu
  BY <1>1, LinkKeeps, Names, Step
<1> HIDE DEF s
<1>4. Keeps(mnu, OnlyCheck(s, mn, c, "NotActive", TRUE), c)
  BY <1>3, OnlyCheckKeeps, Names, KeepsTrans
<1> QED BY <1>1, <1>2, <1>4, Step DEF Handled

LEMMA StatReqHandled == ASSUME Types, NEW c \in Cn, StatReq(c) PROVE Handled(c)
<1> DEFINE s == TimerStatReq(mnu, c)
           t == [s EXCEPT !.node[c].timer = "none"]
<1>1. mnu \in Mnu /\ cn \in [Cn -> CnView]
  BY DEF Types, StatReq
<1>2. /\ UNCHANGED <<mn, fTimerMsPreOp2, fAllMandatoryCNIdent, residence>>
      /\ mnu' = BootCheck(t, mn)
  BY DEF StatReq, Handle, Steady
<1>3. Keeps(mnu, s, c) /\ s \in Mnu
  BY <1>1, TimerStatReqKeeps, Step
<1> HIDE DEF s
<1>4. Keeps(mnu, t, c)
  BY <1>3, NodeFields, Names, KeepsTrans
<1> HIDE DEF t
<1> QED BY <1>1, <1>2, <1>4, Step DEF Handled

LEMMA LongerHandled == ASSUME Types, NEW c \in Cn, Longer(c) PROVE Handled(c)
<1> DEFINE s == [mnu EXCEPT !.node[c].longer = FALSE]
<1>1. mnu \in Mnu /\ cn \in [Cn -> CnView]
  BY DEF Types, Longer
<1>2. /\ UNCHANGED <<mn, fTimerMsPreOp2, fAllMandatoryCNIdent, residence>>
      /\ mnu' = BootCheck(TimerLonger(s, mn, c), mn)
  BY DEF Longer, Handle, Steady
<1>3. Keeps(mnu, s, c) /\ s \in Mnu
  BY <1>1, NodeFields, Step
<1> HIDE DEF s
<1>4. Keeps(mnu, TimerLonger(s, mn, c), c)
  BY <1>3, TimerLongerKeeps, KeepsTrans
<1> QED BY <1>1, <1>2, <1>4, Step DEF Handled

LEMMA NodeCmdHandled == ASSUME Types, NEW c \in Cn, NodeCmd(c) PROVE Handled(c)
<1> DEFINE s == [mnu EXCEPT !.conf[c] = "done"]
           t == [mnu EXCEPT !.conf[c] = "stale"]
           restored == [s EXCEPT !.node[c].state = "ResetConf"]
           again == [s EXCEPT !.node[c].state = "ConfRestored"]
<1>1. mnu \in Mnu /\ cn \in [Cn -> CnView]
  BY DEF Types, NodeCmd
<1>2. /\ UNCHANGED <<mn, fTimerMsPreOp2, fAllMandatoryCNIdent, residence>>
      /\ \/ mnu' = BootCheck(Configured(s, mn, c), mn)
         \/ mnu' = BootCheck(Send(restored, {c}, "ResetConfiguration"), mn)
         \/ mnu' = BootCheck(Send(again, {c}, "ResetNode"), mn)
         \/ mnu' = BootCheck(OnlyCheck(t, mn, c, "NotActive", TRUE), mn)
         \/ mnu' = BootCheck(s, mn) \/ mnu' = BootCheck(t, mn)
  BY DEF NodeCmd, Handle, Steady
<1>3. Keeps(mnu, s, c) /\ s \in Mnu /\ Keeps(mnu, t, c) /\ t \in Mnu
  <2>1. s \in Mnu
    BY <1>1 DEF Mnu
  <2>2. t \in Mnu
    BY <1>1 DEF Mnu
  <2>3. Keeps(mnu, s, c)
    BY <1>1, <2>1, KeepsNodes DEF Mnu, SameRest
  <2>4. Keeps(mnu, t, c)
    BY <1>1, <2>2, KeepsNodes DEF Mnu, SameRest
  <2> QED BY <2>1, <2>2, <2>3, <2>4
<1> HIDE DEF s, t
<1>4. Keeps(mnu, restored, c) /\ restored \in Mnu /\ Keeps(mnu, again, c) /\ again \in Mnu
  BY <1>3, NodeFields, Names, KeepsTrans, Step
<1> HIDE DEF restored, again
<1>5. /\ Keeps(mnu, Send(restored, {c}, "ResetConfiguration"), c) /\ Keeps(mnu, Send(again, {c}, "ResetNode"), c)
      /\ Keeps(mnu, Configured(s, mn, c), c) /\ Keeps(mnu, OnlyCheck(t, mn, c, "NotActive", TRUE), c)
  <2>1. Keeps(restored, Send(restored, {c}, "ResetConfiguration"), c) /\ Keeps(again, Send(again, {c}, "ResetNode"), c)
    BY <1>4, SendKeeps, Names
  <2>2. Keeps(s, Configured(s, mn, c), c) /\ Keeps(t, OnlyCheck(t, mn, c, "NotActive", TRUE), c)
    BY <1>3, ConfiguredKeeps, OnlyCheckKeeps, Names
  <2> QED BY <1>3, <1>4, <2>1, <2>2, KeepsTrans
<1> QED BY <1>1, <1>2, <1>3, <1>5, Step DEF Handled

LEMMA CnInv == ASSUME Inv, NEW c \in Cn, CnMove(c) \/ CnRestart(c) PROVE Inv'
<1>1. mnu \in Mnu /\ mnu' = mnu /\ UNCHANGED <<mn, fTimerMsPreOp2, fAllMandatoryCNIdent, residence>>
      /\ cn \in [Cn -> CnView]
  BY DEF Inv, Types, CnMove, CnRestart, Steady
<1>2. cn' \in [Cn -> CnView]
  <2>1. CnNext(c) \in CnView
    BY <1>1 DEF CnNext, CnView, CnStates
  <2>2. cn' = [cn EXCEPT ![c] = CnNext(c)] \/ cn' = [cn EXCEPT ![c] = "NotActive"]
    BY DEF CnMove, CnRestart
  <2>3. "NotActive" \in CnView
    BY DEF CnView, CnStates
  <2> QED BY <1>1, <2>1, <2>2, <2>3
<1>3. CountsDown(mnu, mnu)
  BY <1>1, KeepsSelf DEF Keeps
<1> QED BY <1>1, <1>2, <1>3, HandlerInv

(* Entering a state leaves the counts of the last behind: no node is marked, and the queue is empty. *)
LEMMA EnterInv ==
  ASSUME Inv, NEW m \in MnStates \ {"PreOp1"}, NEW s \in Mnu, Enter(m, s),
         cn' = cn, fTimerMsPreOp2' \in BOOLEAN, fAllMandatoryCNIdent' \in BOOLEAN, residence' \in BOOLEAN,
         ~Waits => Phase' /\ s.boot = <<>> /\ Marked(s) = {}
  PROVE  Inv'
<1>1. mn' = m /\ Enters(s, mnu')
  BY StartBootStep2Enters, StartCheckComEnters, StartNodesEnters DEF Enter, MnStates
<1>2. mnu' \in Mnu /\ mnu'.informed = FALSE /\ mnu'.boot = s.boot /\ (Marked(s) = {} => Exact(mnu'))
  BY <1>1 DEF Enters
<1>3. Types'
  BY <1>1, <1>2 DEF Inv, Types
<1>4. ASSUME ~Waits PROVE Counted(mnu', mn')
  <2>1. mnu'.boot = <<>> /\ mn' # "PreOp1"
    BY <1>1, <1>2, <1>4
  <2>2. Queued(mn', mnu'.informed, mnu'.boot)
    BY <2>1, Zenon DEF Queued
  <2> QED BY <1>2, <1>4, <2>2 DEF Counted
<1> QED BY <1>3, <1>4 DEF Inv

LEMMA NoneMarked ==
  ASSUME NEW s \in Mnu, Exact(s), s.signal = 0 PROVE Marked(s) = {}
<1>1. Marked(s) \in SUBSET Cn
  BY DEF Marked
<1> QED BY <1>1, SubsetsOfCn, FS_EmptySet DEF Exact

LEMMA TimerMsPreOp2Inv == ASSUME Inv, TimerMsPreOp2 PROVE Inv'
<1>1. /\ mnu \in Mnu /\ mn \in MnStates /\ residence' = FALSE /\ cn' = cn
      /\ fAllMandatoryCNIdent' = fAllMandatoryCNIdent /\ fAllMandatoryCNIdent \in BOOLEAN
      /\ fTimerMsPreOp2 \in BOOLEAN /\ cn \in [Cn -> CnView]
  BY DEF Inv, Types, TimerMsPreOp2
<1>2. CASE Enter("PreOp2", mnu) /\ UNCHANGED fTimerMsPreOp2 /\ fAllMandatoryCNIdent
  <2>1. Waits
    BY <1>2 DEF Inv, Phase
  <2>2. "PreOp2" \in MnStates \ {"PreOp1"}
    BY DEF MnStates
  <2> QED BY <1>1, <1>2, <2>1, <2>2, EnterInv
<1>3. CASE UNCHANGED <<mn, mnu>> /\ (fTimerMsPreOp2' = TRUE \/ (mn # "PreOp1" /\ UNCHANGED fTimerMsPreOp2))
  <2>1. Types'
    BY <1>1, <1>3 DEF Inv, Types
  <2>2. ASSUME ~Waits PROVE Phase' /\ Counted(mnu', mn')
    <3>1. fTimerMsPreOp2' = TRUE
      BY <1>3, <2>2 DEF Inv, Phase, TimerMsPreOp2
    <3> QED BY <1>1, <1>3, <2>2, <3>1 DEF Inv, Phase
  <2> QED BY <2>1, <2>2 DEF Inv
<1> QED BY <1>2, <1>3 DEF TimerMsPreOp2

LEMMA NmtCycleErrorInv == ASSUME Inv, NmtCycleError PROVE Inv'
<1>1. /\ mnu \in Mnu /\ mn \in MnStates /\ mn # "PreOp1" /\ mn' = "PreOp1" /\ residence' = TRUE
      /\ UNCHANGED <<fTimerMsPreOp2, fAllMandatoryCNIdent, cn>>
  BY DEF Inv, Types, NmtCycleError, FullCycle
<1>2. PICK late : mnu' = DoPreop1(mnu, late)
  BY DEF NmtCycleError
<1>3. mnu' \in Mnu /\ mnu'.informed = FALSE /\ mnu'.boot = mnu.boot /\ Exact(mnu')
  BY <1>1, <1>2, DoPreop1Marks
<1>4. Types'
  BY <1>1, <1>3 DEF Inv, Types, MnStates
<1>5. ASSUME ~Waits PROVE Phase' /\ Counted(mnu', mn')
  <2>1. Phase'
    BY <1>1, <1>5 DEF Inv, Phase
  <2>2. mnu.boot = <<>> \/ (mn # "Operational" /\ mnu.boot = <<BootEvent[mn]>>)
    BY <1>1, <1>5 DEF Inv, Counted, Queued
  <2>3. mn # "Operational" => BootEvent[mn] # "AllMandatoryCNIdent"
    BY <1>1 DEF MnStates, BootEvent
  <2>4. \A i \in DOMAIN mnu.boot : mnu.boot[i] # "AllMandatoryCNIdent"
    BY <2>2, <2>3
  <2>5. Queued(mn', mnu'.informed, mnu'.boot)
    BY <1>1, <1>3, <2>4 DEF Queued
  <2> QED BY <1>3, <2>1, <2>5 DEF Counted
<1> QED BY <1>4, <1>5 DEF Inv

\* Taking an event out of the queue of the kernel part.
LEMMA BootTail ==
  ASSUME NEW s \in Mnu, s.boot # <<>>
  PROVE  LET t == [s EXCEPT !.boot = Tail(@)]
         IN /\ t \in Mnu /\ t.boot = Tail(s.boot) /\ t.informed = s.informed /\ t.signal = s.signal
            /\ Marked(t) = Marked(s) /\ (Exact(s) => Exact(t))
<1> DEFINE b == Tail(s.boot)  t == [s EXCEPT !.boot = b]
<1>1. b \in Seq(Posted)
  <2>1. s.boot \in Seq(Posted)
    BY MnuType
  <2> QED BY <2>1
<1> HIDE DEF b
<1>2. t \in Mnu /\ t.boot = b /\ t.informed = s.informed /\ t.signal = s.signal /\ t.node = s.node
  BY <1>1 DEF Mnu
<1> HIDE DEF t
<1>3. Marked(t) = Marked(s)
  BY <1>2 DEF Marked, HasFlag
<1> QED BY <1>2, <1>3 DEF Exact, t, b

\* The event told last is the last in the queue, so a state is entered with an empty one.
LEMMA LastEvent ==
  ASSUME Inv, ~Waits, mnu.boot # <<>>, mn = "PreOp1" => Head(mnu.boot) = "AllMandatoryCNIdent"
  PROVE  /\ mnu.informed /\ mn # "Operational" /\ Head(mnu.boot) = BootEvent[mn]
         /\ Tail(mnu.boot) = <<>> /\ Marked(mnu) = {}
<1> DEFINE e == Head(mnu.boot)
<1>1. mnu \in Mnu /\ mnu.boot \in Seq(Posted) /\ e = mnu.boot[1]
  BY MnuType DEF Inv, Types
<1>2. Queued(mn, mnu.informed, mnu.boot) /\ Exact(mnu) /\ (mnu.informed => mnu.signal = 0)
  BY DEF Inv, Counted
<1>3. Len(mnu.boot) = 1 /\ mnu.informed /\ mn # "Operational" /\ e = BootEvent[mn]
  <2>1. CASE mn = "PreOp1"
    <3>1. 1 \in DOMAIN mnu.boot /\ mnu.boot[1] = "AllMandatoryCNIdent"
      BY <1>1, <2>1
    <3>2. 1 = Len(mnu.boot) /\ mnu.informed
      BY <1>2, <2>1, <3>1 DEF Queued
    <3> QED BY <1>1, <2>1, <3>1, <3>2 DEF BootEvent
  <2>2. CASE mn # "PreOp1"
    <3>1. mnu.informed /\ mn # "Operational" /\ mnu.boot = <<BootEvent[mn]>>
      BY <1>2, <2>2 DEF Queued
    <3> QED BY <1>1, <3>1
  <2> QED BY <2>1, <2>2
<1>4. Tail(mnu.boot) = <<>>
  <2>1. Tail(mnu.boot) \in Seq(Posted) /\ Len(Tail(mnu.boot)) = 0
    BY <1>1, <1>3
  <2> HIDE DEF Posted
  <2> QED BY <2>1, EmptySeq
<1>5. Marked(mnu) = {}
  BY <1>1, <1>2, <1>3, NoneMarked
<1> QED BY <1>3, <1>4, <1>5

LEMMA KernelEventInv == ASSUME Inv, KernelEvent PROVE Inv'
<1> DEFINE e == Head(mnu.boot)
           s == [mnu EXCEPT !.boot = Tail(@)]
<1>1. /\ mnu \in Mnu /\ mn \in MnStates /\ cn' = cn /\ cn \in [Cn -> CnView] /\ mnu.boot # <<>>
      /\ fTimerMsPreOp2' = fTimerMsPreOp2 /\ residence' = residence /\ fAllMandatoryCNIdent \in BOOLEAN
      /\ fTimerMsPreOp2 \in BOOLEAN /\ residence \in BOOLEAN /\ (~Waits => ~residence)
  BY DEF Inv, Types, KernelEvent
<1>2. /\ s \in Mnu /\ s.boot = Tail(mnu.boot) /\ s.informed = mnu.informed /\ s.signal = mnu.signal
      /\ Marked(s) = Marked(mnu) /\ (Exact(mnu) => Exact(s))
  BY <1>1, BootTail
<1>3. mnu.boot \in Seq(Posted) /\ e = mnu.boot[1]
  BY <1>1, MnuType
<1>4. \/ /\ e = "AllMandatoryCNIdent" /\ mn = "PreOp1"
         /\ \/ fTimerMsPreOp2 /\ Enter("PreOp2", s) /\ UNCHANGED fAllMandatoryCNIdent
            \/ ~fTimerMsPreOp2 /\ fAllMandatoryCNIdent' = TRUE /\ mnu' = s /\ UNCHANGED mn
      \/ e = "EnterReadyToOperate" /\ mn = "PreOp2" /\ Enter("ReadyToOp", s) /\ UNCHANGED fAllMandatoryCNIdent
      \/ e = "EnterMsOperational" /\ mn = "ReadyToOp" /\ Enter("Operational", s) /\ UNCHANGED fAllMandatoryCNIdent
      \/ /\ ~(e = "AllMandatoryCNIdent" /\ mn = "PreOp1")
         /\ ~(e = "EnterReadyToOperate" /\ mn = "PreOp2") /\ ~(e = "EnterMsOperational" /\ mn = "ReadyToOp")
         /\ mnu' = s /\ UNCHANGED <<mn, fAllMandatoryCNIdent>>
  BY Zenon DEF KernelEvent
<1>5. ASSUME ~Waits PROVE /\ Phase /\ fTimerMsPreOp2 /\ Counted(mnu, mn) /\ ~residence
  BY <1>1, <1>5 DEF Inv, Phase
<1>6. ASSUME ~Waits, mn = "PreOp1" => e = "AllMandatoryCNIdent"
      PROVE  s.boot = <<>> /\ Marked(s) = {} /\ mn # "Operational" /\ e = BootEvent[mn]
  BY <1>1, <1>2, <1>6, LastEvent
<1> HIDE DEF s, e
<1>7. ASSUME NEW m \in MnStates \ {"PreOp1"}, Enter(m, s), UNCHANGED fAllMandatoryCNIdent,
             ~Waits => s.boot = <<>> /\ Marked(s) = {}
      PROVE  Inv'
  <2>1. ~Waits => Phase'
    BY <1>1, <1>5, <1>7 DEF Phase
  <2> QED BY <1>1, <1>2, <1>7, <2>1, EnterInv
<1>8. ASSUME mnu' = s, UNCHANGED mn, fAllMandatoryCNIdent' \in BOOLEAN,
             ~Waits => UNCHANGED fAllMandatoryCNIdent /\ Counted(s, mn)
      PROVE  Inv'
  <2>1. Types'
    BY <1>1, <1>2, <1>8 DEF Inv, Types
  <2>2. ~Waits => Phase' /\ Counted(mnu', mn')
    BY <1>1, <1>5, <1>8 DEF Phase
  <2> QED BY <2>1, <2>2 DEF Inv
<1>9. CASE e = "AllMandatoryCNIdent" /\ mn = "PreOp1" /\ fTimerMsPreOp2 /\ Enter("PreOp2", s)
           /\ UNCHANGED fAllMandatoryCNIdent
  BY <1>6, <1>7, <1>9 DEF MnStates
<1>10. CASE ~fTimerMsPreOp2 /\ fAllMandatoryCNIdent' = TRUE /\ mnu' = s /\ UNCHANGED mn
  BY <1>5, <1>8, <1>10
<1>11. CASE mn = "PreOp2" /\ Enter("ReadyToOp", s) /\ UNCHANGED fAllMandatoryCNIdent
  BY <1>6, <1>7, <1>11 DEF MnStates
<1>12. CASE mn = "ReadyToOp" /\ Enter("Operational", s) /\ UNCHANGED fAllMandatoryCNIdent
  BY <1>6, <1>7, <1>12 DEF MnStates
<1>13. CASE /\ ~(e = "AllMandatoryCNIdent" /\ mn = "PreOp1")
            /\ ~(e = "EnterReadyToOperate" /\ mn = "PreOp2") /\ ~(e = "EnterMsOperational" /\ mn = "ReadyToOp")
            /\ mnu' = s /\ UNCHANGED <<mn, fAllMandatoryCNIdent>>
  <2>1. ASSUME ~Waits PROVE Counted(s, mn)
    <3>1. mn = "PreOp1"
      BY <1>1, <1>6, <1>13, <2>1 DEF MnStates, BootEvent
    <3>2. Queued(mn, mnu.informed, mnu.boot) /\ Exact(s) /\ (s.informed => s.signal = 0)
      BY <1>2, <1>5, <2>1 DEF Counted
    <3>3. \A i \in DOMAIN s.boot : s.boot[i] = mnu.boot[i + 1] /\ i + 1 \in DOMAIN mnu.boot
      BY <1>1, <1>2, <1>3
    <3>4. Len(s.boot) = Len(mnu.boot) - 1 /\ Len(mnu.boot) \in Nat
      BY <1>1, <1>2, <1>3
    <3>5. \A i \in DOMAIN s.boot : s.boot[i] = "AllMandatoryCNIdent" => i = Len(s.boot) /\ s.informed
      <4>1. TAKE i \in DOMAIN s.boot
      <4>2. HAVE s.boot[i] = "AllMandatoryCNIdent"
      <4>3. i + 1 = Len(mnu.boot) /\ mnu.informed
        BY <3>1, <3>2, <3>3, <4>2 DEF Queued
      <4>4. i \in Nat
        BY <1>2, MnuType
      <4> QED BY <1>2, <3>4, <4>3, <4>4
    <3> QED BY <3>1, <3>2, <3>5 DEF Counted, Queued
  <2> QED BY <1>1, <1>8, <1>13, <2>1
<1> QED BY <1>4, <1>9, <1>10, <1>11, <1>12, <1>13

(* Whatever concerns a node, other than its own moves, is handled. *)
LEMMA NodeHandled ==
  ASSUME Types, NEW c \in Cn, NodeStep(c), ~(CnMove(c) \/ CnRestart(c)) PROVE Handled(c) /\ cn' = cn
<1>1. Handled(c)
  BY IdentHandled, StatusHandled, NodeAddedHandled, HeartbeatHandled, LossPresHandled, StatReqHandled, LongerHandled,
     NodeCmdHandled DEF NodeStep
<1>2. cn' = cn
  BY DEF NodeStep, Ident, Status, NodeAdded, Heartbeat, LossPres, StatReq, Longer, NodeCmd
<1> QED BY <1>1, <1>2

LEMMA NextInv == ASSUME Inv, [Next]_vars PROVE Inv'
<1>1. CASE UNCHANGED vars
  BY <1>1 DEF vars, Inv, Types, Phase, Counted, Queued, Exact, Marked, HasFlag
<1>2. CASE Next
  <2>1. ASSUME NEW c \in Cn, NodeStep(c) PROVE Inv'
    <3>1. CASE CnMove(c) \/ CnRestart(c)
      BY <3>1, CnInv
    <3>2. CASE ~(CnMove(c) \/ CnRestart(c))
      BY <2>1, <3>2, NodeHandled, HandledInv DEF Inv
    <3> QED BY <3>1, <3>2
  <2> QED BY <1>2, <2>1, CmdSentInv, KernelEventInv, TimerMsPreOp2Inv, NmtCycleErrorInv DEF Next
<1> QED BY <1>1, <1>2

LEMMA InvHolds == Spec => []Inv
BY InitInv, NextInv, PTL DEF Spec

-----------------------------------------------------------------------------
(* Results *)

(* nmtMnuInstance_g, the links of the kernel part and the CNs hold what their types allow; in particular  *)
(* no counter leaves its range, although decrements are not guarded.                                      *)
THEOREM TypeCorrect == Spec => []TypeOK
<1>1. Inv => TypeOK
  BY MnuType DEF Inv, Types, TypeOK, MnStates, CnView, NodeRec
<1> QED BY <1>1, InvHolds, PTL

(* signalSlaveCount is the number of nodes still marked, for any nodes and faults, as long as the MN leaves *)
(* PRE_OPERATIONAL_1 by the event that all mandatory nodes are identified.                                  *)
THEOREM SignalCorrect == ASSUME ~Waits PROVE Spec => []SignalExact
<1>1. Inv => SignalExact
  BY DEF Inv, Counted, Exact, Marked, SignalExact
<1> QED BY <1>1, InvHolds, PTL
=============================================================================

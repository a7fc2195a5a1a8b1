------------------------------ MODULE DllkCal ------------------------------
(***************************************************************************)
(* The scheduler of asynchronous requests on a managing node (dllkcal.c):  *)
(* who is invited by the next SoA.  Controlled nodes announce the frames   *)
(* they hold in flag2 of their responses, the user part asks for ident and *)
(* status responses, and the managing node has frames of its own.          *)
(*                                                                         *)
(* A controlled node announces what it held when it built the response, in *)
(* the cycle before: less or more than it holds when the response arrives. *)
(*                                                                         *)
(* MaxFrames bounds the frames a controlled node holds, MaxClears how      *)
(* often a reduced cycle starts.  The queue of synchronisation requests,   *)
(* used with PRes chaining only, stays empty.                              *)
(***************************************************************************)
EXTENDS Integers, Sequences, FiniteSets

CONSTANTS Cn,          \* controlled nodes
          Service,     \* the services the user part asks for
          Capacity,    \* entries of a request queue
          MaxFrames, MaxClears

Prio == {"CnGen", "CnNmt"}

ASSUME DllkCalAssumption ==
  /\ Service \subseteq {"Ident", "Status"} /\ Capacity \in Nat \ {0}
  /\ MaxFrames \in [Prio -> [Cn -> Nat]] /\ MaxClears \in Nat

VARIABLES queue,             \* pQueueCnRequestGen, ..Nmt, pQueueIdentReq, pQueueStatusReq
          count,             \* aCnRequestCntGen, aCnRequestCntNmt
          nextRequestQueue,
          frames, flag2,     \* what a controlled node holds and announces
          clears

calVars == <<queue, count, nextRequestQueue, frames, flag2, clears>>

Queues == Prio \cup Service
\* flag2 of an empty node: priority 0 counts as generic
NoRequest == [prio |-> "CnGen", count |-> 0]

EntriesOf(q, n) == {i \in DOMAIN queue[q] : queue[q][i] = n}

CalTypeOK ==
  /\ queue \in [Queues -> Seq(Cn)] /\ \A q \in Queues : Len(queue[q]) <= Capacity
  /\ count \in [Prio -> [Cn -> Nat]]
  /\ nextRequestQueue \in 0 .. 5
  /\ frames \in [Prio -> [Cn -> Nat]]
  /\ flag2 \in [Cn -> [prio : Prio, count : Nat]]
  /\ clears \in 0 .. MaxClears

CalInit ==
  /\ queue = [q \in Queues |-> <<>>]
  /\ count = [p \in Prio |-> [n \in Cn |-> 0]]
  /\ nextRequestQueue = 0
  /\ frames = [p \in Prio |-> [n \in Cn |-> 0]]
  /\ flag2 = [n \in Cn |-> NoRequest]
  /\ clears = 0

-----------------------------------------------------------------------------
(* The controlled nodes and the frames of the managing node *)

CnQueues(n, p) ==
  /\ frames[p][n] < MaxFrames[p][n]
  /\ frames' = [frames EXCEPT ![p][n] = @ + 1]
  /\ UNCHANGED <<queue, count, nextRequestQueue, flag2, clears>>

(* processFillTx *)
Flag2Of(n) ==
  IF frames["CnNmt"][n] > 0 THEN [prio |-> "CnNmt", count |-> frames["CnNmt"][n]]
  ELSE IF frames["CnGen"][n] > 0 THEN [prio |-> "CnGen", count |-> frames["CnGen"][n]]
  ELSE NoRequest

-----------------------------------------------------------------------------
(* Requests *)

BadSetAsyncPendingRequests(n, p, c) ==   \* the request is counted though the queue is full
  IF count[p][n] < c
  THEN /\ count' = [count EXCEPT ![p][n] = @ + 1]
       /\ queue' = IF Len(queue[p]) < Capacity THEN [queue EXCEPT ![p] = Append(@, n)] ELSE queue
  ELSE count' = [count EXCEPT ![p][n] = c] /\ UNCHANGED queue

(* dllkcal_setAsyncPendingRequests: one entry at a time, "for fair scheduling" *)
SetAsyncPendingRequests(n, p, c) ==
  IF count[p][n] < c
  THEN IF Len(queue[p]) < Capacity
       THEN /\ queue' = [queue EXCEPT ![p] = Append(@, n)]
            /\ count' = [count EXCEPT ![p][n] = @ + 1]
       ELSE UNCHANGED <<queue, count>>
  ELSE count' = [count EXCEPT ![p][n] = c] /\ UNCHANGED queue

(* A PRes, IdentResponse or StatusResponse of the node, which then builds the next one *)
Report(n) ==
  /\ SetAsyncPendingRequests(n, flag2[n].prio, flag2[n].count)
  /\ flag2' = [flag2 EXCEPT ![n] = Flag2Of(n)]
  /\ UNCHANGED <<nextRequestQueue, frames, clears>>

(* dllkcal_issueRequest; the user part has one request of a kind for a node *)
IssueRequest(s, n) ==
  /\ EntriesOf(s, n) = {} /\ Len(queue[s]) < Capacity
  /\ queue' = [queue EXCEPT ![s] = Append(@, n)]
  /\ UNCHANGED <<count, nextRequestQueue, frames, flag2, clears>>

-----------------------------------------------------------------------------
(* The next SoA: own says whether frames of the managing node wait, its flag2 *)

\* What nextRequestQueue stands for, and the queue a call tries k-th
QueueAt(i) == <<"CnGen", "CnNmt", "Own", "Ident", "Status", "Sync">>[i + 1]
Tried(k) == QueueAt((nextRequestQueue + k) % 6)

(* The queues with a request that is still good *)
Granting(own) ==
  {p \in Prio : queue[p] # <<>> /\ count[p][Head(queue[p])] > 0}
    \cup {s \in Service : queue[s] # <<>>} \cup (IF own THEN {"Own"} ELSE {})

\* An empty queue has no head to lose
Rest(s) == IF s = <<>> THEN s ELSE Tail(s)

BadNextQueue(last) == (nextRequestQueue + last) % 6     \* the queue that granted is the next again
NextQueue(last) == (nextRequestQueue + last + 1) % 6

BadGranted(p, n) == count                            \* the request granted still counts
Granted(p, n) == [count EXCEPT ![p][n] = @ - 1]

(* dllkcal_getSoaRequest: every queue tried loses its head; the last one tried grants it *)
GetSoaRequest(own, last) ==
  LET grants == Granting(own)  granted == Tried(last)
  IN  /\ \A k \in 0 .. last - 1 : Tried(k) \notin grants
      /\ granted \in grants \/ last = 5
      /\ queue' = [q \in Queues |-> IF \E k \in 0 .. last : Tried(k) = q THEN Rest(queue[q]) ELSE queue[q]]
      /\ count' = IF granted \in grants \cap Prio
                  THEN Granted(granted, Head(queue[granted]))
                  ELSE count
      /\ nextRequestQueue' = NextQueue(last)

(* The node invited sends a frame, if it has one *)
Invite(own, last) ==
  LET p == Tried(last)
  IN  /\ GetSoaRequest(own, last)
      /\ frames' = IF p \in Granting(own) \cap Prio /\ frames[p][Head(queue[p])] > 0
                   THEN [frames EXCEPT ![p][Head(queue[p])] = @ - 1]
                   ELSE frames
      /\ UNCHANGED <<flag2, clears>>

SendSoa == \E own \in BOOLEAN, last \in 0 .. 5 : Invite(own, last)

(* dllkcal_clearAsyncQueues, when a reduced cycle starts: the counts stay *)
ClearAsyncQueues ==
  /\ clears < MaxClears
  /\ clears' = clears + 1
  /\ nextRequestQueue' = 0
  /\ queue' = [q \in Queues |-> <<>>]
  /\ UNCHANGED <<count, frames, flag2>>

Cns == \E n \in Cn : Report(n) \/ \E p \in Prio : CnQueues(n, p)
User == \E n \in Cn, s \in Service : IssueRequest(s, n)

CalNext == Cns \/ User \/ SendSoa \/ ClearAsyncQueues

(* Each cycle sends a SoA, and each node responds.  A queue of the code has room for all that *)
(* nodes announce, so that a response now and then finds some. *)
Heard(n) == Len(queue[flag2[n].prio]) < Capacity /\ Report(n)
Fairness == WF_calVars(SendSoa) /\ \A n \in Cn : WF_calVars(Report(n)) /\ SF_calVars(Heard(n))

CalSpec == CalInit /\ [][CalNext]_calVars /\ Fairness

-----------------------------------------------------------------------------
(***************************************************************************)
(* Each request the scheduler counts for a node has an entry in the queue: *)
(* a node whose counted requests had none would never be invited for them, *)
(* as only an announcement above the count adds an entry.  It holds until  *)
(* a reduced cycle clears the queues and leaves the counts.                *)
(***************************************************************************)
Backed == clears = 0 => \A p \in Prio, n \in Cn : count[p][n] <= Cardinality(EntriesOf(p, n))

(***************************************************************************)
(* A node that holds frames, and none of a higher priority, is invited     *)
(* again and again, whatever the others ask for.                           *)
(***************************************************************************)
Waits(n, p) == frames[p][n] > 0 /\ (p = "CnGen" => frames["CnNmt"][n] = 0)
\* Of all steps only an invitation takes both an entry and a request counted
Invited(n, p) == Len(queue'[p]) < Len(queue[p]) /\ count'[p][n] < count[p][n]
Served(n, p) == <>[]Waits(n, p) => []<><<Invited(n, p)>>_calVars

(* Without a restart of the reduced cycle each node is served *)
CnServed == [](clears = 0) => \A n \in Cn, p \in Prio : Served(n, p)

(* A restart of the reduced cycle changes nothing in that *)
CnServedAfterClear == \A n \in Cn, p \in Prio : Served(n, p)

(* An ident or status request that is queued leaves the queue, with a SoA or with the restart *)
RequestServed == \A n \in Cn, s \in Service : []<>(EntriesOf(s, n) = {})
=============================================================================

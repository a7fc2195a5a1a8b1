------------------------------ MODULE EventCal ------------------------------
(***************************************************************************)
(* Event handling of the kernel and the user layer on Linux:               *)
(* eventk.c, eventkcal-linux.c, eventkcalintf-circbuf.c on the kernel      *)
(* side, eventu.c, eventucal-linux.c, eventucalintf-circbuf.c on the user  *)
(* side.                                                                   *)
(*                                                                         *)
(* Each layer has one thread, which waits for a semaphore, and after each  *)
(* wakeup reads one event of one of its two queues: of the one with        *)
(* priority unless that is empty.  A caller posts an event by storing it   *)
(* in a queue (under the queue's lock, see CircBuf), and after releasing   *)
(* the lock calls the signal function of the queue, which posts the        *)
(* semaphore of the reader.  The semaphores have names in the system, are  *)
(* never removed, and keep their values when the stack restarts.           *)
(***************************************************************************)
EXTENDS Integers, Sequences, FiniteSets

CONSTANTS KernelCaller,  \* other threads of the kernel layer: Ethernet driver, hrestimer
          UserCaller,    \* other threads of the user layer: application, timers
          Capacity,      \* number of events that a queue has room for
          MaxPost,       \* bounds: posted events,
          MaxRestart     \*         restarts of the stack

Layer == {"kernel", "user"}
NoSignal == "none"
Caller == Layer \cup KernelCaller \cup UserCaller

ASSUME EventCalAssumption ==
    /\ IsFiniteSet(KernelCaller) /\ IsFiniteSet(UserCaller)
    /\ KernelCaller \cap UserCaller = {} /\ Layer \cap (KernelCaller \cup UserCaller) = {}
    /\ Capacity \in Nat \ {0} /\ MaxPost \in Nat /\ MaxRestart \in Nat

VARIABLES
    queue,        \* the sinks of the events in each queue
    sem,          \* values of semKernelData and semUserData
    pc, todo,     \* where each event thread is, and the handlers it has yet to call
    signalling,   \* the layer that a caller has stored an event for and will signal
    fStopThread,
    state,        \* whether the event module of a layer is initialized
    posts, restarts

vars == <<queue, sem, pc, todo, signalling, fStopThread, state, posts, restarts>>

KernelSink == {"Nmtk", "Dllk"}
UserSink == {"Api"}
Sink == KernelSink \cup UserSink

Queue == {"KInt", "U2K", "K2U", "UInt"}

LayerOf(c) == IF c \in KernelCaller \cup {"kernel"} THEN "kernel" ELSE "user"

\* The queue of a layer that its thread looks at first, and the other.
BadHigh(t) == "K2U"
High(t) == IF t = "kernel" THEN "KInt" ELSE "K2U"
Low(t) == IF t = "kernel" THEN "U2K" ELSE "UInt"

Reader(q) == IF q \in {"KInt", "U2K"} THEN "kernel" ELSE "user"

\* The entries of the dispatch table for a sink: NMT events go to nmtk and to dllk.
Handlers(sink) == IF sink = "Nmtk" THEN 2 ELSE 1

\* The queue that the post functions of a layer choose for a sink.
QueueFor(t, sink) ==
    IF t = "kernel" THEN (IF sink \in UserSink THEN "K2U" ELSE "KInt")
    ELSE (IF sink \in UserSink THEN "UInt" ELSE "U2K")

-----------------------------------------------------------------------------
Init ==
    /\ queue = [q \in Queue |-> <<>>]
    /\ sem = [t \in Layer |-> 0]
    /\ pc = [t \in Layer |-> "top"] /\ todo = [t \in Layer |-> 0]
    /\ signalling = [c \in Caller |-> NoSignal]
    /\ fStopThread = [t \in Layer |-> FALSE]
    /\ state = [t \in Layer |-> "up"]
    /\ posts = 0 /\ restarts = 0

-----------------------------------------------------------------------------
(* Posting.  A full queue refuses the event with kErrorEventPostError.     *)

BadStore(c, sink) ==
    LET q == QueueFor(LayerOf(c), sink)
    IN  IF Len(queue[q]) < Capacity
        THEN /\ queue' = [queue EXCEPT ![q] = Append(@, sink)]
             /\ signalling' = [signalling EXCEPT
                    ![c] = IF queue[q] = <<>> THEN Reader(q) ELSE NoSignal]
        ELSE UNCHANGED <<queue, signalling>>

Store(c, sink) ==
    LET q == QueueFor(LayerOf(c), sink)
    IN  IF Len(queue[q]) < Capacity
        THEN /\ queue' = [queue EXCEPT ![q] = Append(@, sink)]
             /\ signalling' = [signalling EXCEPT ![c] = Reader(q)]
        ELSE UNCHANGED <<queue, signalling>>

\* The next post of a caller, which has returned from its last one.
MayPost(c) ==
    /\ signalling[c] = NoSignal
    /\ posts < MaxPost /\ posts' = posts + 1

\* A thread other than the event threads posts an event.
postEvent(c, sink) ==
    /\ state[LayerOf(c)] = "up"
    /\ MayPost(c) /\ Store(c, sink)
    /\ UNCHANGED <<sem, pc, todo, fStopThread, state, restarts>>

\* The signal function: sem_post.
signalEvent(c) ==
    /\ signalling[c] \in Layer
    /\ sem' = [sem EXCEPT ![signalling[c]] = @ + 1]
    /\ signalling' = [signalling EXCEPT ![c] = NoSignal]
    /\ UNCHANGED <<queue, pc, todo, fStopThread, state, posts, restarts>>

-----------------------------------------------------------------------------
(* The event threads.                                                      *)

Goto(t, label) == pc' = [pc EXCEPT ![t] = label]

At(t, label) == pc[t] = label /\ signalling[t] = NoSignal

\* The head of the loop: leave it, and tell eventkcal_exit or eventucal_exit so, or wait.
Loop(t) ==
    /\ At(t, "top")
    /\ IF fStopThread[t]
       THEN Goto(t, "gone") /\ fStopThread' = [fStopThread EXCEPT ![t] = FALSE]
       ELSE Goto(t, "wait") /\ UNCHANGED fStopThread
    /\ UNCHANGED <<queue, sem, todo, signalling, state, posts, restarts>>

\* sem_timedwait takes the semaphore, or fails after 50 ms.
sem_timedwait(t) ==
    /\ At(t, "wait")
    /\ IF sem[t] > 0
       THEN Goto(t, "woken") /\ sem' = [sem EXCEPT ![t] = @ - 1]
       ELSE Goto(t, "top") /\ UNCHANGED sem
    /\ UNCHANGED <<queue, todo, signalling, fStopThread, state, posts, restarts>>

\* Two reads of event counts, each without the lock of the queue.
CountHigh(t) ==
    /\ At(t, "woken")
    /\ Goto(t, IF queue[High(t)] # <<>> THEN "high" ELSE "noHigh")
    /\ UNCHANGED <<queue, sem, todo, signalling, fStopThread, state, posts, restarts>>

BadCountLow(t) ==
    /\ At(t, "noHigh") /\ Goto(t, "top")
    /\ UNCHANGED <<queue, sem, todo, signalling, fStopThread, state, posts, restarts>>

CountLow(t) ==
    /\ At(t, "noHigh")
    /\ Goto(t, IF queue[Low(t)] # <<>> THEN "low" ELSE "top")
    /\ UNCHANGED <<queue, sem, todo, signalling, fStopThread, state, posts, restarts>>

\* Read the first event of the chosen queue, and look up its handlers.
processEvent(t) ==
    /\ At(t, "high") \/ At(t, "low")
    /\ LET q == IF pc[t] = "high" THEN High(t) ELSE Low(t)
       IN  IF queue[q] = <<>>      \* kCircBufNoReadableData
           THEN Goto(t, "top") /\ UNCHANGED <<queue, todo>>
           ELSE /\ Goto(t, "handle")
                /\ todo' = [todo EXCEPT ![t] = Handlers(Head(queue[q]))]
                /\ queue' = [queue EXCEPT ![q] = Tail(@)]
    /\ UNCHANGED <<sem, signalling, fStopThread, state, posts, restarts>>

\* A handler posts an event.
HandlerPosts(t, sink) ==
    /\ pc[t] = "handle"
    /\ MayPost(t) /\ Store(t, sink)
    /\ UNCHANGED <<sem, pc, todo, fStopThread, state, restarts>>

\* A handler returns: after the last one the loop goes on.
HandlerDone(t) ==
    /\ todo' = [todo EXCEPT ![t] = @ - 1]
    /\ Goto(t, IF todo[t] = 1 THEN "top" ELSE "handle")

HandlerReturns(t) ==
    /\ At(t, "handle") /\ HandlerDone(t)
    /\ UNCHANGED <<queue, sem, signalling, fStopThread, state, posts, restarts>>

\* It returns an error: postError posts an error event to the API, and ignores its refusal.
HandlerFails(t) ==
    /\ At(t, "handle") /\ HandlerDone(t)
    /\ MayPost(t) /\ Store(t, "Api")
    /\ UNCHANGED <<sem, fStopThread, state, restarts>>

ThreadStep(t) ==
    \/ Loop(t) \/ sem_timedwait(t) \/ CountHigh(t) \/ CountLow(t) \/ processEvent(t)
    \/ HandlerReturns(t)

-----------------------------------------------------------------------------
(* Shutdown and start: ctrlu_shutdownStack stops the user layer, then the  *)
(* kernel layer, whose other threads it has stopped before; ctrlu_initStack *)
(* starts the kernel layer, then the user layer.                           *)

Others(t) == IF t = "kernel" THEN KernelCaller ELSE UserCaller

exit(t) ==
    /\ state[t] = "up"
    /\ \A c \in Others(t) : signalling[c] = NoSignal
    /\ IF t = "user" THEN restarts < MaxRestart /\ restarts' = restarts + 1
       ELSE state["user"] = "down" /\ UNCHANGED restarts
    /\ state' = [state EXCEPT ![t] = "stopping"]
    /\ fStopThread' = [fStopThread EXCEPT ![t] = TRUE]
    /\ UNCHANGED <<queue, sem, pc, todo, signalling, posts>>

\* The thread has ended.  The kernel layer frees the three queues that it has made, the user
\* layer its own; the semaphores stay.
Owned(t) == IF t = "kernel" THEN {"K2U", "U2K", "KInt"} ELSE {"UInt"}

exitDone(t) ==
    /\ state[t] = "stopping" /\ ~fStopThread[t]
    /\ state' = [state EXCEPT ![t] = "down"]
    /\ queue' = [q \in Queue |-> IF q \in Owned(t) THEN <<>> ELSE queue[q]]
    /\ UNCHANGED <<sem, pc, todo, signalling, fStopThread, posts, restarts>>

init(t) ==
    /\ state[t] = "down"
    /\ t = "user" => state["kernel"] = "up" /\ restarts > 0
    /\ state' = [state EXCEPT ![t] = "up"]
    /\ Goto(t, "top")
    /\ UNCHANGED <<queue, sem, todo, signalling, fStopThread, posts, restarts>>

Next ==
    \/ \E c \in KernelCaller \cup UserCaller, sink \in Sink : postEvent(c, sink)
    \/ \E c \in Caller : signalEvent(c)
    \/ \E t \in Layer : \/ ThreadStep(t)
                        \/ \E sink \in Sink : HandlerPosts(t, sink)
                        \/ HandlerFails(t)
                        \/ exit(t) \/ exitDone(t) \/ init(t)

Spec == Init /\ [][Next]_vars

\* Threads are scheduled and handlers return, so a thread goes on, and a caller that has stored
\* an event signals it.
FairSpec ==
    /\ Spec
    /\ \A t \in Layer : WF_vars(ThreadStep(t))
    /\ \A c \in Caller : WF_vars(signalEvent(c))

-----------------------------------------------------------------------------
(* Properties.                                                             *)

TypeOK ==
    /\ queue \in [Queue -> Seq(Sink)] /\ \A q \in Queue : Len(queue[q]) <= Capacity
    /\ sem \in [Layer -> Nat]
    /\ pc \in [Layer -> {"top", "wait", "woken", "high", "noHigh", "low", "handle", "gone"}]
    /\ todo \in [Layer -> Nat]
    /\ signalling \in [Caller -> Layer \cup {NoSignal}]
    /\ fStopThread \in [Layer -> BOOLEAN]
    /\ state \in [Layer -> {"up", "stopping", "down"}]
    /\ posts \in Nat /\ restarts \in Nat

Signallers(t) == {c \in Caller : signalling[c] = t}
Tokens(t) == sem[t] + Cardinality(Signallers(t))
Events(t) == Len(queue[High(t)]) + Len(queue[Low(t)])

\* Wakeups that the thread has taken and will turn into the reading of an event.
Taken(t) ==
    IF pc[t] \in {"woken", "high", "low"} \/ (pc[t] = "noHigh" /\ queue[Low(t)] # <<>>)
    THEN 1 ELSE 0

\* No wakeup is lost: for every event in the queues of a thread its semaphore is posted, or a
\* caller is about to post it, or the thread is awake to read it, in every interleaving of
\* posting with the two unlocked reads of the counts, and over restarts.
NoLostWakeup == \A t \in Layer : Tokens(t) + Taken(t) >= Events(t)

\* A count that the thread has seen is not stale when it reads the event: nobody else reads its
\* queues, and none is freed under it.
CountHolds ==
    \A t \in Layer : /\ pc[t] = "high" => queue[High(t)] # <<>>
                     /\ pc[t] = "low" => queue[Low(t)] # <<>>

\* Every event is processed, unless the layer is shut down first.
Drained ==
    \A q \in Queue : (queue[q] # <<>> /\ state[Reader(q)] = "up")
                     ~> (queue[q] = <<>> \/ state[Reader(q)] # "up")
=============================================================================

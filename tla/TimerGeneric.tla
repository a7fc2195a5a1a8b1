---------------------------- MODULE TimerGeneric ----------------------------
(***************************************************************************)
(* The generic user timer module (stack/src/user/timer/timer-generic.c):   *)
(* an array of timer entries in two linked lists that share the link       *)
(* field, the free list and the timer list.  The timer list is sorted by   *)
(* deadline and stores only the time between successive deadlines.  A      *)
(* timer handle is the address of an entry, here its index, and 0 is NULL. *)
(* The lists are sequences; that is what the links mean as long as no      *)
(* entry is in both lists or twice in one, which PoolOK says.              *)
(*                                                                         *)
(* Its clients are modelled by how they use it: each keeps one handle and  *)
(* starts, restarts or deletes its timer.  The SDO sequence layer compares *)
(* the handle of a timer event with its own, deletes its timer when they   *)
(* agree and deletes the event's handle when they do not; the LED and NMT  *)
(* modules restart their timer or do nothing.  The handle of an event that *)
(* its connection does not know any more was freed when the connection     *)
(* gave it back, so that deletion frees an entry a second time: the links  *)
(* are not two lists after it, and the model ends there.                   *)
(***************************************************************************)
EXTENDS Integers, Sequences, FiniteSets

CONSTANTS TIMERU_MAX_ENTRIES,
          Client,      \* owners of a timer handle
          SdoClient,   \* those of them that are connections of the SDO sequence layer
          Timeout,     \* timeouts that clients ask for
          TickMod,     \* the tick count wraps (2^32)
          Uptime,      \* the system's time when the stack is started
          MaxTime,     \* bound on time
          MaxEvents    \* capacity of the user event queue

ASSUME TimerAssumption ==
    /\ TIMERU_MAX_ENTRIES \in Nat \ {0} /\ TickMod \in Nat \ {0}
    /\ Uptime \in Nat /\ MaxTime \in Nat /\ MaxEvents \in Nat
    /\ SdoClient \subseteq Client /\ Timeout \subseteq 0 .. TickMod - 1

VARIABLES
    timeruInstance, \* both lists, the start time and the entries' arguments
    handle,         \* handle[c]: the handle that client c keeps, 0 for none
    taken,          \* the entry that timeru_process has taken off the list and not yet posted; or Null
    events,         \* timer events in the user event queue
    now,            \* time in ticks, without the wrap
    due,            \* due[e]: when e's timer is due; 0 once it is off the list
    fault           \* what went wrong: "second free" of an entry, "wrap" of a time in the list

vars == <<timeruInstance, handle, taken, events, now, due, fault>>

Entry == 1 .. TIMERU_MAX_ENTRIES
Null  == 0
Ticks(n) == n % TickMod

-----------------------------------------------------------------------------
(* The timer list: a sequence of entries with the time after the one before. *)

Elements(s) == {s[i] : i \in 1 .. Len(s)}
Listed(list) == {list[i].entry : i \in 1 .. Len(list)}

\* The times from the start time to the deadline of the k-th timer of the list, for every k.
TimesTo(list) ==
    LET sum[k \in 0 .. Len(list)] == IF k = 0 THEN 0 ELSE sum[k - 1] + list[k].timeoutInMs
    IN  sum

\* The rest of the list, from its k-th timer on, when it is due n ticks later than before.
Rest(list, k, n) ==
    IF k > Len(list) THEN <<>>
    ELSE <<[list[k] EXCEPT !.timeoutInMs = Ticks(@ + n)]>> \o SubSeq(list, k + 1, Len(list))

\* Without the search, at the end of the list.
BadOrder(times, n, timeout) == n

\* How many of the n timers an insertion passes: those at the front due before or with the new one.
Passed(times, n, timeout) == Cardinality({k \in 1 .. n : \A j \in 1 .. k : times[j] <= timeout})

Insert(list, e, timeout) ==
    LET times == TimesTo(list)
        k     == Passed(times, Len(list), timeout)
        rest  == timeout - times[k]
    IN  SubSeq(list, 1, k) \o <<[entry |-> e, timeoutInMs |-> rest]>> \o Rest(list, k + 1, -rest)

\* The timer behind e takes over e's share of the time.  Nothing happens when e is not listed.
BadRemove(list, e) == SelectSeq(list, LAMBDA x : x.entry # e)

Remove(list, e) ==
    IF e \notin Listed(list) THEN list
    ELSE LET k == CHOOSE i \in 1 .. Len(list) : list[i].entry = e
         IN  SubSeq(list, 1, k - 1) \o Rest(list, k + 1, list[k].timeoutInMs)

-----------------------------------------------------------------------------
(* The functions of the module, as functions of its state m.               *)

elapsed == Ticks(now - timeruInstance.startTimeInMs)

\* timeru_deleteTimer: e goes to the free list, whether it was in the timer list or not.
BadDeleteEntry(m, e) ==
    IF e = Null THEN m
    ELSE [m EXCEPT !.timerList = Remove(@, e), !.freeList = IF @ = <<>> THEN <<e>> ELSE @,
                   !.freeEntries = @ + 1]

DeleteEntry(m, e) ==
    IF e = Null THEN m
    ELSE [m EXCEPT !.timerList = Remove(@, e), !.freeList = <<e>> \o @, !.freeEntries = @ + 1]

\* timeru_setTimer for client c, when there is a free entry.
SetEntry(m, c, t) ==
    LET e == Head(m.freeList)
    IN  [m EXCEPT !.freeList = Tail(@), !.freeEntries = @ - 1, !.arg[e] = c,
                  !.timerList = Insert(@, e, Ticks(elapsed + t))]

-----------------------------------------------------------------------------
timeru_addInstance ==
    [timerList |-> <<>>, freeList |-> [i \in 1 .. TIMERU_MAX_ENTRIES |-> i],
     freeEntries |-> TIMERU_MAX_ENTRIES, startTimeInMs |-> 0, arg |-> [e \in Entry |-> Null]]

Init ==
    /\ timeruInstance = timeru_addInstance
    /\ handle = [c \in Client |-> Null]
    /\ taken = Null /\ events = <<>> /\ now = Uptime
    /\ due = [e \in Entry |-> 0]
    /\ fault = {}

\* timeru_modifyTimer by client c: delete, then set; the handle stays 0 without a free entry.
\* The new timer's time from the start time on is longer than the tick count: it is cut.
StartTimer(c) ==
    LET d == DeleteEntry(timeruInstance, handle[c])
        e == IF d.freeList = <<>> THEN Null ELSE Head(d.freeList)
    IN  \E t \in Timeout :
            /\ timeruInstance' = IF e = Null THEN d ELSE SetEntry(d, c, t)
            /\ handle' = [handle EXCEPT ![c] = e]
            /\ due' = [x \in Entry |-> IF x = e THEN now + t ELSE IF x = handle[c] THEN 0 ELSE due[x]]
            /\ fault' = fault \cup {f \in {"wrap"} : e # Null /\ elapsed + t >= TickMod}

\* timeru_modifyTimer or, with a handle of 0, timeru_setTimer.
timeru_modifyTimer(c) ==
    /\ StartTimer(c)
    /\ UNCHANGED <<taken, events, now>>

DropHandle(c) ==
    /\ timeruInstance' = DeleteEntry(timeruInstance, handle[c])
    /\ handle' = [handle EXCEPT ![c] = Null]
    /\ due' = [x \in Entry |-> IF x = handle[c] THEN 0 ELSE due[x]]
    /\ UNCHANGED fault

timeru_deleteTimer(c) ==
    /\ handle[c] # Null
    /\ DropHandle(c)
    /\ UNCHANGED <<taken, events, now>>

\* timeru_process, in the critical section: take the first timer if its time has come.  With a
\* thread of its own (WIN32) other calls may come before the event is posted.
BadIsDue(first) == elapsed + 1 >= first.timeoutInMs
BadIsDueLate(first) == elapsed > first.timeoutInMs

IsDue(first) == elapsed >= first.timeoutInMs

Take ==
    LET first == Head(timeruInstance.timerList)
    IN  /\ taken = Null
        /\ timeruInstance.timerList # <<>>
        /\ IsDue(first)
        /\ timeruInstance' = [timeruInstance EXCEPT !.timerList = Tail(@),
                                    !.startTimeInMs = Ticks(@ + first.timeoutInMs)]
        /\ taken' = first.entry
        /\ due' = [due EXCEPT ![first.entry] = 0]
        /\ UNCHANGED <<handle, events, now, fault>>

\* timeru_process, after it: read the argument and post the event.  Its caller ignores a failure.
Post ==
    /\ taken # Null
    /\ events' = IF Len(events) < MaxEvents
                 THEN Append(events, [timerHdl |-> taken, client |-> timeruInstance.arg[taken]])
                 ELSE events
    /\ taken' = Null
    /\ UNCHANGED <<timeruInstance, handle, now, due, fault>>

timeru_process == Take \/ Post

\* The SDO sequence layer gets a timer event (sdoseq_processEvent).
SdoEvent(c, hdl) ==
    IF hdl # handle[c]
    THEN /\ timeruInstance' = DeleteEntry(timeruInstance, hdl)
         /\ fault' = fault \cup {"second free"}
         /\ UNCHANGED <<handle, due>>
    ELSE DropHandle(c) \/ StartTimer(c)

\* The other modules do not look at the handle.
OtherEvent(c) ==
    \/ UNCHANGED <<timeruInstance, handle, due, fault>>
    \/ StartTimer(c)

ProcessEvent ==
    /\ events # <<>>
    /\ events' = Tail(events)
    /\ LET e == Head(events)
       IN  IF e.client \in SdoClient THEN SdoEvent(e.client, e.timerHdl) ELSE OtherEvent(e.client)
    /\ UNCHANGED <<taken, now>>

\* Time passes.  The elapsed time starts again at 0 when nothing expired for a tick period.
Tick ==
    /\ now < MaxTime
    /\ now' = now + 1
    /\ fault' = fault \cup {f \in {"wrap"} : timeruInstance.timerList # <<>> /\ elapsed = TickMod - 1}
    /\ UNCHANGED <<timeruInstance, handle, taken, events, due>>

Next ==
    /\ "second free" \notin fault
    /\ \/ \E c \in Client : timeru_modifyTimer(c) \/ timeru_deleteTimer(c)
       \/ timeru_process
       \/ ProcessEvent
       \/ Tick

Spec == Init /\ [][Next]_vars

\* "This function must be called repeatedly from within the application" (timeru_process).
FairSpec == Spec /\ WF_vars(timeru_process)

-----------------------------------------------------------------------------
(* Properties.                                                             *)

\* Up to a second free no entry leaks and none is shared: an entry is either in the free list,
\* which freeEntries counts, or the handle of exactly one client, and the timer list holds handles
\* only.  So a client that finds no free entry proves that there are too few entries.
PoolOK ==
    LET free == timeruInstance.freeList
        list == timeruInstance.timerList
        used == {handle[c] : c \in Client} \ {Null}
    IN  "second free" \notin fault =>
            /\ Len(free) = timeruInstance.freeEntries /\ Cardinality(Elements(free)) = Len(free)
            /\ Cardinality(Listed(list)) = Len(list)
            /\ Listed(list) \subseteq used
            /\ Elements(free) \cap used = {} /\ Elements(free) \cup used = Entry
            /\ \A c, d \in Client : handle[c] = handle[d] /\ handle[c] # Null => c = d

\* Up to a second free the times between the timers of the list add up to the deadlines that their
\* owners asked for, whatever was inserted and removed in between (from the start time on, modulo
\* the tick period, and so over every wrap).
DeadlinesKept ==
    LET list  == timeruInstance.timerList
        times == TimesTo(list)
    IN  "second free" \notin fault =>
            \A k \in 1 .. Len(list) :
                Ticks(timeruInstance.startTimeInMs + times[k]) = Ticks(due[list[k].entry])

\* The abstract view: a client's timer is armed while its entry is in the timer list, and has
\* expired when the client's handle is not there any more.
armed == [c \in Client |->
            IF handle[c] \in Listed(timeruInstance.timerList) THEN {due[handle[c]]} ELSE {}]

expired == {c \in Client : handle[c] # Null /\ armed[c] = {}}

Promise == INSTANCE TimerSpec

\* Up to a second free, and to a time in the list that the tick count cuts, the module implements
\* the timer service: no timer expires early, twice, out of order or after it was deleted, and no
\* call for one client disturbs the timer of another.  It holds over the wrap of the tick count.
ImplementsTimers == Promise!Init /\ [][fault' # {} \/ Promise!Next]_(Promise!vars)

\* Up to the same, a timer whose time has come expires, is restarted or deleted.
DueExpires ==
    \A c \in Client : (\E d \in armed[c] : d <= now) ~> (~(\E d \in armed[c] : d <= now) \/ fault # {})
=============================================================================

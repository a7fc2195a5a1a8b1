-------------------------- MODULE TimerGenericProofs --------------------------
(***************************************************************************)
(* Proofs about TimerGeneric, for any number of entries, any clients and   *)
(* timeouts: up to a second free no entry leaks or is shared and the delta *)
(* list keeps the deadlines, and up to a time that the tick count cuts the *)
(* module implements TimerSpec.  The pool does not depend on the times of  *)
(* the list: its lemmas leave open which set S they are from.              *)
(***************************************************************************)
EXTENDS TimerGeneric, SequenceTheorems, FiniteSetTheorems, NaturalsInduction, WellFoundedInduction, TLAPS

Timer(S) == [entry : Entry, timeoutInMs : S]

Module(S) == [timerList : Seq(Timer(S)), freeList : Seq(Entry), freeEntries : Nat, startTimeInMs : S,
              arg : [Entry -> Client \cup {Null}]]

Handles == [Client -> Entry \cup {Null}]

Distinct(s) == \A i, j \in 1 .. Len(s) : s[i] = s[j] => i = j
DistinctTimers(s) == \A i, j \in 1 .. Len(s) : s[i].entry = s[j].entry => i = j

\* r is the list s from its k-th timer on, that one with n added to its time.
FromOn(s, r, k, n) ==
    /\ Len(r) = Len(s) - k + 1
    /\ \A i \in 1 .. Len(s) - k + 1 : r[i].entry = s[k + i - 1].entry
    /\ k <= Len(s) => r[1].timeoutInMs = Ticks(s[k].timeoutInMs + n)
    /\ \A i \in 2 .. Len(s) - k + 1 : r[i] = s[k + i - 1]

\* r is the list s with timer x behind the k-th: the next timer counts from x on.
Joined(s, r, k, x) ==
    /\ Len(r) = Len(s) + 1
    /\ \A i \in 1 .. k : r[i] = s[i]
    /\ r[k + 1] = x
    /\ \A i \in k + 2 .. Len(s) + 1 : r[i].entry = s[i - 1].entry
    /\ k < Len(s) => r[k + 2].timeoutInMs = Ticks(s[k + 1].timeoutInMs + (-x.timeoutInMs))
    /\ \A i \in k + 3 .. Len(s) + 1 : r[i].timeoutInMs = s[i - 1].timeoutInMs

\* r is the list s without its k-th timer, whose time the next one takes over.
Left(s, r, k) ==
    /\ Len(r) = Len(s) - 1
    /\ \A i \in 1 .. k - 1 : r[i] = s[i]
    /\ \A i \in k .. Len(s) - 1 : r[i].entry = s[i + 1].entry
    /\ k < Len(s) => r[k].timeoutInMs = Ticks(s[k + 1].timeoutInMs + s[k].timeoutInMs)
    /\ \A i \in k + 1 .. Len(s) - 1 : r[i].timeoutInMs = s[i + 1].timeoutInMs

-----------------------------------------------------------------------------
(* Lists of timers.                                                        *)

LEMMA EntryFacts == Null \notin Entry /\ Entry \subseteq Nat /\ TIMERU_MAX_ENTRIES \in Nat \ {0}
BY TimerAssumption DEF Null, Entry

\* Another time for a timer leaves its entry.
LEMMA Retimed ==
    ASSUME NEW S, NEW x \in Timer(S), NEW t, NEW T, S \subseteq T, t \in T
    PROVE  /\ [x EXCEPT !.timeoutInMs = t] \in Timer(T)
           /\ [x EXCEPT !.timeoutInMs = t].timeoutInMs = t
           /\ [x EXCEPT !.timeoutInMs = t].entry = x.entry
BY DEF Timer

LEMMA TimerMonotonic ==
    ASSUME NEW S, NEW T, S \subseteq T
    PROVE  Timer(S) \subseteq Timer(T) /\ Module(S) \subseteq Module(T)
<1>1. Timer(S) \subseteq Timer(T) BY DEF Timer
<1>2. ASSUME NEW s \in Seq(Timer(S)) PROVE s \in Seq(Timer(T))
  BY <1>1, SeqMonotonic
<1> QED BY <1>1, <1>2 DEF Module

\* Rest keeps the entries and their order.
LEMMA RestProperties ==
    ASSUME NEW S, NEW s \in Seq(Timer(S)), NEW k \in 1 .. Len(s) + 1, NEW n
    PROVE  \E T : /\ S \subseteq T
                  /\ Rest(s, k, n) \in Seq(Timer(T))
                  /\ FromOn(s, Rest(s, k, n), k, n)
<1>1. Len(s) \in Nat BY LenProperties
<1>2. CASE k > Len(s)
  <2>1. Rest(s, k, n) = <<>> BY <1>2 DEF Rest
  <2>2. k = Len(s) + 1 BY <1>1, <1>2
  <2>3. Len(s) - k + 1 = 0 /\ ~(k <= Len(s)) BY <1>1, <2>2
  <2>4. 1 .. Len(s) - k + 1 = {} /\ 2 .. Len(s) - k + 1 = {} BY <2>3
  <2>5. Rest(s, k, n) \in Seq(Timer(S)) /\ Len(Rest(s, k, n)) = 0 BY <2>1
  <2>6. FromOn(s, Rest(s, k, n), k, n) BY <2>3, <2>4, <2>5 DEF FromOn
  <2> QED BY <2>5, <2>6
<1>3. CASE k \in 1 .. Len(s)
  <2> DEFINE t == Ticks(s[k].timeoutInMs + n)
             T == S \cup {t}
             x == [s[k] EXCEPT !.timeoutInMs = t]
             u == SubSeq(s, k + 1, Len(s))
  <2>1. s[k] \in Timer(S) BY <1>3, ElementOfSeq
  <2>9. S \subseteq T /\ t \in T OBVIOUS
  <2>5. Rest(s, k, n) = <<x>> \o u BY <1>1, <1>3 DEF Rest
  <2> HIDE DEF t, T
  <2>2. x \in Timer(T) /\ x.entry = s[k].entry /\ x.timeoutInMs = t BY <2>1, <2>9, Retimed
  <2> HIDE DEF x
  <2>3. \A i \in k + 1 .. Len(s) : s[i] \in Timer(T)
    <3>1. Timer(S) \subseteq Timer(T) BY <2>9, TimerMonotonic
    <3> QED BY <1>1, <1>3, <3>1, ElementOfSeq
  <2>4. /\ u \in Seq(Timer(T)) /\ Len(u) = Len(s) - k
        /\ \A i \in 1 .. Len(s) - k : u[i] = s[k + i]
    <3>1. /\ u \in Seq(Timer(T))
          /\ Len(u) = IF k + 1 <= Len(s) THEN Len(s) - (k + 1) + 1 ELSE 0
          /\ \A i \in 1 .. Len(s) - (k + 1) + 1 : u[i] = s[k + 1 + i - 1]
      BY <1>1, <1>3, <2>3, SubSeqProperties
    <3> HIDE DEF u
    <3>2. k \in Int /\ k <= Len(s) BY <1>1, <1>3
    <3>3. Len(u) = Len(s) - k BY <1>1, <3>1, <3>2
    <3>4. ASSUME NEW i \in 1 .. Len(s) - k PROVE u[i] = s[k + i]
      <4>1. i \in 1 .. Len(s) - (k + 1) + 1 /\ k + 1 + i - 1 = k + i BY <1>1, <3>2
      <4> QED BY <3>1, <4>1
    <3> QED BY <3>1, <3>3, <3>4
  <2> HIDE DEF u
  <2>6. <<x>> \in Seq(Timer(T)) /\ Len(<<x>>) = 1 /\ <<x>>[1] = x BY <2>2
  <2> DEFINE v == <<x>>
  <2> HIDE DEF v
  <2>7. /\ v \o u \in Seq(Timer(T)) /\ Len(v \o u) = Len(v) + Len(u)
        /\ \A i \in 1 .. Len(v) + Len(u) : (v \o u)[i] = IF i <= Len(v) THEN v[i] ELSE u[i - Len(v)]
    BY <2>4, <2>6, ConcatProperties DEF v
  <2>11. (v \o u)[1] = x BY <1>1, <1>3, <2>4, <2>6, <2>7 DEF v
  <2>12. ASSUME NEW i \in 2 .. Len(s) - k + 1 PROVE (v \o u)[i] = s[k + i - 1]
    <3>1. i - 1 \in 1 .. Len(s) - k /\ i # 1 BY <1>1, <1>3
    <3>2. (v \o u)[i] = u[i - 1] BY <1>1, <1>3, <2>4, <2>6, <2>7, <3>1 DEF v
    <3>3. u[i - 1] = s[k + (i - 1)] BY <2>4, <3>1
    <3>4. k + (i - 1) = k + i - 1 BY <1>3
    <3> QED BY <3>2, <3>3, <3>4
  <2>8. ASSUME NEW i \in 1 .. Len(s) - k + 1 PROVE (v \o u)[i].entry = s[k + i - 1].entry
    <3>1. CASE i = 1
      <4>1. k + 1 - 1 = k BY <1>3
      <4> QED BY <2>2, <2>11, <3>1, <4>1
    <3>2. CASE i # 1
      <4>1. i \in 2 .. Len(s) - k + 1 BY <1>1, <1>3, <3>2
      <4> QED BY <2>12, <4>1
    <3> QED BY <3>1, <3>2
  <2>10. Len(v \o u) = Len(s) - k + 1 BY <1>1, <1>3, <2>4, <2>6, <2>7 DEF v
  <2>13. (v \o u)[1].timeoutInMs = t BY <2>2, <2>11
  <2>14. FromOn(s, v \o u, k, n) BY <2>8, <2>10, <2>12, <2>13 DEF FromOn, t
  <2> QED BY <2>5, <2>7, <2>9, <2>14 DEF v
<1> QED BY <1>1, <1>2, <1>3

LEMMA IntervalCount ==
    ASSUME NEW n \in Nat
    PROVE  IsFiniteSet(1 .. n) /\ Cardinality(1 .. n) = n
BY FS_Interval

\* The search of an insertion ends at a place of the list.
LEMMA PassedType ==
    ASSUME NEW n \in Nat, NEW times, NEW timeout
    PROVE  Passed(times, n, timeout) \in 0 .. n
<1> DEFINE P == {k \in 1 .. n : \A j \in 1 .. k : times[j] <= timeout}
<1>1. P \in SUBSET (1 .. n) OBVIOUS
<1>2. IsFiniteSet(1 .. n) /\ Cardinality(1 .. n) = n BY IntervalCount
<1> HIDE DEF P
<1>3. IsFiniteSet(P) /\ Cardinality(P) <= n BY <1>1, <1>2, FS_Subset
<1>4. Cardinality(P) \in Nat BY <1>3, FS_CardinalityType
<1> QED BY <1>3, <1>4 DEF Passed, P

\* A new timer joins the list.
LEMMA InsertProperties ==
    ASSUME NEW S, NEW s \in Seq(Timer(S)), NEW e \in Entry, NEW timeout,
           DistinctTimers(s), e \notin Listed(s)
    PROVE  \E T : /\ S \subseteq T
                  /\ Insert(s, e, timeout) \in Seq(Timer(T))
                  /\ DistinctTimers(Insert(s, e, timeout))
                  /\ Listed(Insert(s, e, timeout)) = Listed(s) \cup {e}
                  /\ LET k == Passed(TimesTo(s), Len(s), timeout)
                     IN  Joined(s, Insert(s, e, timeout), k,
                                [entry |-> e, timeoutInMs |-> timeout - TimesTo(s)[k]])
<1> DEFINE times == TimesTo(s)
           k     == Passed(times, Len(s), timeout)
           rest  == timeout - times[k]
           a     == SubSeq(s, 1, k)
           x     == [entry |-> e, timeoutInMs |-> rest]
           b     == <<x>>
           c     == Rest(s, k + 1, -rest)
           r     == (a \o b) \o c
<1>1. Len(s) \in Nat BY LenProperties
<1>2. k \in 0 .. Len(s) BY <1>1, PassedType
<1>3. Insert(s, e, timeout) = r BY DEF Insert
<1> HIDE DEF k, rest
<1>4. PICK T0 : /\ S \subseteq T0
                /\ c \in Seq(Timer(T0))
                /\ Len(c) = Len(s) - (k + 1) + 1
                /\ \A i \in 1 .. Len(s) - (k + 1) + 1 : c[i].entry = s[k + 1 + i - 1].entry
                /\ k + 1 <= Len(s) => c[1].timeoutInMs = Ticks(s[k + 1].timeoutInMs + -rest)
                /\ \A i \in 2 .. Len(s) - (k + 1) + 1 : c[i] = s[k + 1 + i - 1]
  <2>1. PICK m, p : m = -rest /\ p = k + 1 OBVIOUS
  <2>2. p \in 1 .. Len(s) + 1 BY <1>1, <1>2, <2>1
  <2>3. \E T0 : S \subseteq T0 /\ Rest(s, p, m) \in Seq(Timer(T0)) /\ FromOn(s, Rest(s, p, m), p, m)
    BY <2>2, RestProperties
  <2> QED BY <2>1, <2>3 DEF FromOn
<1> DEFINE T == T0 \cup {rest}
<1>5. a \in Seq(Timer(T)) /\ Len(a) = k /\ \A i \in 1 .. k : a[i] = s[i]
  <2>1. \A i \in 1 .. k : s[i] \in Timer(T)
    <3>1. Timer(S) \subseteq Timer(T) BY <1>4, TimerMonotonic
    <3>2. ASSUME NEW i \in 1 .. k PROVE s[i] \in Timer(S)
      <4>1. i \in 1 .. Len(s) BY <1>1, <1>2
      <4> QED BY <4>1, ElementOfSeq
    <3> QED BY <3>1, <3>2
  <2> HIDE DEF T
  <2>2. /\ a \in Seq(Timer(T))
        /\ Len(a) = IF 1 <= k THEN k - 1 + 1 ELSE 0
        /\ \A i \in 1 .. k - 1 + 1 : a[i] = s[1 + i - 1]
    BY <1>1, <1>2, <2>1, SubSeqProperties
  <2> QED BY <1>1, <1>2, <2>2
<1>6. x \in Timer(T) /\ x.entry = e BY DEF Timer
<1> HIDE DEF x
<1>7. b \in Seq(Timer(T)) /\ Len(b) = 1 /\ b[1] = x BY <1>6
<1>8. c \in Seq(Timer(T)) /\ Len(c) = Len(s) - k /\ \A i \in 1 .. Len(s) - k : c[i].entry = s[k + i].entry
  <2>1. Timer(T0) \subseteq Timer(T) BY TimerMonotonic
  <2>2. c \in Seq(Timer(T)) BY <1>4, <2>1, SeqMonotonic
  <2>3. ASSUME NEW i \in 1 .. Len(s) - k PROVE c[i].entry = s[k + i].entry
    <3>1. i \in 1 .. Len(s) - (k + 1) + 1 /\ k + 1 + i - 1 = k + i BY <1>1, <1>2
    <3> QED BY <1>4, <3>1
  <2>4. Len(c) = Len(s) - k BY <1>1, <1>2, <1>4
  <2> QED BY <2>2, <2>3, <2>4
<1> HIDE DEF a, b, c, T
<1>9. /\ a \o b \in Seq(Timer(T)) /\ Len(a \o b) = k + 1
      /\ \A i \in 1 .. k : (a \o b)[i] = s[i]
      /\ (a \o b)[k + 1] = x
  <2>1. /\ a \o b \in Seq(Timer(T)) /\ Len(a \o b) = Len(a) + Len(b)
        /\ \A i \in 1 .. Len(a) + Len(b) : (a \o b)[i] = IF i <= Len(a) THEN a[i] ELSE b[i - Len(a)]
    BY <1>5, <1>7, ConcatProperties
  <2> QED BY <1>2, <1>5, <1>7, <2>1
<1> DEFINE ab == a \o b
<1> HIDE DEF ab
<1>10. /\ r \in Seq(Timer(T)) /\ Len(r) = Len(s) + 1
       /\ \A i \in 1 .. Len(s) + 1 : r[i] = IF i <= k + 1 THEN ab[i] ELSE c[i - (k + 1)]
  <2>1. /\ ab \o c \in Seq(Timer(T)) /\ Len(ab \o c) = Len(ab) + Len(c)
        /\ \A i \in 1 .. Len(ab) + Len(c) : (ab \o c)[i] = IF i <= Len(ab) THEN ab[i] ELSE c[i - Len(ab)]
    <3>1. ab \in Seq(Timer(T)) BY <1>9 DEF ab
    <3> QED BY <1>8, <3>1, ConcatProperties
  <2>2. Len(ab) = k + 1 /\ Len(ab) + Len(c) = Len(s) + 1 BY <1>1, <1>2, <1>8, <1>9 DEF ab
  <2>3. r = ab \o c BY DEF ab
  <2> HIDE DEF r
  <2> QED BY <2>1, <2>2, <2>3
<1> HIDE DEF r
<1>11. ASSUME NEW i \in 1 .. Len(s) + 1
       PROVE  r[i].entry = IF i <= k THEN s[i].entry ELSE IF i = k + 1 THEN e ELSE s[i - 1].entry
  <2>1. CASE i <= k
    <3>1. i \in 1 .. k /\ i <= k + 1 BY <1>2, <2>1
    <3>2. r[i] = s[i] BY <1>9, <1>10, <3>1 DEF ab
    <3> QED BY <2>1, <3>2
  <2>2. CASE i = k + 1
    <3>1. r[i] = x BY <1>2, <1>9, <1>10, <2>2 DEF ab
    <3> QED BY <1>2, <1>6, <2>2, <3>1
  <2>3. CASE i > k + 1
    <3>1. i - (k + 1) \in 1 .. Len(s) - k /\ k + (i - (k + 1)) = i - 1 BY <1>1, <1>2, <2>3
    <3>2. r[i] = c[i - (k + 1)] BY <1>2, <1>10, <2>3
    <3>3. r[i].entry = s[i - 1].entry BY <1>8, <3>1, <3>2
    <3> QED BY <1>2, <2>3, <3>3
  <2> QED BY <1>2, <2>1, <2>2, <2>3
<1>12. \A i \in 1 .. Len(s) : s[i].entry # e BY DEF Listed
<1>13. DistinctTimers(r)
  <2> SUFFICES ASSUME NEW i \in 1 .. Len(s) + 1, NEW j \in 1 .. Len(s) + 1, r[i].entry = r[j].entry
               PROVE  i = j
    BY <1>10 DEF DistinctTimers
  <2> DEFINE Old(n) == IF n <= k THEN n ELSE n - 1
  <2>1. \A n \in 1 .. Len(s) + 1 : n # k + 1 => Old(n) \in 1 .. Len(s) /\ r[n].entry = s[Old(n)].entry
    BY <1>1, <1>2, <1>11
  <2>2. r[k + 1].entry = e BY <1>1, <1>2, <1>11
  <2>3. CASE i = k + 1 BY <1>12, <2>1, <2>2, <2>3
  <2>4. CASE j = k + 1 BY <1>12, <2>1, <2>2, <2>4
  <2>5. CASE i # k + 1 /\ j # k + 1
    <3>1. Old(i) = Old(j) BY <2>1, <2>5 DEF DistinctTimers
    <3> QED BY <1>2, <2>5, <3>1
  <2> QED BY <2>3, <2>4, <2>5
<1>14. Listed(r) = Listed(s) \cup {e}
  <2>1. ASSUME NEW i \in 1 .. Len(s) + 1 PROVE r[i].entry \in Listed(s) \cup {e}
    <3>1. CASE i <= k BY <1>1, <1>2, <1>11, <3>1 DEF Listed
    <3>2. CASE i = k + 1 BY <1>2, <1>11, <3>2
    <3>3. CASE i > k + 1
      <4>1. i - 1 \in 1 .. Len(s) BY <1>1, <1>2, <3>3
      <4>2. r[i].entry = s[i - 1].entry BY <1>2, <1>11, <3>3
      <4> QED BY <4>1, <4>2 DEF Listed
    <3> QED BY <1>2, <3>1, <3>2, <3>3
  <2>2. e \in Listed(r)
    <3>1. k + 1 \in 1 .. Len(s) + 1 /\ r[k + 1].entry = e BY <1>1, <1>2, <1>11
    <3> QED BY <1>10, <3>1 DEF Listed
  <2>3. ASSUME NEW i \in 1 .. Len(s) PROVE s[i].entry \in Listed(r)
    <3>1. PICK n \in 1 .. Len(s) + 1 : r[n].entry = s[i].entry
      <4>1. CASE i <= k
        <5>1. i \in 1 .. Len(s) + 1 /\ r[i].entry = s[i].entry BY <1>1, <1>11, <4>1
        <5> QED BY <5>1
      <4>2. CASE i > k
        <5>1. /\ i + 1 \in 1 .. Len(s) + 1 /\ ~(i + 1 <= k) /\ i + 1 # k + 1 /\ (i + 1) - 1 = i
          BY <1>1, <1>2, <4>2
        <5>2. r[i + 1].entry = s[i].entry BY <1>11, <5>1
        <5> QED BY <5>1, <5>2
      <4> QED BY <1>2, <4>1, <4>2
    <3> QED BY <1>10, <3>1 DEF Listed
  <2> QED BY <1>10, <2>1, <2>2, <2>3 DEF Listed
<1>15. S \subseteq T BY <1>4 DEF T
<1>16. Joined(s, r, k, x)
  <2>1. \A i \in 1 .. k : r[i] = s[i]
    <3>1. \A i \in 1 .. k : i \in 1 .. Len(s) + 1 /\ i <= k + 1 BY <1>1, <1>2
    <3> QED BY <1>9, <1>10, <3>1 DEF ab
  <2>2. r[k + 1] = x
    <3>1. k + 1 \in 1 .. Len(s) + 1 BY <1>1, <1>2
    <3> QED BY <1>2, <1>9, <1>10, <3>1 DEF ab
  <2>3. ASSUME NEW i \in k + 2 .. Len(s) + 1 PROVE r[i].entry = s[i - 1].entry
    <3>1. i \in 1 .. Len(s) + 1 /\ ~(i <= k) /\ i # k + 1 BY <1>1, <1>2
    <3> QED BY <1>11, <3>1
  <2>4. ASSUME k < Len(s) PROVE r[k + 2].timeoutInMs = Ticks(s[k + 1].timeoutInMs + (-x.timeoutInMs))
    <3>1. k + 2 \in 1 .. Len(s) + 1 /\ ~(k + 2 <= k + 1) /\ k + 2 - (k + 1) = 1 BY <1>1, <1>2, <2>4
    <3>2. r[k + 2] = c[1]
      <4>1. PICK i \in 1 .. Len(s) + 1 : i = k + 2 BY <3>1
      <4>2. ~(i <= k + 1) /\ i - (k + 1) = 1 BY <1>2, <4>1
      <4>3. r[i] = c[1] BY <1>10, <4>2
      <4> QED BY <4>1, <4>3
    <3>3. k + 1 <= Len(s) BY <1>1, <1>2, <2>4
    <3>4. x.timeoutInMs = rest BY DEF x
    <3> QED BY <1>4, <3>2, <3>3, <3>4
  <2>5. ASSUME NEW i \in k + 3 .. Len(s) + 1 PROVE r[i].timeoutInMs = s[i - 1].timeoutInMs
    <3>1. /\ i \in 1 .. Len(s) + 1 /\ ~(i <= k + 1)
          /\ i - (k + 1) \in 2 .. Len(s) - (k + 1) + 1 /\ k + 1 + (i - (k + 1)) - 1 = i - 1
      BY <1>1, <1>2
    <3>2. r[i] = c[i - (k + 1)] BY <1>10, <3>1
    <3>3. c[i - (k + 1)] = s[i - 1] BY <1>4, <3>1
    <3> QED BY <3>2, <3>3
  <2> QED BY <1>10, <2>1, <2>2, <2>3, <2>4, <2>5 DEF Joined
<1>17. k = Passed(TimesTo(s), Len(s), timeout) /\ x = [entry |-> e, timeoutInMs |-> timeout - TimesTo(s)[k]]
  BY DEF k, x, rest
<1> QED BY <1>3, <1>10, <1>13, <1>14, <1>15, <1>16, <1>17

\* A timer leaves the list.
LEMMA RemoveProperties ==
    ASSUME NEW S, NEW s \in Seq(Timer(S)), NEW e, DistinctTimers(s)
    PROVE  \E T : /\ S \subseteq T
                  /\ Remove(s, e) \in Seq(Timer(T))
                  /\ DistinctTimers(Remove(s, e))
                  /\ Listed(Remove(s, e)) = Listed(s) \ {e}
                  /\ \/ e \notin Listed(s) /\ Remove(s, e) = s
                     \/ \E k \in 1 .. Len(s) : s[k].entry = e /\ Left(s, Remove(s, e), k)
<1>1. CASE e \notin Listed(s) BY <1>1 DEF Remove
<1>2. CASE e \in Listed(s)
  <2> DEFINE k == CHOOSE i \in 1 .. Len(s) : s[i].entry = e
             n == s[k].timeoutInMs
             p == k + 1
             a == SubSeq(s, 1, k - 1)
             c == Rest(s, p, n)
             r == a \o c
  <2>1. Len(s) \in Nat BY LenProperties
  <2>2. k \in 1 .. Len(s) /\ s[k].entry = e BY <1>2 DEF Listed
  <2>3. Remove(s, e) = r BY <1>2 DEF Remove
  <2> HIDE DEF k, n
  <2>4. p \in 1 .. Len(s) + 1 /\ p = k + 1 BY <2>1, <2>2
  <2> HIDE DEF p
  <2>5. PICK T : /\ S \subseteq T
                 /\ c \in Seq(Timer(T))
                 /\ Len(c) = Len(s) - p + 1
                 /\ \A i \in 1 .. Len(s) - p + 1 : c[i].entry = s[p + i - 1].entry
                 /\ p <= Len(s) => c[1].timeoutInMs = Ticks(s[p].timeoutInMs + n)
                 /\ \A i \in 2 .. Len(s) - p + 1 : c[i] = s[p + i - 1]
    <3>1. p \in 1 .. Len(s) + 1 BY <2>4
    <3>2. \E T : S \subseteq T /\ Rest(s, p, n) \in Seq(Timer(T)) /\ FromOn(s, Rest(s, p, n), p, n)
      BY <3>1, RestProperties
    <3> QED BY <3>2 DEF FromOn
  <2>6. a \in Seq(Timer(T)) /\ Len(a) = k - 1 /\ \A i \in 1 .. k - 1 : a[i] = s[i]
    <3>1. \A i \in 1 .. k - 1 : s[i] \in Timer(T)
      <4>1. Timer(S) \subseteq Timer(T) BY <2>5, TimerMonotonic
      <4> QED BY <2>1, <2>2, <4>1, ElementOfSeq
    <3> DEFINE q == k - 1
    <3>2. q \in Int BY <2>2
    <3> HIDE DEF q
    <3>3. /\ SubSeq(s, 1, q) \in Seq(Timer(T))
          /\ Len(SubSeq(s, 1, q)) = IF 1 <= q THEN q - 1 + 1 ELSE 0
          /\ \A i \in 1 .. q - 1 + 1 : SubSeq(s, 1, q)[i] = s[1 + i - 1]
      BY <3>1, <3>2, SubSeqProperties DEF q
    <3>4. q >= 0 BY <2>2 DEF q
    <3>5. /\ SubSeq(s, 1, q) \in Seq(Timer(T)) /\ Len(SubSeq(s, 1, q)) = q
          /\ \A i \in 1 .. q : SubSeq(s, 1, q)[i] = s[i]
      BY <3>2, <3>3, <3>4
    <3> QED BY <3>5 DEF q
  <2> HIDE DEF a, c
  <2>7. /\ a \o c \in Seq(Timer(T)) /\ Len(a \o c) = Len(a) + Len(c)
        /\ \A i \in 1 .. Len(a) + Len(c) : (a \o c)[i] = IF i <= Len(a) THEN a[i] ELSE c[i - Len(a)]
    BY <2>5, <2>6, ConcatProperties
  <2>8. Len(a) = k - 1 /\ Len(a) + Len(c) = Len(s) - 1 BY <2>1, <2>2, <2>4, <2>5, <2>6
  <2>9. r \in Seq(Timer(T)) /\ Len(r) = Len(s) - 1 BY <2>7, <2>8
  <2>10. \A i \in 1 .. Len(s) - 1 : r[i] = IF i <= k - 1 THEN a[i] ELSE c[i - (k - 1)] BY <2>7, <2>8
  <2> HIDE DEF r
  <2>11. ASSUME NEW i \in 1 .. Len(s) - 1
         PROVE  r[i].entry = IF i < k THEN s[i].entry ELSE s[i + 1].entry
    <3>1. CASE i < k
      <4>1. i \in 1 .. k - 1 /\ i <= k - 1 BY <2>2, <3>1
      <4> QED BY <2>6, <2>10, <3>1, <4>1
    <3>2. CASE ~(i < k)
      <4>1. /\ i - (k - 1) \in 1 .. Len(s) - p + 1 /\ p + (i - (k - 1)) - 1 = i + 1 /\ ~(i <= k - 1)
        BY <2>1, <2>2, <2>4, <3>2
      <4>2. r[i] = c[i - (k - 1)] BY <2>10, <4>1
      <4>3. r[i].entry = s[i + 1].entry BY <2>5, <4>1, <4>2
      <4> QED BY <3>2, <4>3
    <3> QED BY <3>1, <3>2
  <2> DEFINE From(i) == IF i < k THEN i ELSE i + 1
  <2>12. \A i \in 1 .. Len(s) - 1 : /\ From(i) \in 1 .. Len(s) /\ From(i) # k
                                    /\ r[i].entry = s[From(i)].entry
    BY <2>1, <2>2, <2>11
  <2>13. \A i, j \in 1 .. Len(s) - 1 : From(i) = From(j) => i = j BY <2>2
  <2>14. \A i \in 1 .. Len(s) : i # k => \E j \in 1 .. Len(s) - 1 : From(j) = i
    <3> SUFFICES ASSUME NEW i \in 1 .. Len(s), i # k PROVE \E j \in 1 .. Len(s) - 1 : From(j) = i
      OBVIOUS
    <3>1. CASE i < k
      <4>1. i \in 1 .. Len(s) - 1 /\ From(i) = i BY <2>1, <2>2, <3>1
      <4> QED BY <4>1
    <3>2. CASE i > k
      <4>1. i - 1 \in 1 .. Len(s) - 1 /\ From(i - 1) = i BY <2>1, <2>2, <3>2
      <4> QED BY <4>1
    <3> QED BY <2>2, <3>1, <3>2
  <2> HIDE DEF From
  <2>15. DistinctTimers(r)
    <3> SUFFICES ASSUME NEW i \in 1 .. Len(s) - 1, NEW j \in 1 .. Len(s) - 1, r[i].entry = r[j].entry
                 PROVE  i = j
      BY <2>9 DEF DistinctTimers
    <3>1. From(i) = From(j) BY <2>12 DEF DistinctTimers
    <3> QED BY <2>13, <3>1
  <2>16. Listed(r) = Listed(s) \ {e}
    <3>1. \A i \in 1 .. Len(s) : s[i].entry = e => i = k BY <2>2 DEF DistinctTimers
    <3>2. \A i \in 1 .. Len(s) - 1 : r[i].entry \in Listed(s) \ {e} BY <2>12, <3>1 DEF Listed
    <3>3. ASSUME NEW i \in 1 .. Len(s), s[i].entry # e PROVE s[i].entry \in Listed(r)
      <4>1. PICK j \in 1 .. Len(s) - 1 : From(j) = i BY <2>2, <2>14, <3>3
      <4>2. r[j].entry = s[i].entry BY <2>12, <4>1
      <4> QED BY <2>9, <4>2 DEF Listed
    <3> QED BY <2>9, <3>2, <3>3 DEF Listed
  <2>17. Left(s, r, k)
    <3>1. ASSUME NEW i \in 1 .. k - 1 PROVE r[i] = s[i]
      <4>1. i \in 1 .. Len(s) - 1 /\ i <= k - 1 BY <2>1, <2>2
      <4> QED BY <2>6, <2>10, <4>1
    <3>2. ASSUME NEW i \in k .. Len(s) - 1 PROVE r[i].entry = s[i + 1].entry
      <4>1. i \in 1 .. Len(s) - 1 /\ ~(i < k) BY <2>1, <2>2
      <4> QED BY <2>11, <4>1
    <3>3. ASSUME k < Len(s) PROVE r[k].timeoutInMs = Ticks(s[k + 1].timeoutInMs + s[k].timeoutInMs)
      <4>1. k \in 1 .. Len(s) - 1 /\ ~(k <= k - 1) /\ k - (k - 1) = 1 BY <2>1, <2>2, <3>3
      <4>2. r[k] = c[1] BY <2>10, <4>1
      <4>3. p = k + 1 /\ p <= Len(s) BY <2>1, <2>2, <2>4, <3>3
      <4>4. n = s[k].timeoutInMs BY DEF n
      <4> QED BY <2>5, <4>2, <4>3, <4>4
    <3>4. ASSUME NEW i \in k + 1 .. Len(s) - 1 PROVE r[i].timeoutInMs = s[i + 1].timeoutInMs
      <4>1. /\ i \in 1 .. Len(s) - 1 /\ ~(i <= k - 1)
            /\ i - (k - 1) \in 2 .. Len(s) - p + 1 /\ p + (i - (k - 1)) - 1 = i + 1
        BY <2>1, <2>2, <2>4
      <4>2. r[i] = c[i - (k - 1)] BY <2>10, <4>1
      <4>3. c[i - (k - 1)] = s[i + 1] BY <2>5, <4>1
      <4> QED BY <4>2, <4>3
    <3> QED BY <2>9, <3>1, <3>2, <3>3, <3>4 DEF Left
  <2> QED BY <2>2, <2>3, <2>5, <2>9, <2>15, <2>16, <2>17
<1> QED BY <1>1, <1>2

-----------------------------------------------------------------------------
(* Ticks: equal but for whole tick periods.                                *)

Multiples == {q * TickMod : q \in Int}

LEMMA MultiplesClosed ==
    /\ 0 \in Multiples /\ Multiples \subseteq Int
    /\ \A m, n \in Multiples : m + n \in Multiples /\ m - n \in Multiples
<1> PICK M \in Nat \ {0} : M = TickMod BY TimerAssumption
<1>1. 0 \in Multiples
  <2>1. 0 = 0 * M OBVIOUS
  <2> QED BY <2>1 DEF Multiples
<1>2. ASSUME NEW m \in Multiples, NEW n \in Multiples PROVE m + n \in Multiples /\ m - n \in Multiples
  <2>1. PICK p \in Int, q \in Int : m = p * M /\ n = q * M BY <1>2 DEF Multiples
  <2>2. m + n = (p + q) * M /\ m - n = (p - q) * M /\ p + q \in Int /\ p - q \in Int BY <2>1
  <2> QED BY <2>2 DEF Multiples
<1>3. Multiples \subseteq Int BY DEF Multiples
<1> QED BY <1>1, <1>2, <1>3

LEMMA TicksFacts ==
    ASSUME NEW a \in Int
    PROVE  Ticks(a) \in 0 .. TickMod - 1 /\ Ticks(a) - a \in Multiples
<1> PICK M \in Nat \ {0} : M = TickMod BY TimerAssumption
<1>1. a % M \in 0 .. M - 1 /\ a = M * (a \div M) + (a % M) /\ a \div M \in Int
  <2>1. a \div M \in Int OBVIOUS
  <2>2. a % M \in 0 .. M - 1 OBVIOUS
  <2>3. a = M * (a \div M) + (a % M) OBVIOUS
  <2> QED BY <2>1, <2>2, <2>3
<1> DEFINE q == a \div M
           t == a % M
<1> HIDE DEF q, t
<1>2. t - a = (-q) * M /\ -q \in Int BY <1>1 DEF q, t
<1>3. Ticks(a) = t BY DEF Ticks, t
<1> QED BY <1>1, <1>2, <1>3 DEF Multiples, q, t

\* between
LEMMA MultiplesSpread ==
    ASSUME NEW m \in Multiples, m < TickMod, -m < TickMod
    PROVE  m = 0
<1> PICK M \in Nat \ {0} : M = TickMod BY TimerAssumption
<1>1. PICK q \in Int : m = q * M BY DEF Multiples
<1>2. CASE q >= 1
  <2>1. q * M >= M BY <1>2
  <2> QED BY <1>1, <2>1
<1>3. CASE q <= -1
  <2>1. (-q) * M >= M BY <1>3
  <2>2. -(q * M) = (-q) * M OBVIOUS
  <2> QED BY <1>1, <2>1, <2>2
<1> QED BY <1>1, <1>2, <1>3

LEMMA SameTicks ==
    ASSUME NEW a \in Int, NEW b \in Int, a - b \in Multiples
    PROVE  Ticks(a) = Ticks(b)
<1>1. Ticks(a) \in 0 .. TickMod - 1 /\ Ticks(a) - a \in Multiples BY TicksFacts
<1>2. Ticks(b) \in 0 .. TickMod - 1 /\ Ticks(b) - b \in Multiples BY TicksFacts
<1>3. TickMod \in Nat \ {0} BY TimerAssumption
<1> DEFINE x == Ticks(a) - a
           y == Ticks(b) - b
           z == a - b
<1>4. (x + z) - y \in Multiples BY <1>1, <1>2, MultiplesClosed
<1>5. (x + z) - y = Ticks(a) - Ticks(b) BY <1>1, <1>2
<1> QED BY <1>1, <1>2, <1>3, <1>4, <1>5, MultiplesSpread

-----------------------------------------------------------------------------
(* The search of an insertion.                                             *)

LEMMA Induction ==
  ASSUME NEW n \in Nat, NEW S, 0 \in S, \A k \in 1 .. n : k - 1 \in S => k \in S
  PROVE  0 .. n \subseteq S
<1> DEFINE R == {ss \in Nat \X Nat : ss[1] < ss[2]}
           D == (0 .. n) \ S
<1> SUFFICES ASSUME D # {} PROVE FALSE
  OBVIOUS
<1>1. D \subseteq Nat
  OBVIOUS
<1>2. IsWellFoundedOn(R, Nat)
  BY NatLessThanWellFounded DEF OpToRel
<1>3. \A x, y \in Nat : y < x => <<y, x>> \in R
  OBVIOUS
<1> HIDE DEF R
<1>4. PICK k \in D : \A j \in D : ~(<<j, k>> \in R)
  <2> HIDE DEF D
  <2> QED BY <1>1, <1>2, WFMin
<1>5. \A j \in D : ~(j < k)
  <2> HIDE DEF D
  <2> QED BY <1>1, <1>3, <1>4, Zenon
<1>6. k \in 0 .. n /\ k \notin S OBVIOUS
<1>7. k - 1 \in D BY <1>6
<1> QED BY <1>5, <1>6, <1>7

LEMMA TimesToFacts ==
    ASSUME NEW list, Len(list) \in Nat
    PROVE  /\ TimesTo(list)[0] = 0
           /\ \A k \in 1 .. Len(list) : TimesTo(list)[k] = TimesTo(list)[k - 1] + list[k].timeoutInMs
<1> PICK n \in Nat : n = Len(list) OBVIOUS
<1> DEFINE F(m, f) == f = [k \in 0 .. m |-> IF k = 0 THEN 0 ELSE f[k - 1] + list[k].timeoutInMs]
           S == {m \in 0 .. n : \E f : F(m, f)}
<1>1. 0 \in S
  <2> DEFINE f == [k \in 0 .. 0 |-> 0]
  <2>1. F(0, f) OBVIOUS
  <2>2. 0 \in 0 .. n OBVIOUS
  <2> HIDE DEF F, f
  <2> QED BY <2>1, <2>2
<1>2. ASSUME NEW m \in 1 .. n, m - 1 \in S PROVE m \in S
  <2>1. PICK f : F(m - 1, f) BY <1>2
  <2> DEFINE g == [k \in 0 .. m |-> IF k = m THEN f[m - 1] + list[m].timeoutInMs ELSE f[k]]
  <2>2. ASSUME NEW k \in 0 .. m PROVE g[k] = IF k = 0 THEN 0 ELSE g[k - 1] + list[k].timeoutInMs
    <3>1. CASE k = m BY <3>1
    <3>2. CASE k # m
      <4>1. k \in 0 .. m - 1 BY <3>2
      <4>2. f[k] = IF k = 0 THEN 0 ELSE f[k - 1] + list[k].timeoutInMs BY <2>1, <4>1
      <4>3. k # 0 => k - 1 \in 0 .. m /\ k - 1 # m BY <3>2
      <4>4. g[k] = f[k] /\ (k # 0 => g[k - 1] = f[k - 1]) BY <3>2, <4>3
      <4> HIDE DEF g
      <4> QED BY <4>2, <4>4
    <3> QED BY <3>1, <3>2
  <2>3. F(m, g) 
    <3>1. g = [k \in 0 .. m |-> g[k]] OBVIOUS
    <3> HIDE DEF g
    <3> QED BY <2>2, <3>1
  <2>4. m \in 0 .. n OBVIOUS
  <2> HIDE DEF F, g
  <2> QED BY <2>3, <2>4
<1>3. n \in S
  <2>1. 0 .. n \subseteq S 
     <3> HIDE DEF S
     <3> QED BY <1>1, <1>2, Induction
  <2> QED BY <2>1
<1>4. F(n, TimesTo(list))
  <2>1. \E f : F(n, f) BY <1>3
  <2>2. TimesTo(list) = CHOOSE f : F(n, f) BY DEF TimesTo
  <2> QED BY <2>1, <2>2
<1> DEFINE T == TimesTo(list)
<1>5. T = [k \in 0 .. n |-> IF k = 0 THEN 0 ELSE T[k - 1] + list[k].timeoutInMs] BY <1>4
<1> HIDE DEF T
<1>6. \A k \in 0 .. n : T[k] = IF k = 0 THEN 0 ELSE T[k - 1] + list[k].timeoutInMs BY <1>5
<1> QED BY <1>6 DEF T
\* The search ends behind the last timer of the front that is due before or with the new one.
LEMMA PassedIs ==
    ASSUME NEW n \in Nat, NEW times, NEW timeout \in Int, \A j \in 1 .. n : times[j] \in Int
    PROVE  LET k == Passed(times, n, timeout)
           IN  /\ k \in 0 .. n
               /\ \A j \in 1 .. k : times[j] <= timeout
               /\ k < n => times[k + 1] > timeout
<1> DEFINE P == {k \in 1 .. n : \A j \in 1 .. k : times[j] <= timeout}
<1>1. PICK p \in 0 .. n : (p = 0 \/ p \in P) /\ (p < n => times[p + 1] > timeout)
  <2> DEFINE S == P \cup {0}
  <2> SUFFICES ASSUME \A p \in S : p < n /\ ~(times[p + 1] > timeout) PROVE FALSE
    OBVIOUS
  <2>1. ASSUME NEW k \in 1 .. n, k - 1 \in S PROVE k \in S
    <3>1. \A j \in 1 .. k - 1 : times[j] <= timeout BY <2>1
    <3>2. ~(times[(k - 1) + 1] > timeout) /\ (k - 1) + 1 = k BY <2>1
    <3>3. times[k] <= timeout BY <3>2
    <3>4. \A j \in 1 .. k : j = k \/ j \in 1 .. k - 1 OBVIOUS
    <3> QED BY <3>1, <3>3, <3>4
  <2>2. 0 \in S OBVIOUS
  <2>3. 0 .. n \subseteq S
    <3> HIDE DEF S
    <3> QED BY <2>1, <2>2, Induction
  <2>4. n \in S BY <2>3
  <2> QED BY <2>4
<1>2. \A j \in 1 .. p : times[j] <= timeout BY <1>1
<1>3. P = 1 .. p
  <2>1. ASSUME NEW k \in 1 .. p PROVE k \in P BY <1>2
  <2>2. ASSUME NEW k \in P PROVE k \in 1 .. p
    <3> SUFFICES ASSUME k > p PROVE FALSE OBVIOUS
    <3>1. p + 1 \in 1 .. k /\ p + 1 \in 1 .. n /\ p < n OBVIOUS
    <3>2. times[p + 1] <= timeout BY <3>1
    <3> QED BY <1>1, <3>1, <3>2
  <2> QED BY <2>1, <2>2
<1>4. Passed(times, n, timeout) = p
  <2>1. Cardinality(1 .. p) = p BY FS_Interval
  <2> QED BY <1>3, <2>1 DEF Passed
<1> QED BY <1>1, <1>2, <1>4

-----------------------------------------------------------------------------
(* The delta list: with start the start time and d the deadlines, every    *)
(* timer of the list s comes timeoutInMs after the one before, but for a   *)
(* difference in Z: whole tick periods or, as long as nothing wraps, none. *)

Scale == {Multiples, {0}}

Base(s, start, d, k) == IF k = 0 THEN start ELSE d[s[k].entry]

Kept(Z, s, start, d) ==
    \A k \in 1 .. Len(s) :
        /\ s[k].timeoutInMs \in Nat
        /\ Base(s, start, d, k) - (Base(s, start, d, k - 1) + s[k].timeoutInMs) \in Z

\* The wrap of the ticks is no difference.
Fits(Z, n) == Ticks(n) - n \in Z

LEMMA ScaleClosed ==
    ASSUME NEW Z \in Scale
    PROVE  /\ 0 \in Z /\ Z \subseteq Int
           /\ \A m, n \in Z : m + n \in Z /\ m - n \in Z
<1>1. CASE Z = Multiples BY <1>1, MultiplesClosed
<1>2. CASE Z = {0}
  <2>1. 0 \in Z /\ Z \subseteq Int BY <1>2
  <2>2. ASSUME NEW m \in Z, NEW n \in Z PROVE m + n \in Z /\ m - n \in Z
    <3>1. m = 0 /\ n = 0 BY <1>2
    <3>2. m + n = 0 /\ m - n = 0 BY <3>1
    <3> QED BY <2>1, <3>2
  <2> QED BY <2>1, <2>2
<1> QED BY <1>1, <1>2 DEF Scale

LEMMA BaseType ==
    ASSUME NEW s, Len(s) \in Nat, \A k \in 1 .. Len(s) : s[k].entry \in Entry,
           NEW start \in Int, NEW d \in [Entry -> Int], NEW k \in 0 .. Len(s)
    PROVE  Base(s, start, d, k) \in Int
BY DEF Base

\* A new timer joins the list.
LEMMA KeptJoined ==
    ASSUME NEW Z \in Scale, NEW s, Len(s) \in Nat, \A k \in 1 .. Len(s) : s[k].entry \in Entry,
           NEW start \in Int, NEW d \in [Entry -> Int], NEW g \in [Entry -> Int],
           NEW e \in Entry, \A x \in Listed(s) : g[x] = d[x],
           NEW K \in 0 .. Len(s), NEW n \in Nat, NEW r, Joined(s, r, K, [entry |-> e, timeoutInMs |-> n]),
           Kept(Z, s, start, d),
           g[e] - (Base(s, start, d, K) + n) \in Z,
           K < Len(s) => Fits(Z, s[K + 1].timeoutInMs + (-n))
    PROVE  Kept(Z, r, start, g)
<1> DEFINE x == [entry |-> e, timeoutInMs |-> n]
           B(k) == Base(s, start, d, k)
           C(k) == Base(r, start, g, k)
<1>1. x.entry = e /\ x.timeoutInMs = n OBVIOUS
<1>2. /\ Len(r) = Len(s) + 1
      /\ \A i \in 1 .. K : r[i] = s[i]
      /\ r[K + 1].entry = e /\ r[K + 1].timeoutInMs = n
      /\ \A i \in K + 2 .. Len(s) + 1 : r[i].entry = s[i - 1].entry
      /\ K < Len(s) => r[K + 2].timeoutInMs = Ticks(s[K + 1].timeoutInMs + (-n))
      /\ \A i \in K + 3 .. Len(s) + 1 : r[i].timeoutInMs = s[i - 1].timeoutInMs
  BY <1>1 DEF Joined
<1> HIDE DEF x
<1>3. \A k \in 0 .. Len(s) : B(k) \in Int BY BaseType
<1>4. \A k \in 1 .. Len(s) : s[k].timeoutInMs \in Nat /\ B(k) - (B(k - 1) + s[k].timeoutInMs) \in Z
  BY DEF Kept
<1>5. \A k \in 1 .. Len(s) : g[s[k].entry] = d[s[k].entry] BY DEF Listed
<1>6. ASSUME NEW k \in 0 .. K PROVE C(k) = B(k)
  <2>1. CASE k = 0 BY <2>1 DEF Base
  <2>2. CASE k # 0
    <3>1. k \in 1 .. K /\ k \in 1 .. Len(s) BY <2>2
    <3> QED BY <1>2, <1>5, <3>1 DEF Base
  <2> QED BY <2>1, <2>2
<1>7. C(K + 1) = g[e] BY <1>2 DEF Base
<1>8. ASSUME NEW k \in K + 2 .. Len(s) + 1 PROVE C(k) = B(k - 1)
  <2>1. k # 0 /\ k - 1 # 0 /\ k - 1 \in 1 .. Len(s) OBVIOUS
  <2> QED BY <1>2, <1>5, <2>1 DEF Base
<1> HIDE DEF B, C
<1>9. ASSUME NEW k \in 1 .. Len(s) + 1
      PROVE  r[k].timeoutInMs \in Nat /\ C(k) - (C(k - 1) + r[k].timeoutInMs) \in Z
  <2>1. CASE k <= K
    <3>1. k \in 1 .. K /\ k \in 1 .. Len(s) /\ k \in 0 .. K /\ k - 1 \in 0 .. K BY <2>1
    <3>2. C(k) = B(k) /\ C(k - 1) = B(k - 1) /\ r[k] = s[k] BY <1>2, <1>6, <3>1
    <3> QED BY <1>4, <3>1, <3>2
  <2>2. CASE k = K + 1
    <3>1. C(k) = g[e] /\ C(k - 1) = B(K) /\ r[k].timeoutInMs = n
      <4>1. k - 1 = K /\ K \in 0 .. K BY <2>2
      <4> QED BY <1>2, <1>6, <1>7, <2>2, <4>1
    <3>2. g[e] - (B(K) + n) \in Z BY DEF B
    <3> QED BY <3>1, <3>2
  <2>3. CASE k = K + 2
    <3>1. K < Len(s) /\ k \in K + 2 .. Len(s) + 1 /\ k - 1 = K + 1 /\ K + 1 \in 1 .. Len(s) BY <2>3
    <3> DEFINE m == s[K + 1].timeoutInMs
               t == Ticks(m + (-n))
    <3>2. C(k) = B(K + 1) /\ C(k - 1) = g[e] /\ r[k].timeoutInMs = t BY <1>2, <1>7, <1>8, <2>3, <3>1
    <3>3. m \in Nat /\ B(K + 1) - (B(K) + m) \in Z
      <4>1. (K + 1) - 1 = K OBVIOUS
      <4> QED BY <1>4, <3>1, <4>1
    <3>4. g[e] - (B(K) + n) \in Z /\ g[e] \in Int /\ B(K) \in Int /\ B(K + 1) \in Int BY <1>3, <3>1 DEF B
    <3>5. t \in Nat /\ t - (m + (-n)) \in Z
      <4>1. m + (-n) \in Int BY <3>3
      <4>2. t \in 0 .. TickMod - 1 BY <4>1, TicksFacts
      <4> QED BY <3>1, <4>2, TimerAssumption DEF Fits
    <3> DEFINE b == B(K)
               c == B(K + 1)
               f == g[e]
    <3> HIDE DEF m, t, b, c, f
    <3> DEFINE u == c - (b + m)
               v == f - (b + n)
               w == t - (m + (-n))
    <3>6. u \in Z /\ v \in Z /\ w \in Z BY <3>3, <3>4, <3>5 DEF b, c, f
    <3>7. (u - v) - w \in Z
      <4> HIDE DEF u, v, w
      <4> QED BY <3>6, ScaleClosed
    <3>8. b \in Int /\ c \in Int /\ f \in Int BY <3>4 DEF b, c, f
    <3>9. (u - v) - w = c - (f + t) BY <3>3, <3>5, <3>8
    <3> QED BY <3>2, <3>5, <3>7, <3>9 DEF c, f
  <2>4. CASE k >= K + 3
    <3>1. /\ k \in K + 3 .. Len(s) + 1 /\ k \in K + 2 .. Len(s) + 1 /\ k - 1 \in K + 2 .. Len(s) + 1
          /\ k - 1 \in 1 .. Len(s)
      BY <2>4
    <3>2. C(k) = B(k - 1) /\ C(k - 1) = B((k - 1) - 1) /\ r[k].timeoutInMs = s[k - 1].timeoutInMs
      BY <1>2, <1>8, <3>1
    <3> QED BY <1>4, <3>1, <3>2
  <2> QED BY <2>1, <2>2, <2>3, <2>4
<1> QED BY <1>2, <1>9 DEF Kept, C

\* A timer leaves it.
LEMMA KeptLeft ==
    ASSUME NEW Z \in Scale, NEW s, Len(s) \in Nat, \A k \in 1 .. Len(s) : s[k].entry \in Entry,
           NEW start \in Int, NEW d \in [Entry -> Int],
           NEW K \in 1 .. Len(s), NEW r, Left(s, r, K),
           Kept(Z, s, start, d),
           K < Len(s) => Fits(Z, s[K + 1].timeoutInMs + s[K].timeoutInMs)
    PROVE  Kept(Z, r, start, d)
<1> DEFINE B(k) == Base(s, start, d, k)
           C(k) == Base(r, start, d, k)
<1>2. /\ Len(r) = Len(s) - 1
      /\ \A i \in 1 .. K - 1 : r[i] = s[i]
      /\ \A i \in K .. Len(s) - 1 : r[i].entry = s[i + 1].entry
      /\ K < Len(s) => r[K].timeoutInMs = Ticks(s[K + 1].timeoutInMs + s[K].timeoutInMs)
      /\ \A i \in K + 1 .. Len(s) - 1 : r[i].timeoutInMs = s[i + 1].timeoutInMs
  BY DEF Left
<1>3. \A k \in 0 .. Len(s) : B(k) \in Int BY BaseType
<1>4. \A k \in 1 .. Len(s) : s[k].timeoutInMs \in Nat /\ B(k) - (B(k - 1) + s[k].timeoutInMs) \in Z
  BY DEF Kept
<1>6. ASSUME NEW k \in 0 .. K - 1 PROVE C(k) = B(k)
  <2>1. CASE k = 0 BY <2>1 DEF Base
  <2>2. CASE k # 0
    <3>1. k \in 1 .. K - 1 BY <2>2
    <3> QED BY <1>2, <3>1 DEF Base
  <2> QED BY <2>1, <2>2
<1>8. ASSUME NEW k \in K .. Len(s) - 1 PROVE C(k) = B(k + 1)
  <2>1. k # 0 /\ k + 1 # 0 OBVIOUS
  <2> QED BY <1>2, <2>1 DEF Base
<1> HIDE DEF B, C
<1>9. ASSUME NEW k \in 1 .. Len(s) - 1
      PROVE  r[k].timeoutInMs \in Nat /\ C(k) - (C(k - 1) + r[k].timeoutInMs) \in Z
  <2>1. CASE k < K
    <3>1. k \in 1 .. K - 1 /\ k \in 1 .. Len(s) /\ k \in 0 .. K - 1 /\ k - 1 \in 0 .. K - 1 BY <2>1
    <3>2. C(k) = B(k) /\ C(k - 1) = B(k - 1) /\ r[k] = s[k] BY <1>2, <1>6, <3>1
    <3> QED BY <1>4, <3>1, <3>2
  <2>3. CASE k = K
    <3>1. /\ K < Len(s) /\ K + 1 \in 1 .. Len(s) /\ K - 1 \in 0 .. K - 1 /\ K \in K .. Len(s) - 1
          /\ (K + 1) - 1 = K /\ K - 1 \in 0 .. Len(s) /\ K \in 0 .. Len(s) /\ K + 1 \in 0 .. Len(s)
      BY <2>3
    <3> DEFINE m == s[K + 1].timeoutInMs
               n == s[K].timeoutInMs
               t == Ticks(m + n)
    <3>2. C(K) = B(K + 1) /\ C(K - 1) = B(K - 1) /\ r[K].timeoutInMs = t BY <1>2, <1>6, <1>8, <3>1
    <3>3. m \in Nat /\ n \in Nat /\ B(K + 1) - (B(K) + m) \in Z /\ B(K) - (B(K - 1) + n) \in Z
      BY <1>4, <3>1
    <3>4. B(K - 1) \in Int /\ B(K) \in Int /\ B(K + 1) \in Int BY <1>3, <3>1
    <3>5. t \in Nat /\ t - (m + n) \in Z
      <4>1. m + n \in Int BY <3>3
      <4>2. t \in 0 .. TickMod - 1 BY <4>1, TicksFacts
      <4> QED BY <3>1, <4>2, TimerAssumption DEF Fits
    <3> HIDE DEF m, n, t
    <3> DEFINE u == B(K + 1) - (B(K) + m)
               v == B(K) - (B(K - 1) + n)
               w == t - (m + n)
    <3>6. (u + v) - w \in Z BY <3>3, <3>4, <3>5, ScaleClosed
    <3>7. (u + v) - w = B(K + 1) - (B(K - 1) + t) BY <3>3, <3>4, <3>5
    <3> QED BY <2>3, <3>2, <3>5, <3>6, <3>7
  <2>4. CASE k > K
    <3>1. /\ k \in K + 1 .. Len(s) - 1 /\ k \in K .. Len(s) - 1 /\ k - 1 \in K .. Len(s) - 1
          /\ k + 1 \in 1 .. Len(s) /\ (k - 1) + 1 = (k + 1) - 1
      BY <2>4
    <3>2. C(k) = B(k + 1) /\ C(k - 1) = B((k - 1) + 1) /\ r[k].timeoutInMs = s[k + 1].timeoutInMs
      BY <1>2, <1>8, <3>1
    <3> QED BY <1>4, <3>1, <3>2
  <2> QED BY <2>1, <2>3, <2>4
<1> QED BY <1>2, <1>9 DEF Kept, C

\* The first timer leaves the list, which counts from its deadline on.
LEMMA KeptTail ==
    ASSUME NEW Z \in Scale, NEW s, Len(s) \in Nat \ {0}, \A k \in 1 .. Len(s) : s[k].entry \in Entry,
           NEW start \in Int, NEW d \in [Entry -> Int], NEW t \in Int,
           NEW r, Len(r) = Len(s) - 1, \A k \in 1 .. Len(r) : r[k] = s[k + 1],
           Kept(Z, s, start, d), t - (start + s[1].timeoutInMs) \in Z
    PROVE  Kept(Z, r, t, d)
<1> DEFINE B(k) == Base(s, start, d, k)
           C(k) == Base(r, t, d, k)
<1>1. \A k \in 0 .. Len(s) : B(k) \in Int BY BaseType
<1>2. \A k \in 1 .. Len(s) : s[k].timeoutInMs \in Nat /\ B(k) - (B(k - 1) + s[k].timeoutInMs) \in Z
  BY DEF Kept
<1>3. ASSUME NEW k \in 1 .. Len(r) PROVE C(k) = B(k + 1)
  <2>1. k # 0 /\ k + 1 # 0 OBVIOUS
  <2> QED BY <2>1 DEF Base
<1>4. B(0) = start /\ C(0) = t BY DEF Base
<1> HIDE DEF B, C
<1>5. ASSUME NEW k \in 1 .. Len(r)
      PROVE  r[k].timeoutInMs \in Nat /\ C(k) - (C(k - 1) + r[k].timeoutInMs) \in Z
  <2>1. k + 1 \in 1 .. Len(s) /\ (k + 1) - 1 = k /\ r[k] = s[k + 1] OBVIOUS
  <2>2. r[k].timeoutInMs \in Nat /\ B(k + 1) - (B(k) + r[k].timeoutInMs) \in Z BY <1>2, <2>1
  <2>3. CASE k = 1
    <3>1. C(1) = B(2) /\ C(1 - 1) = t /\ 1 \in 1 .. Len(s) /\ 1 - 1 = 0 /\ 1 + 1 = 2 BY <1>3, <1>4, <2>3
    <3>2. s[1].timeoutInMs \in Nat /\ B(1) - (start + s[1].timeoutInMs) \in Z BY <1>2, <1>4, <3>1
    <3>3. B(1) \in Int /\ B(2) \in Int BY <1>1, <2>1, <2>3
    <3> DEFINE m == s[1].timeoutInMs
               n == r[1].timeoutInMs
    <3>4. m \in Nat /\ n \in Nat /\ B(2) - (B(1) + n) \in Z BY <2>2, <2>3, <3>1, <3>2
    <3>9. t - (start + m) \in Z /\ B(1) - (start + m) \in Z BY <3>2
    <3> HIDE DEF m, n
    <3> DEFINE u == B(2) - (B(1) + n)
               v == B(1) - (start + m)
               w == t - (start + m)
    <3>5. (u + v) - w \in Z BY <3>4, <3>9, ScaleClosed
    <3>6. (u + v) - w = B(2) - (t + n) BY <3>3, <3>4
    <3> QED BY <2>3, <3>1, <3>4, <3>5, <3>6 DEF n
  <2>4. CASE k # 1
    <3>1. k - 1 \in 1 .. Len(r) /\ (k - 1) + 1 = k BY <2>4
    <3>2. C(k) = B(k + 1) /\ C(k - 1) = B(k) BY <1>3, <3>1
    <3> QED BY <2>2, <3>2
  <2> QED BY <2>3, <2>4
<1> QED BY <1>5 DEF Kept, C

\* Another start time, if the difference is none.
LEMMA KeptShift ==
    ASSUME NEW Z \in Scale, NEW s, Len(s) \in Nat, \A k \in 1 .. Len(s) : s[k].entry \in Entry,
           NEW start \in Int, NEW d \in [Entry -> Int], Kept(Z, s, start, d),
           NEW t \in Int, t - start \in Z
    PROVE  Kept(Z, s, t, d)
<1> DEFINE B(k) == Base(s, start, d, k)
           C(k) == Base(s, t, d, k)
<1>1. \A k \in 0 .. Len(s) : B(k) \in Int BY BaseType
<1>2. \A k \in 1 .. Len(s) : s[k].timeoutInMs \in Nat /\ B(k) - (B(k - 1) + s[k].timeoutInMs) \in Z
  BY DEF Kept
<1>3. \A k \in 1 .. Len(s) : C(k) = B(k)
  <2>1. \A k \in 1 .. Len(s) : k # 0 OBVIOUS
  <2> QED BY <2>1 DEF Base
<1>4. B(0) = start /\ C(0) = t BY DEF Base
<1> HIDE DEF B, C
<1>5. ASSUME NEW k \in 1 .. Len(s)
      PROVE  s[k].timeoutInMs \in Nat /\ C(k) - (C(k - 1) + s[k].timeoutInMs) \in Z
  <2>1. CASE k = 1
    <3> DEFINE m == s[1].timeoutInMs
               b == B(1)
               u == b - (start + m)
               v == t - start
    <3>1. 1 - 1 = 0 /\ 1 \in 1 .. Len(s) /\ 1 \in 0 .. Len(s) BY <2>1
    <3>2. m \in Nat /\ u \in Z /\ b \in Int BY <1>1, <1>2, <1>4, <3>1
    <3>3. u - v \in Z
      <4> HIDE DEF u
      <4> QED BY <3>2, ScaleClosed
    <3> HIDE DEF m, b
    <3>4. u - v = b - (t + m) BY <3>2
    <3>5. C(1) = b /\ C(1 - 1) = t BY <1>3, <1>4, <3>1 DEF b
    <3>6. C(1) - (C(1 - 1) + m) \in Z BY <3>3, <3>4, <3>5
    <3> QED BY <2>1, <3>2, <3>6 DEF m
  <2>2. CASE k # 1
    <3>1. k - 1 \in 1 .. Len(s) BY <2>2
    <3>2. C(k) = B(k) /\ C(k - 1) = B(k - 1) BY <1>3, <3>1
    <3> QED BY <1>2, <3>2
  <2> QED BY <2>1, <2>2
<1> QED BY <1>5 DEF Kept, C

\* The times of the list add up to the deadlines.
LEMMA KeptTimes ==
    ASSUME NEW Z \in Scale, NEW s, Len(s) \in Nat, \A k \in 1 .. Len(s) : s[k].entry \in Entry,
           NEW start \in Int, NEW d \in [Entry -> Int], Kept(Z, s, start, d)
    PROVE  \A k \in 0 .. Len(s) : /\ TimesTo(s)[k] \in Int
                                  /\ Base(s, start, d, k) - (start + TimesTo(s)[k]) \in Z
<1> DEFINE T == TimesTo(s)
           B(k) == Base(s, start, d, k)
           S == {k \in 0 .. Len(s) : T[k] \in Int /\ B(k) - (start + T[k]) \in Z}
<1>1. T[0] = 0 /\ \A k \in 1 .. Len(s) : T[k] = T[k - 1] + s[k].timeoutInMs BY TimesToFacts
<1>2. \A k \in 0 .. Len(s) : B(k) \in Int BY BaseType
<1>3. \A k \in 1 .. Len(s) : s[k].timeoutInMs \in Nat /\ B(k) - (B(k - 1) + s[k].timeoutInMs) \in Z
  BY DEF Kept
<1>4. B(0) = start BY DEF Base
<1> HIDE DEF T, B
<1>5. 0 \in S
  <2>1. B(0) - (start + T[0]) = 0 BY <1>1, <1>4
  <2> QED BY <1>1, <2>1, ScaleClosed
<1>6. ASSUME NEW k \in 1 .. Len(s), k - 1 \in S PROVE k \in S
  <2>1. T[k - 1] \in Int /\ B(k - 1) - (start + T[k - 1]) \in Z BY <1>6
  <2> DEFINE m == s[k].timeoutInMs
             u == B(k) - (B(k - 1) + m)
             v == B(k - 1) - (start + T[k - 1])
  <2>2. m \in Int /\ u \in Z /\ T[k] = T[k - 1] + m BY <1>1, <1>3
  <2>3. B(k) \in Int /\ B(k - 1) \in Int BY <1>2
  <2> HIDE DEF m
  <2>4. u + v \in Z BY <2>1, <2>2, ScaleClosed
  <2>5. u + v = B(k) - (start + T[k]) /\ T[k] \in Int BY <2>1, <2>2, <2>3
  <2> QED BY <2>4, <2>5
<1>7. 0 .. Len(s) \subseteq S
  <2> HIDE DEF S
  <2> QED BY <1>5, <1>6, Induction
<1> QED BY <1>7 DEF T, B

\* As long as nothing wraps, the timer list is sorted by deadline.
LEMMA KeptSorted ==
    ASSUME NEW s, Len(s) \in Nat \ {0}, \A k \in 1 .. Len(s) : s[k].entry \in Entry,
           NEW start \in Int, NEW d \in [Entry -> Int], Kept({0}, s, start, d)
    PROVE  \A k \in 1 .. Len(s) : d[s[1].entry] <= d[s[k].entry]
<1> DEFINE B(k) == Base(s, start, d, k)
           S == {k \in 0 .. Len(s) : k = 0 \/ B(1) <= B(k)}
<1>1. \A k \in 0 .. Len(s) : B(k) \in Int BY BaseType
<1>2. \A k \in 1 .. Len(s) : s[k].timeoutInMs \in Nat /\ B(k) - (B(k - 1) + s[k].timeoutInMs) = 0
  BY DEF Kept
<1> HIDE DEF B
<1>3. ASSUME NEW k \in 1 .. Len(s), k - 1 \in S PROVE k \in S
  <2>1. B(k) \in Int /\ B(1) \in Int /\ B(k - 1) \in Int BY <1>1
  <2>2. CASE k = 1 BY <2>1, <2>2
  <2>3. CASE k # 1
    <3>1. B(1) <= B(k - 1) BY <1>3, <2>3
    <3> DEFINE m == s[k].timeoutInMs
               a == B(1)
               b == B(k - 1)
               c == B(k)
    <3>2. m \in Nat /\ c - (b + m) = 0 BY <1>2
    <3>3. a \in Int /\ b \in Int /\ c \in Int /\ a <= b BY <2>1, <3>1
    <3> HIDE DEF m, a, b, c
    <3>4. a <= c BY <3>2, <3>3
    <3> QED BY <3>4 DEF a, c
  <2> QED BY <2>2, <2>3
<1>4. 0 .. Len(s) \subseteq S
  <2>1. 0 \in S OBVIOUS
  <2> HIDE DEF S
  <2> QED BY <1>3, <2>1, Induction
<1>5. ASSUME NEW k \in 1 .. Len(s) PROVE B(k) = d[s[k].entry]
  <2>1. k # 0 OBVIOUS
  <2> QED BY <2>1 DEF B, Base
<1>6. ASSUME NEW k \in 1 .. Len(s) PROVE d[s[1].entry] <= d[s[k].entry]
  <2>1. k \in S /\ k # 0 BY <1>4
  <2>2. B(1) <= B(k) BY <2>1
  <2>3. 1 \in 1 .. Len(s) OBVIOUS
  <2> QED BY <1>5, <2>2, <2>3
<1> QED BY <1>6

LEMMA NoWrap ==
    ASSUME NEW n \in 0 .. TickMod - 1
    PROVE  Ticks(n) = n
<1>1. n \in Int /\ TickMod \in Nat \ {0} BY TimerAssumption
<1>2. Ticks(n) \in 0 .. TickMod - 1 /\ Ticks(n) - n \in Multiples BY <1>1, TicksFacts
<1> DEFINE t == Ticks(n)
<1> HIDE DEF t
<1>3. t - n \in Multiples /\ t - n < TickMod /\ -(t - n) < TickMod BY <1>1, <1>2 DEF t
<1>4. t - n = 0 BY <1>3, MultiplesSpread
<1> QED BY <1>1, <1>2, <1>4 DEF t

\* What is needed for nothing to wrap: from start on every deadline comes within a tick period.
Room(Z, s, start, d) == Z # Multiples => \A x \in Listed(s) : d[x] - start \in 0 .. TickMod - 1

LEMMA ScaleCases == \A Z \in Scale : Z = Multiples \/ (Z = {0} /\ Z # Multiples)
<1>1. 1 * TickMod \in Multiples /\ 1 * TickMod # 0 BY TimerAssumption DEF Multiples
<1>2. Multiples # {0} BY <1>1
<1> QED BY <1>2 DEF Scale

LEMMA FitsMultiples ==
    ASSUME NEW n \in Int
    PROVE  Fits(Multiples, n)
BY TicksFacts DEF Fits

LEMMA FitsRange ==
    ASSUME NEW n \in 0 .. TickMod - 1
    PROVE  Fits({0}, n)
<1>1. Ticks(n) = n BY NoWrap
<1>2. n - n = 0 BY TimerAssumption
<1> QED BY <1>1, <1>2 DEF Fits

\* The time of two successive timers.
LEMMA PairFits ==
    ASSUME NEW Z \in Scale, NEW s, Len(s) \in Nat, \A k \in 1 .. Len(s) : s[k].entry \in Entry,
           NEW start \in Int, NEW d \in [Entry -> Int], Kept(Z, s, start, d), Room(Z, s, start, d),
           NEW k \in 1 .. Len(s) - 1
    PROVE  Fits(Z, s[k + 1].timeoutInMs + s[k].timeoutInMs)
<1> DEFINE m == s[k + 1].timeoutInMs
           n == s[k].timeoutInMs
           a == Base(s, start, d, k - 1)
           b == Base(s, start, d, k)
           c == Base(s, start, d, k + 1)
<1>1. k \in 1 .. Len(s) /\ k + 1 \in 1 .. Len(s) /\ (k + 1) - 1 = k OBVIOUS
<1>2. m \in Nat /\ n \in Nat /\ c - (b + m) \in Z /\ b - (a + n) \in Z BY <1>1 DEF Kept
<1>3. CASE Z = Multiples
  <2>1. m + n \in Int BY <1>2
  <2> QED BY <1>3, <2>1, FitsMultiples
<1>4. CASE Z = {0} /\ Z # Multiples
  <2>1. \A i \in 1 .. Len(s) : d[s[i].entry] - start \in 0 .. TickMod - 1 /\ d[s[i].entry] \in Int
    BY <1>4 DEF Room, Listed
  <2>2. TickMod \in Nat \ {0} BY TimerAssumption
  <2>3. c - start \in 0 .. TickMod - 1 /\ c \in Int /\ b \in Int
    <3>1. k + 1 # 0 /\ k # 0 OBVIOUS
    <3> QED BY <1>1, <2>1, <3>1 DEF Base
  <2>4. a \in Int /\ a - start >= 0
    <3>1. CASE k - 1 = 0 BY <3>1 DEF Base
    <3>2. CASE k - 1 # 0
      <4>1. k - 1 \in 1 .. Len(s) BY <3>2
      <4>2. a = d[s[k - 1].entry] BY <3>2 DEF Base
      <4>3. d[s[k - 1].entry] - start \in 0 .. TickMod - 1 /\ d[s[k - 1].entry] \in Int BY <2>1, <4>1
      <4> QED BY <2>2, <4>2, <4>3
    <3> QED BY <3>1, <3>2
  <2>5. c - (b + m) = 0 /\ b - (a + n) = 0 BY <1>2, <1>4
  <2> HIDE DEF a, b, c, m, n
  <2>6. m + n \in 0 .. TickMod - 1 BY <1>2, <2>2, <2>3, <2>4, <2>5
  <2>7. Fits({0}, m + n) BY <2>6, FitsRange
  <2> QED BY <1>4, <2>7 DEF m, n
<1> QED BY <1>3, <1>4, ScaleCases

\* Kept depends on the deadlines of listed entries only.
LEMMA KeptFrame ==
    ASSUME NEW Z, NEW s, NEW start, NEW d, NEW g, Len(s) \in Nat,
           \A x \in Listed(s) : g[x] = d[x], Kept(Z, s, start, d)
    PROVE  Kept(Z, s, start, g)
<1>1. ASSUME NEW k \in 0 .. Len(s) PROVE Base(s, start, g, k) = Base(s, start, d, k)
  <2>1. CASE k = 0 BY <2>1 DEF Base
  <2>2. CASE k # 0
    <3>1. s[k].entry \in Listed(s) BY <2>2 DEF Listed
    <3> QED BY <2>2, <3>1 DEF Base
  <2> QED BY <2>1, <2>2
<1>2. ASSUME NEW k \in 1 .. Len(s)
      PROVE  /\ s[k].timeoutInMs \in Nat
             /\ Base(s, start, g, k) - (Base(s, start, g, k - 1) + s[k].timeoutInMs) \in Z
  <2>1. k \in 0 .. Len(s) /\ k - 1 \in 0 .. Len(s) OBVIOUS
  <2> QED BY <1>1, <2>1 DEF Kept
<1> QED BY <1>2 DEF Kept

\* A timer is deleted.
LEMMA KeptRemove ==
    ASSUME NEW Z \in Scale, NEW S, NEW s \in Seq(Timer(S)), DistinctTimers(s), NEW e,
           NEW start \in Int, NEW d \in [Entry -> Int], Kept(Z, s, start, d), Room(Z, s, start, d)
    PROVE  Kept(Z, Remove(s, e), start, d)
<1>1. Len(s) \in Nat /\ \A k \in 1 .. Len(s) : s[k].entry \in Entry
  <2>1. ASSUME NEW k \in 1 .. Len(s) PROVE s[k] \in Timer(S) BY ElementOfSeq
  <2> QED BY <2>1, LenProperties DEF Timer
<1>2. \/ e \notin Listed(s) /\ Remove(s, e) = s
      \/ \E k \in 1 .. Len(s) : s[k].entry = e /\ Left(s, Remove(s, e), k)
  <2>1. \E T : /\ S \subseteq T
               /\ Remove(s, e) \in Seq(Timer(T))
               /\ DistinctTimers(Remove(s, e))
               /\ Listed(Remove(s, e)) = Listed(s) \ {e}
               /\ \/ e \notin Listed(s) /\ Remove(s, e) = s
                  \/ \E k \in 1 .. Len(s) : s[k].entry = e /\ Left(s, Remove(s, e), k)
    BY RemoveProperties
  <2> QED BY <2>1
<1>3. ASSUME NEW k \in 1 .. Len(s), Left(s, Remove(s, e), k) PROVE Kept(Z, Remove(s, e), start, d)
  <2> PICK r : r = Remove(s, e) OBVIOUS
  <2>1. ASSUME k < Len(s) PROVE Fits(Z, s[k + 1].timeoutInMs + s[k].timeoutInMs)
    <3>1. k \in 1 .. Len(s) - 1 BY <1>1, <2>1
    <3> QED BY <1>1, <3>1, PairFits
  <2>2. Left(s, r, k) BY <1>3
  <2>3. Kept(Z, r, start, d) BY <1>1, <2>1, <2>2, KeptLeft
  <2> QED BY <2>3
<1> QED BY <1>2, <1>3

\* A timer that is due u ticks after the start time is set.
LEMMA KeptInsert ==
    ASSUME NEW Z \in Scale, NEW S, NEW s \in Seq(Timer(S)), DistinctTimers(s),
           NEW e \in Entry, e \notin Listed(s), NEW u \in Nat,
           NEW start \in Int, NEW d \in [Entry -> Int], Kept(Z, s, start, d), Room(Z, s, start, d),
           NEW g \in [Entry -> Int], \A x \in Listed(s) : g[x] = d[x], g[e] - (start + u) \in Z
    PROVE  Kept(Z, Insert(s, e, u), start, g)
<1>1. Len(s) \in Nat /\ \A k \in 1 .. Len(s) : s[k].entry \in Entry
  <2>1. ASSUME NEW k \in 1 .. Len(s) PROVE s[k] \in Timer(S) BY ElementOfSeq
  <2> QED BY <2>1, LenProperties DEF Timer
<1> DEFINE T == TimesTo(s)
           K == Passed(T, Len(s), u)
           n == u - T[K]
           r == Insert(s, e, u)
           B(k) == Base(s, start, d, k)
<1>2. Joined(s, r, K, [entry |-> e, timeoutInMs |-> n])
  <2>1. \E U : /\ S \subseteq U
               /\ Insert(s, e, u) \in Seq(Timer(U))
               /\ DistinctTimers(Insert(s, e, u))
               /\ Listed(Insert(s, e, u)) = Listed(s) \cup {e}
               /\ LET k == Passed(TimesTo(s), Len(s), u)
                  IN  Joined(s, Insert(s, e, u), k, [entry |-> e, timeoutInMs |-> u - TimesTo(s)[k]])
    BY InsertProperties, Zenon
  <2> QED BY <2>1
<1>3. \A k \in 0 .. Len(s) : T[k] \in Int /\ B(k) - (start + T[k]) \in Z BY <1>1, KeptTimes
<1>4. T[0] = 0 /\ \A k \in 1 .. Len(s) : T[k] = T[k - 1] + s[k].timeoutInMs BY <1>1, TimesToFacts
<1>9. \A k \in 0 .. Len(s) : B(k) \in Int BY <1>1, BaseType
<1> HIDE DEF T, r, B
<1>5. K \in 0 .. Len(s) /\ (\A j \in 1 .. K : T[j] <= u) /\ (K < Len(s) => T[K + 1] > u)
  <2>1. \A j \in 1 .. Len(s) : T[j] \in Int BY <1>3
  <2> QED BY <1>1, <2>1, PassedIs
<1> HIDE DEF K
<1>6. T[K] <= u
  <2>1. CASE K = 0 BY <1>4, <2>1
  <2>2. CASE K # 0
    <3>1. K \in 1 .. K BY <1>5, <2>2
    <3> QED BY <1>5, <3>1
  <2> QED BY <2>1, <2>2
<1>7. n \in Nat BY <1>3, <1>5, <1>6
<1>8. g[e] - (B(K) + n) \in Z
  <2> DEFINE b == B(K)
             t == T[K]
             f == g[e]
  <2>1. b \in Int /\ t \in Int /\ f \in Int /\ b - (start + t) \in Z /\ f - (start + u) \in Z
    BY <1>3, <1>5, <1>9
  <2> HIDE DEF b, t, f
  <2> DEFINE x == b - (start + t)
             y == f - (start + u)
  <2>2. y - x \in Z BY <2>1, ScaleClosed
  <2>3. y - x = f - (b + (u - t)) BY <2>1
  <2> QED BY <2>2, <2>3 DEF b, t, f
<1>10. ASSUME K < Len(s) PROVE Fits(Z, s[K + 1].timeoutInMs + (-n))
  <2>1. K + 1 \in 1 .. Len(s) /\ K + 1 \in 0 .. Len(s) /\ (K + 1) - 1 = K BY <1>5, <1>10
  <2> DEFINE m == s[K + 1].timeoutInMs
             t == T[K + 1]
  <2>2. m \in Nat BY <2>1 DEF Kept
  <2>3. t = T[K] + m /\ t \in Int /\ t > u BY <1>3, <1>4, <1>5, <1>10, <2>1
  <2> HIDE DEF m, t
  <2>4. m + (-n) = t - u BY <1>3, <1>5, <2>2, <2>3
  <2>5. CASE Z = Multiples
    <3>1. t - u \in Int BY <2>3
    <3>2. Fits(Multiples, t - u) BY <3>1, FitsMultiples
    <3> QED BY <2>4, <2>5, <3>2 DEF m
  <2>6. CASE Z = {0} /\ Z # Multiples
    <3>2. B(K + 1) - (start + t) = 0 BY <1>3, <2>1, <2>6 DEF t
    <3>3. B(K + 1) - start \in 0 .. TickMod - 1 /\ B(K + 1) \in Int
      <4>1. K + 1 # 0 /\ s[K + 1].entry \in Listed(s) BY <1>1, <2>1 DEF Listed
      <4>2. B(K + 1) = d[s[K + 1].entry] BY <4>1 DEF B, Base
      <4> QED BY <1>9, <2>1, <2>6, <4>1, <4>2 DEF Room
    <3>4. TickMod \in Nat \ {0} BY TimerAssumption
    <3>5. t - u \in 0 .. TickMod - 1 BY <2>3, <3>2, <3>3, <3>4
    <3>6. Fits({0}, t - u) BY <3>5, FitsRange
    <3> QED BY <2>4, <2>6, <3>6 DEF m
  <2> QED BY <2>5, <2>6, ScaleCases
<1> HIDE DEF n
<1>11. Kept(Z, r, start, g)
  BY <1>1, <1>2, <1>5, <1>7, <1>8, <1>10, KeptJoined DEF B
<1> QED BY <1>11 DEF r

-----------------------------------------------------------------------------
(* The free list.                                                          *)

LEMMA PushProperties ==
    ASSUME NEW f \in Seq(Entry), Distinct(f), NEW e \in Entry, e \notin Elements(f)
    PROVE  /\ <<e>> \o f \in Seq(Entry) /\ Len(<<e>> \o f) = Len(f) + 1
           /\ Distinct(<<e>> \o f) /\ Elements(<<e>> \o f) = Elements(f) \cup {e}
<1> DEFINE g == <<e>> \o f
<1>1. /\ Len(f) \in Nat /\ g \in Seq(Entry) /\ Len(g) = Len(f) + 1
      /\ g[1] = e /\ \A i \in 1 .. Len(f) : g[i + 1] = f[i]
  OBVIOUS
<1> HIDE DEF g
<1>2. \A i \in 1 .. Len(g) : i = 1 \/ (i - 1 \in 1 .. Len(f) /\ g[i] = f[i - 1])
  <2> SUFFICES ASSUME NEW i \in 1 .. Len(g), i # 1 PROVE i - 1 \in 1 .. Len(f) /\ g[i] = f[i - 1]
    OBVIOUS
  <2>1. i - 1 \in 1 .. Len(f) /\ (i - 1) + 1 = i BY <1>1
  <2> QED BY <1>1, <2>1
<1>3. Distinct(g)
  <2> SUFFICES ASSUME NEW i \in 1 .. Len(g), NEW j \in 1 .. Len(g), g[i] = g[j] PROVE i = j
    BY DEF Distinct
  <2>1. \A n \in 1 .. Len(f) : f[n] # e BY DEF Elements
  <2>2. i = 1 <=> j = 1 BY <1>1, <1>2, <2>1
  <2>3. CASE i # 1
    <3>1. i - 1 = j - 1 BY <1>2, <2>2, <2>3 DEF Distinct
    <3> QED BY <1>1, <3>1
  <2> QED BY <2>2, <2>3
<1>4. Elements(g) \subseteq Elements(f) \cup {e} BY <1>1, <1>2 DEF Elements
<1>5. Elements(f) \cup {e} \subseteq Elements(g)
  <2>1. e \in Elements(g) BY <1>1 DEF Elements
  <2>2. ASSUME NEW i \in 1 .. Len(f) PROVE f[i] \in Elements(g)
    <3>1. i + 1 \in 1 .. Len(g) BY <1>1
    <3> QED BY <1>1, <3>1 DEF Elements
  <2> QED BY <2>1, <2>2 DEF Elements
<1> QED BY <1>1, <1>3, <1>4, <1>5 DEF g

LEMMA PopProperties ==
    ASSUME NEW f \in Seq(Entry), Distinct(f), f # <<>>
    PROVE  /\ Tail(f) \in Seq(Entry) /\ Len(Tail(f)) = Len(f) - 1 /\ Len(f) \in Nat \ {0}
           /\ Head(f) \in Elements(f) /\ Head(f) \in Entry
           /\ Distinct(Tail(f)) /\ Elements(Tail(f)) = Elements(f) \ {Head(f)}
<1> DEFINE g == Tail(f)
<1>1. /\ Len(f) \in Nat \ {0} /\ g \in Seq(Entry) /\ Len(g) = Len(f) - 1
      /\ Head(f) = f[1] /\ f[1] \in Entry /\ \A i \in 1 .. Len(g) : g[i] = f[i + 1]
  OBVIOUS
<1> HIDE DEF g
<1>2. Distinct(g) BY <1>1 DEF Distinct
<1>3. Head(f) \in Elements(f) BY <1>1 DEF Elements
<1>4. ASSUME NEW i \in 1 .. Len(g) PROVE g[i] \in Elements(f) \ {Head(f)}
  <2>1. i + 1 \in 1 .. Len(f) /\ i + 1 # 1 /\ 1 \in 1 .. Len(f) BY <1>1
  <2> QED BY <1>1, <2>1 DEF Elements, Distinct
<1>5. ASSUME NEW i \in 1 .. Len(f), f[i] # Head(f) PROVE f[i] \in Elements(g)
  <2>1. i - 1 \in 1 .. Len(g) /\ (i - 1) + 1 = i BY <1>1, <1>5
  <2> QED BY <1>1, <2>1 DEF Elements
<1>6. Elements(g) = Elements(f) \ {Head(f)}
  <2>1. \A x \in Elements(f) : \E i \in 1 .. Len(f) : x = f[i] BY DEF Elements
  <2>2. \A x \in Elements(g) : \E i \in 1 .. Len(g) : x = g[i] BY DEF Elements
  <2> QED BY <1>4, <1>5, <2>1, <2>2
<1> QED BY <1>1, <1>2, <1>3, <1>6 DEF g

-----------------------------------------------------------------------------
(* The pool: m is the state of the module and h what the clients hold.     *)

Used(h) == {h[c] : c \in Client} \ {Null}

\* PoolOK, without cardinalities; and the entry that a client holds has the client for its argument.
Pool(m, h) ==
    /\ Len(m.freeList) = m.freeEntries
    /\ Distinct(m.freeList) /\ DistinctTimers(m.timerList)
    /\ Listed(m.timerList) \subseteq Used(h)
    /\ Elements(m.freeList) \cap Used(h) = {} /\ Elements(m.freeList) \cup Used(h) = Entry
    /\ \A c, d \in Client : h[c] = h[d] /\ h[c] # Null => c = d
    /\ \A c \in Client : h[c] # Null => m.arg[h[c]] = c

\* An entry goes back and its client forgets it.
LEMMA DeleteKeeps ==
    ASSUME NEW S, NEW m \in Module(S), NEW h \in Handles, NEW c \in Client, Pool(m, h)
    PROVE  LET n == DeleteEntry(m, h[c])
               g == [h EXCEPT ![c] = Null]
           IN  /\ \E T : n \in Module(T)
               /\ g \in Handles /\ Pool(n, g)
               /\ Listed(n.timerList) = Listed(m.timerList) \ {h[c]}
               /\ n.arg = m.arg
<1> DEFINE n == DeleteEntry(m, h[c])
           g == [h EXCEPT ![c] = Null]
<1>1. /\ m.timerList \in Seq(Timer(S)) /\ m.freeList \in Seq(Entry) /\ m.freeEntries \in Nat
      /\ m.startTimeInMs \in S /\ m.arg \in [Entry -> Client \cup {Null}]
  BY DEF Module
<1>2. g \in Handles /\ g[c] = Null /\ \A d \in Client \ {c} : g[d] = h[d] BY DEF Handles
<1>3. CASE h[c] = Null
  <2>1. n = m /\ g = h BY <1>3 DEF DeleteEntry, Handles
  <2>2. Null \notin Listed(m.timerList) BY DEF Pool, Used
  <2> QED BY <1>2, <1>3, <2>1, <2>2
<1>4. CASE h[c] # Null
  <2> DEFINE e == h[c]
  <2>1. e \in Entry /\ e \in Used(h) BY <1>4 DEF Handles, Used
  <2>2. PICK T : /\ S \subseteq T
                 /\ Remove(m.timerList, e) \in Seq(Timer(T))
                 /\ DistinctTimers(Remove(m.timerList, e))
                 /\ Listed(Remove(m.timerList, e)) = Listed(m.timerList) \ {e}
    <3> HIDE DEF e
    <3> QED BY <1>1, RemoveProperties DEF Pool
  <2>3. e \notin Elements(m.freeList) BY <2>1 DEF Pool
  <2>4. /\ <<e>> \o m.freeList \in Seq(Entry) /\ Len(<<e>> \o m.freeList) = Len(m.freeList) + 1
        /\ Distinct(<<e>> \o m.freeList) /\ Elements(<<e>> \o m.freeList) = Elements(m.freeList) \cup {e}
    <3> HIDE DEF e
    <3> QED BY <1>1, <2>1, <2>3, PushProperties DEF Pool
  <2>5. /\ n \in Module(T)
        /\ n.timerList = Remove(m.timerList, e) /\ n.freeList = <<e>> \o m.freeList
        /\ n.freeEntries = m.freeEntries + 1 /\ n.arg = m.arg
    <3> DEFINE r == Remove(m.timerList, e)
               f == <<e>> \o m.freeList
    <3>1. n = [m EXCEPT !.timerList = r, !.freeList = f, !.freeEntries = m.freeEntries + 1]
      BY <1>4 DEF DeleteEntry
    <3>2. /\ r \in Seq(Timer(T)) /\ f \in Seq(Entry) /\ m.startTimeInMs \in T
          /\ m.freeEntries + 1 \in Nat
      BY <1>1, <2>2, <2>4
    <3> HIDE DEF r, f, n
    <3>3. n \in Module(T) BY <1>1, <3>1, <3>2 DEF Module
    <3>4. n.timerList = r /\ n.freeList = f /\ n.freeEntries = m.freeEntries + 1 /\ n.arg = m.arg
      BY <3>1 DEF Module
    <3> QED BY <3>3, <3>4 DEF r, f
  <2>6. Used(g) = Used(h) \ {e}
    <3>1. \A d \in Client : h[d] = e => d = c BY <1>4 DEF Pool
    <3> QED BY <1>2, <3>1 DEF Used
  <2>7. Listed(n.timerList) = Listed(m.timerList) \ {e} BY <2>2, <2>5
  <2> HIDE DEF e, n, g
  <2>8. Pool(n, g)
    <3>1. Len(n.freeList) = n.freeEntries /\ Distinct(n.freeList) BY <2>4, <2>5 DEF Pool
    <3>2. DistinctTimers(n.timerList) BY <2>2, <2>5
    <3>3. Listed(n.timerList) \subseteq Used(g) BY <2>6, <2>7 DEF Pool
    <3>4. Elements(n.freeList) \cap Used(g) = {} BY <2>4, <2>5, <2>6 DEF Pool
    <3>5. Elements(n.freeList) \cup Used(g) = Entry BY <2>1, <2>4, <2>5, <2>6 DEF Pool
    <3>6. \A x, y \in Client : g[x] = g[y] /\ g[x] # Null => x = y BY <1>2 DEF Pool
    <3>7. \A x \in Client : g[x] # Null => n.arg[g[x]] = x BY <1>2, <2>5 DEF Pool
    <3> QED BY <3>1, <3>2, <3>3, <3>4, <3>5, <3>6, <3>7 DEF Pool
  <2> QED BY <1>2, <2>5, <2>7, <2>8 DEF n, g, e
<1> QED BY <1>3, <1>4

\* A client without a timer gets the first free entry.
LEMMA SetKeeps ==
    ASSUME NEW S, NEW m \in Module(S), NEW h \in Handles, NEW c \in Client, NEW t,
           Pool(m, h), h[c] = Null, m.freeList # <<>>
    PROVE  LET n == SetEntry(m, c, t)
               g == [h EXCEPT ![c] = Head(m.freeList)]
           IN  /\ \E T : n \in Module(T)
               /\ g \in Handles /\ Pool(n, g)
               /\ Listed(n.timerList) = Listed(m.timerList) \cup {Head(m.freeList)}
               /\ n.arg = [m.arg EXCEPT ![Head(m.freeList)] = c]
<1> DEFINE e == Head(m.freeList)
           n == SetEntry(m, c, t)
           g == [h EXCEPT ![c] = e]
           u == Ticks(elapsed + t)
           r == Insert(m.timerList, e, u)
           f == Tail(m.freeList)
<1>1. /\ m.timerList \in Seq(Timer(S)) /\ m.freeList \in Seq(Entry) /\ m.freeEntries \in Nat
      /\ m.startTimeInMs \in S /\ m.arg \in [Entry -> Client \cup {Null}]
  BY DEF Module
<1>2. /\ f \in Seq(Entry) /\ Len(f) = Len(m.freeList) - 1 /\ Len(m.freeList) \in Nat \ {0}
      /\ e \in Elements(m.freeList) /\ e \in Entry
      /\ Distinct(f) /\ Elements(f) = Elements(m.freeList) \ {e}
  BY <1>1, PopProperties DEF Pool
<1>3. n = [m EXCEPT !.freeList = f, !.freeEntries = m.freeEntries - 1, !.arg[e] = c, !.timerList = r]
  BY DEF SetEntry
<1> HIDE DEF e, f, u
<1>4. g \in Handles /\ g[c] = e /\ \A d \in Client \ {c} : g[d] = h[d] BY <1>2 DEF Handles
<1>5. e \notin Used(h) /\ e # Null BY <1>2, EntryFacts DEF Pool
<1>6. Used(g) = Used(h) \cup {e} BY <1>4, <1>5 DEF Used
<1>7. PICK T : /\ S \subseteq T /\ r \in Seq(Timer(T)) /\ DistinctTimers(r)
               /\ Listed(r) = Listed(m.timerList) \cup {e}
  <2>1. DistinctTimers(m.timerList) /\ e \notin Listed(m.timerList) BY <1>5 DEF Pool
  <2>2. /\ m.timerList \in Seq(Timer(S)) /\ e \in Entry BY <1>1, <1>2
  <2> DEFINE s == m.timerList
             k == Passed(TimesTo(s), Len(s), u)
  <2>3. \E T : /\ S \subseteq T
                /\ Insert(s, e, u) \in Seq(Timer(T))
                /\ DistinctTimers(Insert(s, e, u))
                /\ Listed(Insert(s, e, u)) = Listed(s) \cup {e}
                /\ Joined(s, Insert(s, e, u), k, [entry |-> e, timeoutInMs |-> u - TimesTo(s)[k]])
    <3>1. s \in Seq(Timer(S)) /\ DistinctTimers(s) /\ e \notin Listed(s) BY <2>1, <2>2
    <3> HIDE DEF s
    <3> QED BY <2>2, <3>1, InsertProperties, Zenon
  <2> QED BY <2>3
<1> HIDE DEF n, r
<1>8. m.freeEntries - 1 \in Nat /\ Len(f) = m.freeEntries - 1 BY <1>1, <1>2 DEF Pool
<1>9. n \in Module(T)
  <2>1. [m.arg EXCEPT ![e] = c] \in [Entry -> Client \cup {Null}] BY <1>1
  <2> QED BY <1>1, <1>2, <1>3, <1>7, <1>8, <2>1 DEF Module
<1>10. /\ n.timerList = r /\ n.freeList = f /\ n.freeEntries = m.freeEntries - 1
       /\ n.arg = [m.arg EXCEPT ![e] = c]
  BY <1>1, <1>3 DEF Module
<1> HIDE DEF g
<1>11. Pool(n, g)
  <2>1. Len(n.freeList) = n.freeEntries /\ Distinct(n.freeList) BY <1>2, <1>8, <1>10
  <2>2. DistinctTimers(n.timerList) BY <1>7, <1>10
  <2>3. Listed(n.timerList) \subseteq Used(g) BY <1>6, <1>7, <1>10 DEF Pool
  <2>4. Elements(n.freeList) \cap Used(g) = {} BY <1>2, <1>6, <1>10 DEF Pool
  <2>5. Elements(n.freeList) \cup Used(g) = Entry BY <1>2, <1>6, <1>10 DEF Pool
  <2>6. \A x \in Client : h[x] # e BY <1>5 DEF Used
  <2>7. \A x, y \in Client : g[x] = g[y] /\ g[x] # Null => x = y BY <1>4, <2>6 DEF Pool
  <2>8. \A x \in Client : g[x] # Null => n.arg[g[x]] = x
    <3>1. \A x \in Client \ {c} : g[x] # Null => m.arg[h[x]] = x /\ h[x] # e /\ h[x] \in Entry
      BY <1>4, <2>6 DEF Pool, Handles
    <3> QED BY <1>1, <1>2, <1>4, <1>10, <3>1
  <2> QED BY <2>1, <2>2, <2>3, <2>4, <2>5, <2>7, <2>8 DEF Pool
<1> QED BY <1>4, <1>7, <1>9, <1>10, <1>11 DEF n, g, e

-----------------------------------------------------------------------------
(* The invariant, up to a second free.                                     *)

\* The entry that timeru_process has taken may be deleted, and set again for another client,
\* before its event is posted; but it has been some client's.
Types ==
    /\ \E S : timeruInstance \in Module(S)
    /\ handle \in Handles
    /\ events \in Seq([timerHdl : Entry, client : Client])
    /\ taken # Null => taken \in Entry /\ timeruInstance.arg[taken] \in Client

Inv == Types /\ Pool(timeruInstance, handle)

\* What a call of a client keeps.
CallKeeps ==
    /\ \E S : timeruInstance' \in Module(S)
    /\ handle' \in Handles
    /\ Pool(timeruInstance', handle')
    /\ \A x \in Entry : timeruInstance.arg[x] \in Client => timeruInstance'.arg[x] \in Client

\* What the start of a timer adds to the timer list.
LEMMA SetLists ==
    ASSUME NEW S, NEW m \in Module(S), NEW h \in Handles, NEW c \in Client, NEW t,
           Pool(m, h), h[c] = Null, m.freeList # <<>>
    PROVE  Listed(SetEntry(m, c, t).timerList) = Listed(m.timerList) \cup {Head(m.freeList)}
<1> DEFINE n == SetEntry(m, c, t)
           g == [h EXCEPT ![c] = Head(m.freeList)]
<1>1. /\ \E T : n \in Module(T)
      /\ g \in Handles /\ Pool(n, g)
      /\ Listed(n.timerList) = Listed(m.timerList) \cup {Head(m.freeList)}
      /\ n.arg = [m.arg EXCEPT ![Head(m.freeList)] = c]
  BY SetKeeps
<1> QED BY <1>1

LEMMA DropHandleKeeps ==
    ASSUME Types, Pool(timeruInstance, handle), NEW c \in Client, DropHandle(c)
    PROVE  CallKeeps
<1>1. PICK S : timeruInstance \in Module(S) BY DEF Types
<1> DEFINE n == DeleteEntry(timeruInstance, handle[c])
           g == [handle EXCEPT ![c] = Null]
<1>2. timeruInstance' = n /\ handle' = g BY DEF DropHandle
<1>3. /\ \E T : n \in Module(T)
      /\ g \in Handles /\ Pool(n, g)
      /\ n.arg = timeruInstance.arg
  BY <1>1, DeleteKeeps DEF Types
<1> HIDE DEF n, g
<1> QED BY <1>2, <1>3 DEF CallKeeps

LEMMA StartTimerKeeps ==
    ASSUME Types, Pool(timeruInstance, handle), NEW c \in Client, StartTimer(c)
    PROVE  CallKeeps
<1>1. PICK S : timeruInstance \in Module(S) BY DEF Types
<1> DEFINE d == DeleteEntry(timeruInstance, handle[c])
           g == [handle EXCEPT ![c] = Null]
           e == IF d.freeList = <<>> THEN Null ELSE Head(d.freeList)
<1>2. /\ \E T : d \in Module(T)
      /\ g \in Handles /\ Pool(d, g)
      /\ d.arg = timeruInstance.arg
  BY <1>1, DeleteKeeps DEF Types
<1>3. PICK t : timeruInstance' = (IF e = Null THEN d ELSE SetEntry(d, c, t)) /\ handle' = [handle EXCEPT ![c] = e]
  BY DEF StartTimer
<1>4. g[c] = Null BY DEF Types, Handles
<1>5. [handle EXCEPT ![c] = e] = [g EXCEPT ![c] = e] BY DEF Types, Handles
<1>6. PICK T : d \in Module(T) BY <1>2
<1> HIDE DEF d, g
<1>7. CASE d.freeList = <<>>
  <2>1. timeruInstance' = d /\ handle' = g
    <3>1. [g EXCEPT ![c] = Null] = g BY <1>2, <1>4 DEF Handles
    <3> QED BY <1>3, <1>5, <1>7, <3>1
  <2> QED BY <1>2, <2>1 DEF CallKeeps
<1>8. CASE d.freeList # <<>>
  <2> DEFINE h == Head(d.freeList)
             n == SetEntry(d, c, t)
             k == [g EXCEPT ![c] = h]
  <2>1. /\ \E U : n \in Module(U)
        /\ k \in Handles /\ Pool(n, k)
        /\ n.arg = [d.arg EXCEPT ![h] = c]
    <3>1. Pool(d, g) /\ g \in Handles /\ g[c] = Null BY <1>2, <1>4
    <3> QED BY <1>6, <1>8, <3>1, SetKeeps
  <2>2. h \in Entry
    <3>1. d.freeList \in Seq(Entry) BY <1>6 DEF Module
    <3> QED BY <1>2, <1>8, <3>1, PopProperties DEF Pool
  <2>3. e = h /\ e # Null BY <1>8, <2>2, EntryFacts
  <2>4. timeruInstance' = n /\ handle' = k BY <1>3, <1>5, <2>3
  <2>5. d.arg \in [Entry -> Client \cup {Null}] BY <1>6 DEF Module
  <2> HIDE DEF n, k, h
  <2>6. \A x \in Entry : d.arg[x] \in Client => n.arg[x] \in Client BY <2>1, <2>5
  <2> QED BY <1>2, <2>1, <2>4, <2>6 DEF CallKeeps
<1> QED BY <1>7, <1>8

\* What the deletion of the timer of a client leaves.
LEMMA DeleteLists ==
    ASSUME Types, Pool(timeruInstance, handle), NEW c \in Client
    PROVE  LET n == DeleteEntry(timeruInstance, handle[c])
               g == [handle EXCEPT ![c] = Null]
           IN  /\ \E T : n \in Module(T)
               /\ g \in Handles /\ Pool(n, g)
               /\ Listed(n.timerList) = Listed(timeruInstance.timerList) \ {handle[c]}
<1>1. PICK S : timeruInstance \in Module(S) BY DEF Types
<1>2. handle \in Handles BY DEF Types
<1> QED BY <1>1, <1>2, DeleteKeeps

LEMMA CallInv ==
    ASSUME Inv, CallKeeps, taken' = taken, events' \in Seq([timerHdl : Entry, client : Client])
    PROVE  Inv'
BY DEF Inv, CallKeeps, Types

LEMMA TimerCalls ==
    ASSUME Inv, NEW c \in Client, timeru_modifyTimer(c) \/ timeru_deleteTimer(c)
    PROVE  Inv'
<1>1. CallKeeps
  <2>1. CASE timeru_modifyTimer(c) BY <2>1, StartTimerKeeps DEF Inv, timeru_modifyTimer
  <2>2. CASE timeru_deleteTimer(c) BY <2>2, DropHandleKeeps DEF Inv, timeru_deleteTimer
  <2> QED BY <2>1, <2>2
<1>2. taken' = taken /\ events' = events BY DEF timeru_modifyTimer, timeru_deleteTimer
<1>3. events \in Seq([timerHdl : Entry, client : Client]) BY DEF Inv, Types
<1> QED BY <1>1, <1>2, <1>3, CallInv

\* The handling of an event is a call of its client for its own timer, none, or a second free.
LEMMA EventEffect ==
    ASSUME Inv, ProcessEvent, "second free" \notin fault'
    PROVE  \E c \in Client : DropHandle(c) \/ StartTimer(c) \/ UNCHANGED <<timeruInstance, handle, due, fault>>
<1> DEFINE e == Head(events)
           c == e.client
<1>1. e \in [timerHdl : Entry, client : Client]
  <2>1. events \in Seq([timerHdl : Entry, client : Client]) BY DEF Inv, Types
  <2>2. events # <<>> BY DEF ProcessEvent
  <2>3. Head(events) \in [timerHdl : Entry, client : Client] BY <2>1, <2>2, HeadTailProperties, Zenon
  <2> QED BY <2>3
<1>2. CASE c \in SdoClient
  <2>1. SdoEvent(c, e.timerHdl) BY <1>2 DEF ProcessEvent
  <2>2. DropHandle(c) \/ StartTimer(c) BY <2>1 DEF SdoEvent
  <2> HIDE DEF e
  <2> QED BY <1>1, <2>2
<1>3. CASE c \notin SdoClient
  <2>1. OtherEvent(c) BY <1>3 DEF ProcessEvent
  <2> HIDE DEF e
  <2> QED BY <1>1, <2>1 DEF OtherEvent
<1> QED BY <1>2, <1>3

LEMMA EventCall ==
    ASSUME Inv, ProcessEvent, "second free" \notin fault'
    PROVE  Inv'
<1>1. events' \in Seq([timerHdl : Entry, client : Client])
  <2>1. events \in Seq([timerHdl : Entry, client : Client]) BY DEF Inv, Types
  <2>2. events # <<>> /\ events' = Tail(events) BY DEF ProcessEvent
  <2> QED BY <2>1, <2>2, HeadTailProperties
<1>2. taken' = taken BY DEF ProcessEvent
<1>3. CallKeeps
  <2>1. PICK c \in Client : DropHandle(c) \/ StartTimer(c) \/ UNCHANGED <<timeruInstance, handle, due, fault>>
    BY EventEffect
  <2>2. CASE UNCHANGED <<timeruInstance, handle, due, fault>>
    BY <2>2 DEF Inv, Types, CallKeeps
  <2> QED BY <2>1, <2>2, DropHandleKeeps, StartTimerKeeps DEF Inv
<1> QED BY <1>1, <1>2, <1>3, CallInv

LEMMA TakeInv ==
    ASSUME Inv, Take
    PROVE  Inv'
<1> DEFINE list == timeruInstance.timerList
           first == Head(list)
           e == first.entry
           t == Ticks(timeruInstance.startTimeInMs + first.timeoutInMs)
<1>1. PICK S : timeruInstance \in Module(S) BY DEF Inv, Types
<1>2. /\ list \in Seq(Timer(S)) /\ timeruInstance.freeList \in Seq(Entry)
      /\ timeruInstance.freeEntries \in Nat /\ timeruInstance.startTimeInMs \in S
      /\ timeruInstance.arg \in [Entry -> Client \cup {Null}] /\ list # <<>>
  BY <1>1 DEF Module, Take
<1>3. timeruInstance' = [timeruInstance EXCEPT !.timerList = Tail(list), !.startTimeInMs = t]
  BY DEF Take
<1>4. taken' = e /\ handle' = handle /\ events' = events
  BY DEF Take
<1>5. /\ Len(list) \in Nat \ {0} /\ first = list[1] /\ first \in Timer(S) /\ Tail(list) \in Seq(Timer(S))
      /\ Len(Tail(list)) = Len(list) - 1 /\ \A i \in 1 .. Len(Tail(list)) : Tail(list)[i] = list[i + 1]
  BY <1>2, HeadTailProperties
<1> HIDE DEF first, t, list
<1>6. e \in Listed(list) /\ e \in Entry
  <2>1. 1 \in 1 .. Len(list) BY <1>5
  <2> QED BY <1>5, <2>1 DEF Listed, Timer
<1>7. /\ DistinctTimers(Tail(list))
      /\ Listed(Tail(list)) \subseteq Listed(list) /\ e \notin Listed(Tail(list))
  <2>1. \A i, j \in 1 .. Len(list) : list[i].entry = list[j].entry => i = j
    BY DEF Inv, Pool, DistinctTimers, list
  <2>2. \A i \in 1 .. Len(Tail(list)) : i + 1 \in 1 .. Len(list) /\ i + 1 # 1 /\ Tail(list)[i] = list[i + 1]
    BY <1>5
  <2>3. 1 \in 1 .. Len(list) BY <1>5
  <2>4. DistinctTimers(Tail(list))
    <3> SUFFICES ASSUME NEW i \in 1 .. Len(Tail(list)), NEW j \in 1 .. Len(Tail(list)),
                        Tail(list)[i].entry = Tail(list)[j].entry
                 PROVE  i = j
      BY DEF DistinctTimers
    <3>1. i + 1 = j + 1 BY <2>1, <2>2
    <3> QED BY <3>1
  <2>5. \A i \in 1 .. Len(Tail(list)) : Tail(list)[i].entry # e
    BY <1>5, <2>1, <2>2, <2>3
  <2>6. \A i \in 1 .. Len(Tail(list)) : Tail(list)[i].entry \in Listed(list)
    BY <2>2 DEF Listed
  <2> QED BY <2>4, <2>5, <2>6 DEF Listed
<1>8. PICK c \in Client : handle[c] = e /\ timeruInstance.arg[e] = c
  BY <1>6 DEF Inv, Pool, Used, list
<1> DEFINE n == timeruInstance
<1>9. /\ n' \in Module(S \cup {t})
      /\ n'.timerList = Tail(list) /\ n'.freeList = n.freeList /\ n'.freeEntries = n.freeEntries /\ n'.arg = n.arg
  <2>1. Tail(list) \in Seq(Timer(S \cup {t}))
    <3>1. Timer(S) \subseteq Timer(S \cup {t}) BY TimerMonotonic
    <3> QED BY <1>5, <3>1, SeqMonotonic
  <2>2. t \in S \cup {t} OBVIOUS
  <2> DEFINE T == S \cup {t}
             r == Tail(list)
  <2> HIDE DEF T, r
  <2>3. /\ n' \in Module(T)
        /\ n'.timerList = r /\ n'.freeList = n.freeList /\ n'.freeEntries = n.freeEntries /\ n'.arg = n.arg
    BY <1>1, <1>2, <1>3, <2>1, <2>2 DEF Module, T, r
  <2> QED BY <2>3 DEF T, r
<1>10. Pool(n', handle')
  BY <1>4, <1>7, <1>9 DEF Inv, Pool, list
<1>11. Types' BY <1>4, <1>6, <1>8, <1>9 DEF Inv, Types
<1> QED BY <1>10, <1>11 DEF Inv

LEMMA PostInv ==
    ASSUME Inv, Post
    PROVE  Inv'
<1> DEFINE x == [timerHdl |-> taken, client |-> timeruInstance.arg[taken]]
<1>1. /\ taken # Null /\ taken' = Null /\ timeruInstance' = timeruInstance /\ handle' = handle
      /\ events' = IF Len(events) < MaxEvents THEN Append(events, x) ELSE events
  BY DEF Post
<1>2. x \in [timerHdl : Entry, client : Client] BY <1>1 DEF Inv, Types
<1> HIDE DEF x
<1>3. events' \in Seq([timerHdl : Entry, client : Client])
  <2>1. events \in Seq([timerHdl : Entry, client : Client]) BY DEF Inv, Types
  <2> QED BY <1>1, <1>2, <2>1, AppendProperties
<1> QED BY <1>1, <1>3 DEF Inv, Types

-----------------------------------------------------------------------------
(* The delta list keeps the deadlines, in every step.                      *)

\* Where the times of the list count from: the start time, but for whole tick periods.
Origin == now - elapsed

\* The delta list in a state.
Delta(Z) ==
    /\ timeruInstance.startTimeInMs \in Int /\ now \in Nat /\ due \in [Entry -> Int]
    /\ Kept(Z, timeruInstance.timerList, Origin, due)
    /\ Room(Z, timeruInstance.timerList, Origin, due)

LEMMA OriginFacts ==
    ASSUME NEW Z, Delta(Z)
    PROVE  /\ elapsed \in 0 .. TickMod - 1 /\ Origin \in Int /\ now \in Nat
           /\ elapsed - (now - timeruInstance.startTimeInMs) \in Multiples
<1>1. PICK start \in Int : start = timeruInstance.startTimeInMs BY DEF Delta
<1>2. PICK x \in Nat : x = now BY DEF Delta
<1>3. Ticks(x - start) \in 0 .. TickMod - 1 /\ Ticks(x - start) - (x - start) \in Multiples BY TicksFacts
<1>4. elapsed = Ticks(x - start) BY <1>1, <1>2 DEF elapsed
<1>5. elapsed \in 0 .. TickMod - 1 /\ elapsed - (x - start) \in Multiples BY <1>3, <1>4
<1>6. Origin \in Int BY <1>2, <1>5, TimerAssumption DEF Origin
<1> QED BY <1>1, <1>2, <1>5, <1>6

\* Calls take no time.
LEMMA OriginKept ==
    ASSUME timeruInstance'.startTimeInMs = timeruInstance.startTimeInMs, now' = now
    PROVE  elapsed' = elapsed /\ Origin' = Origin
<1>1. elapsed' = elapsed BY DEF elapsed
<1> QED BY <1>1 DEF Origin

\* The entries of a list.
LEMMA ListFacts ==
    ASSUME NEW S, NEW s \in Seq(Timer(S))
    PROVE  /\ Len(s) \in Nat /\ Listed(s) \subseteq Entry
           /\ \A k \in 1 .. Len(s) : s[k].entry \in Entry
<1>1. ASSUME NEW k \in 1 .. Len(s) PROVE s[k].entry \in Entry
  <2>1. s[k] \in Timer(S) BY ElementOfSeq
  <2> QED BY <2>1 DEF Timer
<1> QED BY <1>1, LenProperties DEF Listed

LEMMA DeleteDelta ==
    ASSUME NEW Z \in Scale, NEW S, NEW m \in Module(S), DistinctTimers(m.timerList),
           NEW d \in [Entry -> Int], NEW start \in Int,
           Kept(Z, m.timerList, start, d), Room(Z, m.timerList, start, d), NEW e
    PROVE  LET n == DeleteEntry(m, e)
           IN  n.startTimeInMs = m.startTimeInMs /\ Kept(Z, n.timerList, start, d)
<1>1. CASE e = Null BY <1>1 DEF DeleteEntry
<1>2. CASE e # Null
  <2> DEFINE n == DeleteEntry(m, e)
             r == Remove(m.timerList, e)
             f == <<e>> \o m.freeList
             k == m.freeEntries + 1
             s == m.timerList
  <2>1. n = [m EXCEPT !.timerList = r, !.freeList = f, !.freeEntries = k] BY <1>2 DEF DeleteEntry
  <2> HIDE DEF n, r, f, k
  <2>2. n.timerList = r /\ n.startTimeInMs = m.startTimeInMs BY <2>1 DEF Module
  <2>3. s \in Seq(Timer(S)) BY DEF Module
  <2>5. DistinctTimers(s) /\ Kept(Z, s, start, d) /\ Room(Z, s, start, d) OBVIOUS
  <2> HIDE DEF s
  <2>4. Kept(Z, Remove(s, e), start, d) BY <2>3, <2>5, KeptRemove
  <2> QED BY <2>2, <2>4 DEF n, r, s
<1> QED BY <1>1, <1>2

\* What a call for client c does to the delta list.
LEMMA DropHandleDelta ==
    ASSUME NEW Z \in Scale, Inv, Delta(Z), NEW c \in Client, DropHandle(c), now' = now
    PROVE  Delta(Z)'
<1>1. PICK S : timeruInstance \in Module(S) BY DEF Inv, Types
<1>2. PICK m : m = timeruInstance OBVIOUS
<1>3. PICK start \in Int : start = Origin BY OriginFacts
<1>4. PICK d \in [Entry -> Int] : d = due BY DEF Delta
<1>5. PICK g : g = [x \in Entry |-> IF x = handle[c] THEN 0 ELSE d[x]] OBVIOUS
<1>6. PICK n : n = DeleteEntry(m, handle[c]) OBVIOUS
<1>7. Kept(Z, m.timerList, start, d) /\ Room(Z, m.timerList, start, d)
  BY <1>2, <1>3, <1>4 DEF Delta
<1>8. DistinctTimers(m.timerList) /\ m \in Module(S) BY <1>1, <1>2 DEF Inv, Pool
<1>9. n.startTimeInMs = m.startTimeInMs /\ Kept(Z, n.timerList, start, d)
  BY <1>6, <1>7, <1>8, DeleteDelta
<1>10. Listed(n.timerList) = Listed(m.timerList) \ {handle[c]} /\ \E T : n \in Module(T)
  BY <1>2, <1>6, DeleteLists DEF Inv
<1>11. Listed(n.timerList) \subseteq Entry /\ Len(n.timerList) \in Nat
  <2>1. PICK T : n \in Module(T) BY <1>10
  <2>2. n.timerList \in Seq(Timer(T)) BY <2>1 DEF Module
  <2> QED BY <2>2, ListFacts
<1>12. g \in [Entry -> Int] /\ \A x \in Listed(n.timerList) : g[x] = d[x] BY <1>5, <1>10, <1>11
<1>13. Kept(Z, n.timerList, start, g) BY <1>9, <1>11, <1>12, KeptFrame
<1>14. Room(Z, n.timerList, start, g) BY <1>7, <1>10, <1>12 DEF Room
<1>15. timeruInstance' = n /\ due' = g BY <1>2, <1>4, <1>5, <1>6 DEF DropHandle
<1>16. Origin' = start /\ now' \in Nat BY <1>2, <1>3, <1>9, <1>15, OriginKept DEF Delta
<1>17. timeruInstance'.startTimeInMs \in Int BY <1>2, <1>9, <1>15 DEF Delta
<1> QED BY <1>12, <1>13, <1>14, <1>15, <1>16, <1>17 DEF Delta

\* The relative time of a new timer.
LEMMA NewTime ==
    ASSUME NEW Z \in Scale, Delta(Z), NEW t \in Timeout, Z # Multiples => elapsed + t < TickMod
    PROVE  LET u == Ticks(elapsed + t)
           IN  /\ u \in 0 .. TickMod - 1 /\ (now + t) - (Origin + u) \in Z
               /\ Z # Multiples => (now + t) - Origin \in 0 .. TickMod - 1
<1>1. t \in Nat /\ TickMod \in Nat \ {0} BY TimerAssumption
<1>2. PICK a \in 0 .. TickMod - 1 : a = elapsed BY OriginFacts
<1>3. PICK x \in Nat : x = now BY DEF Delta
<1>4. Origin = x - a BY <1>2, <1>3 DEF Origin
<1>5. PICK u : u = Ticks(a + t) OBVIOUS
<1>6. u \in 0 .. TickMod - 1 /\ u - (a + t) \in Multiples
  <2>1. a + t \in Int BY <1>1, <1>2
  <2> QED BY <1>5, <2>1, TicksFacts
<1>7. (x + t) - ((x - a) + u) \in Z
  <2> DEFINE q == u - (a + t)
  <2>1. (x + t) - ((x - a) + u) = 0 - q BY <1>1, <1>2, <1>3, <1>6
  <2>2. q \in Z
    <3>1. CASE Z = Multiples BY <1>6, <3>1
    <3>2. CASE Z = {0} /\ Z # Multiples
      <4>1. a + t \in 0 .. TickMod - 1 BY <1>1, <1>2, <3>2
      <4>2. u = a + t BY <1>5, <4>1, NoWrap
      <4>3. q = 0 BY <1>1, <1>2, <4>2
      <4> QED BY <3>2, <4>3
    <3> QED BY <3>1, <3>2, ScaleCases
  <2>3. 0 - q \in Z
    <3> HIDE DEF q
    <3> QED BY <2>2, ScaleClosed
  <2> QED BY <2>1, <2>3
<1>8. Z # Multiples => (x + t) - (x - a) \in 0 .. TickMod - 1 BY <1>1, <1>2, <1>3
<1> QED BY <1>2, <1>3, <1>4, <1>5, <1>6, <1>7, <1>8

LEMMA StartTimerDelta ==
    ASSUME NEW Z \in Scale, Z # Multiples => "wrap" \notin fault',
           Inv, Delta(Z), NEW c \in Client, StartTimer(c), now' = now
    PROVE  Delta(Z)'
<1>1. PICK S : timeruInstance \in Module(S) BY DEF Inv, Types
<1>2. PICK m : m = timeruInstance OBVIOUS
<1>3. PICK start \in Int : start = Origin BY OriginFacts
<1>4. PICK d \in [Entry -> Int] : d = due BY DEF Delta
<1>6. PICK n : n = DeleteEntry(m, handle[c]) OBVIOUS
<1>5. PICK e : e = IF n.freeList = <<>> THEN Null ELSE Head(n.freeList) OBVIOUS
<1>7. Kept(Z, m.timerList, start, d) /\ Room(Z, m.timerList, start, d)
  BY <1>2, <1>3, <1>4 DEF Delta
<1>8. DistinctTimers(m.timerList) /\ m \in Module(S) BY <1>1, <1>2 DEF Inv, Pool
<1>9. n.startTimeInMs = m.startTimeInMs /\ Kept(Z, n.timerList, start, d)
  BY <1>6, <1>7, <1>8, DeleteDelta
<1>10. PICK T, h : /\ n \in Module(T) /\ h \in Handles /\ Pool(n, h)
                   /\ Listed(n.timerList) = Listed(m.timerList) \ {handle[c]}
  BY <1>2, <1>6, DeleteLists DEF Inv
<1> DEFINE s == n.timerList
<1>11. s \in Seq(Timer(T)) /\ Len(s) \in Nat /\ Listed(s) \subseteq Entry
  <2>2. s \in Seq(Timer(T)) BY <1>10 DEF Module
  <2> HIDE DEF s
  <2> QED BY <2>2, ListFacts
<1>12. Listed(s) \subseteq Entry /\ handle[c] \notin Listed(s) BY <1>10, <1>11
<1>13. PICK t \in Timeout :
         /\ timeruInstance' = IF e = Null THEN n ELSE SetEntry(n, c, t)
         /\ due' = [x \in Entry |-> IF x = e THEN now + t ELSE IF x = handle[c] THEN 0 ELSE d[x]]
         /\ e # Null /\ elapsed + t >= TickMod => "wrap" \in fault'
  BY <1>2, <1>4, <1>5, <1>6 DEF StartTimer
<1>14. PICK g : g = [x \in Entry |-> IF x = e THEN now + t ELSE IF x = handle[c] THEN 0 ELSE d[x]]
  OBVIOUS
<1>15. now \in Nat /\ t \in Nat /\ TickMod \in Nat \ {0} /\ elapsed \in 0 .. TickMod - 1
       /\ m.startTimeInMs \in Int
  BY <1>2, OriginFacts, TimerAssumption DEF Delta
<1>16. g \in [Entry -> Int] BY <1>14, <1>15
<1>19. Room(Z, s, start, d) BY <1>7, <1>10 DEF Room
<1>17. CASE n.freeList = <<>>
  <2>1. e = Null /\ timeruInstance' = n BY <1>5, <1>13, <1>17
  <2>2. \A x \in Listed(s) : g[x] = d[x] BY <1>12, <1>14, <2>1, EntryFacts
  <2>3. Kept(Z, s, start, g) BY <1>9, <1>11, <2>2, KeptFrame
  <2>4. Room(Z, s, start, g) BY <1>19, <2>2 DEF Room
  <2>5. Origin' = start BY <1>2, <1>3, <1>9, <2>1, OriginKept
  <2> QED BY <1>9, <1>13, <1>14, <1>15, <1>16, <2>1, <2>3, <2>4, <2>5 DEF Delta
<1>18. CASE n.freeList # <<>>
  <2>1. e = Head(n.freeList) /\ e \in Elements(n.freeList) /\ e \in Entry
    <3>1. n.freeList \in Seq(Entry) /\ Distinct(n.freeList) BY <1>10 DEF Module, Pool
    <3> QED BY <1>5, <1>18, <3>1, PopProperties
  <2>2. e \notin Listed(s) /\ e # Null BY <1>10, <2>1, EntryFacts DEF Pool
  <2>3. PICK u : u = Ticks(elapsed + t) OBVIOUS
  <2>11. Z # Multiples => elapsed + t < TickMod BY <1>13, <1>15, <2>2
  <2>4. /\ u \in 0 .. TickMod - 1 /\ (now + t) - (start + u) \in Z
        /\ Z # Multiples => (now + t) - start \in 0 .. TickMod - 1
    BY <1>3, <2>3, <2>11, NewTime
  <2>5. g[e] = now + t /\ \A x \in Listed(s) : g[x] = d[x] BY <1>12, <1>14, <2>1, <2>2
  <2>6. DistinctTimers(s) BY <1>10 DEF Pool
  <2> HIDE DEF s
  <2>7. Room(Z, s, start, d) /\ Kept(Z, s, start, d) BY <1>9, <1>19 DEF s
  <2>8. Kept(Z, Insert(s, e, u), start, g)
    <3>1. g[e] - (start + u) \in Z /\ u \in Nat
      <4>1. g[e] = now + t BY <2>5
      <4> QED BY <1>15, <2>4, <4>1
    <3> QED BY <1>11, <1>16, <2>1, <2>2, <2>5, <2>6, <2>7, <3>1, KeptInsert
  <2>12. Room(Z, Insert(s, e, u), start, g)
    <3>1. Listed(Insert(s, e, u)) = Listed(s) \cup {e}
      <4>1. \E U : /\ T \subseteq U
                   /\ Insert(s, e, u) \in Seq(Timer(U))
                   /\ DistinctTimers(Insert(s, e, u))
                   /\ Listed(Insert(s, e, u)) = Listed(s) \cup {e}
                   /\ LET k == Passed(TimesTo(s), Len(s), u)
                      IN  Joined(s, Insert(s, e, u), k, [entry |-> e, timeoutInMs |-> u - TimesTo(s)[k]])
        BY <1>11, <2>1, <2>2, <2>6, InsertProperties, Zenon
      <4> QED BY <4>1
    <3> QED BY <2>4, <2>5, <2>7, <3>1 DEF Room
  <2>9. PICK k : k = timeruInstance' OBVIOUS
  <2>10. k.timerList = Insert(s, e, u) /\ k.startTimeInMs = m.startTimeInMs
    <3>1. k = SetEntry(n, c, t) BY <1>13, <2>2, <2>9
    <3> DEFINE a == Tail(n.freeList)
               b == n.freeEntries - 1
               r == Insert(s, e, u)
    <3>2. k = [n EXCEPT !.freeList = a, !.freeEntries = b, !.arg[e] = c, !.timerList = r]
      BY <2>1, <2>3, <3>1 DEF SetEntry, s
    <3> HIDE DEF a, b, r
    <3>3. k.timerList = r /\ k.startTimeInMs = n.startTimeInMs BY <1>10, <3>2 DEF Module
    <3> QED BY <1>9, <3>3 DEF r
  <2>13. Origin' = start BY <1>2, <1>3, <2>9, <2>10, OriginKept
  <2> QED BY <1>13, <1>14, <1>15, <1>16, <2>8, <2>9, <2>10, <2>12, <2>13 DEF Delta
<1> QED BY <1>17, <1>18

\* The first timer and its place in time.
LEMMA FirstTimer ==
    ASSUME NEW Z \in Scale, Inv, Delta(Z), Take
    PROVE  LET first == Head(timeruInstance.timerList)
           IN  /\ first.entry \in Entry /\ first.timeoutInMs \in Nat
               /\ due[first.entry] - (Origin + first.timeoutInMs) \in Z
               /\ first.timeoutInMs <= elapsed
<1>1. PICK S : timeruInstance \in Module(S) BY DEF Inv, Types
<1>2. PICK s : s = timeruInstance.timerList OBVIOUS
<1>3. PICK start \in Int : start = Origin BY OriginFacts
<1>4. PICK d : d = due OBVIOUS
<1>5. s \in Seq(Timer(S)) /\ s # <<>> /\ Head(s) = s[1] /\ Len(s) \in Nat \ {0}
  <2>1. s \in Seq(Timer(S)) /\ s # <<>> BY <1>1, <1>2 DEF Module, Take
  <2> QED BY <2>1
<1>6. s[1].entry \in Entry
  <2>1. 1 \in 1 .. Len(s) BY <1>5
  <2> QED BY <1>5, <2>1, ListFacts
<1>7. Kept(Z, s, start, d) BY <1>2, <1>3, <1>4 DEF Delta
<1>8. s[1].timeoutInMs \in Nat /\ d[s[1].entry] - (start + s[1].timeoutInMs) \in Z
  <2>1. 1 \in 1 .. Len(s) /\ 1 # 0 /\ 1 - 1 = 0 BY <1>5
  <2> QED BY <1>7, <2>1 DEF Kept, Base
<1>9. s[1].timeoutInMs <= elapsed
  <2>1. IsDue(Head(s)) BY <1>2 DEF Take
  <2>2. elapsed \in Int BY OriginFacts, TimerAssumption
  <2> QED BY <1>5, <1>8, <2>1, <2>2 DEF IsDue
<1> QED BY <1>2, <1>3, <1>4, <1>5, <1>6, <1>8, <1>9

LEMMA TakeDelta ==
    ASSUME NEW Z \in Scale, Inv, Delta(Z), Take
    PROVE  Delta(Z)'
<1>1. PICK S : timeruInstance \in Module(S) BY DEF Inv, Types
<1>2. PICK s : s = timeruInstance.timerList OBVIOUS
<1>3. PICK start \in Int : start = timeruInstance.startTimeInMs BY DEF Delta
<1>4. PICK d \in [Entry -> Int] : d = due BY DEF Delta
<1>5. /\ s \in Seq(Timer(S)) /\ s # <<>> /\ Head(s) = s[1] /\ Len(s) \in Nat \ {0}
      /\ Len(Tail(s)) = Len(s) - 1 /\ \A k \in 1 .. Len(Tail(s)) : Tail(s)[k] = s[k + 1]
  <2>1. s \in Seq(Timer(S)) /\ s # <<>> BY <1>1, <1>2 DEF Module, Take
  <2> QED BY <2>1, HeadTailProperties
<1>6. \A k \in 1 .. Len(s) : s[k].entry \in Entry BY <1>5, ListFacts
<1>7. PICK o \in Int : o = Origin BY OriginFacts
<1>8. PICK m \in Nat : m = s[1].timeoutInMs BY <1>2, <1>5, FirstTimer
<1>9. m <= elapsed /\ d[s[1].entry] - (o + m) \in Z BY <1>2, <1>4, <1>5, <1>7, <1>8, FirstTimer
<1>10. PICK t : t = Ticks(start + m) OBVIOUS
<1>11. t \in Int /\ t - (start + m) \in Multiples
  <2>1. start + m \in Int OBVIOUS
  <2>2. t \in 0 .. TickMod - 1 /\ t - (start + m) \in Multiples BY <1>10, <2>1, TicksFacts
  <2> QED BY <2>2, TimerAssumption
<1>12. timeruInstance'.timerList = Tail(s) /\ timeruInstance'.startTimeInMs = t
  <2> PICK n, r : n = timeruInstance /\ r = Tail(s) OBVIOUS
  <2>1. timeruInstance' = [n EXCEPT !.timerList = r, !.startTimeInMs = t]
    BY <1>2, <1>3, <1>5, <1>8, <1>10 DEF Take
  <2>2. n \in Module(S) BY <1>1
  <2>3. [n EXCEPT !.timerList = r, !.startTimeInMs = t].timerList = r BY <2>2 DEF Module
  <2>4. [n EXCEPT !.timerList = r, !.startTimeInMs = t].startTimeInMs = t BY <2>2 DEF Module
  <2> QED BY <2>1, <2>3, <2>4
<1>13. now' = now BY DEF Take
<1>14. elapsed' = elapsed - m
  <2>1. PICK x \in Nat : x = now BY DEF Delta
  <2>2. PICK a \in 0 .. TickMod - 1 : a = elapsed /\ a - (x - start) \in Multiples BY <1>3, <2>1, OriginFacts
  <2>3. TickMod \in Nat \ {0} BY TimerAssumption
  <2>4. elapsed' = Ticks(x - t) BY <1>12, <1>13, <2>1 DEF elapsed
  <2> DEFINE p == a - (x - start)
             q == t - (start + m)
  <2>5. (0 - p) - q \in Multiples BY <1>11, <2>2, MultiplesClosed
  <2>6. (0 - p) - q = (x - t) - (a - m) BY <1>11, <2>2
  <2>7. Ticks(x - t) = Ticks(a - m)
    <3>1. x - t \in Int /\ a - m \in Int BY <1>11, <2>2
    <3> QED BY <2>5, <2>6, <3>1, SameTicks
  <2>8. a - m \in 0 .. TickMod - 1 BY <1>9, <2>2, <2>3
  <2>9. Ticks(a - m) = a - m BY <2>8, NoWrap
  <2> QED BY <2>2, <2>4, <2>7, <2>9
<1>15. Origin' = o + m
  <2>1. now \in Int /\ elapsed \in Int BY OriginFacts, TimerAssumption
  <2>2. o = now - elapsed BY <1>7 DEF Origin
  <2>3. Origin' = now - (elapsed - m) BY <1>13, <1>14 DEF Origin
  <2> QED BY <2>1, <2>2, <2>3
<1>16. PICK r : r = Tail(s) OBVIOUS
<1>17. Len(r) = Len(s) - 1 /\ \A k \in 1 .. Len(r) : r[k] = s[k + 1] BY <1>5, <1>16
<1>18. Kept(Z, s, o, d) /\ Room(Z, s, o, d) BY <1>2, <1>4, <1>7 DEF Delta
<1>19. Kept(Z, r, o + m, d)
  <2>1. (o + m) - (o + s[1].timeoutInMs) \in Z
    <3>1. (o + m) - (o + m) = 0 OBVIOUS
    <3> QED BY <1>8, <3>1, ScaleClosed
  <2>2. PICK q \in Int : q = o + m OBVIOUS
  <2>3. q - (o + s[1].timeoutInMs) \in Z BY <2>1, <2>2
  <2>4. Len(s) \in Nat \ {0} BY <1>5
  <2>5. Kept(Z, s, o, d) BY <1>18
  <2>6. Kept(Z, r, q, d) BY <1>6, <1>17, <2>3, <2>4, <2>5, KeptTail
  <2> QED BY <2>2, <2>6
<1>20. PICK g \in [Entry -> Int] : g = due' /\ g = [d EXCEPT ![s[1].entry] = 0]
  <2>1. due' = [due EXCEPT ![Head(timeruInstance.timerList).entry] = 0] BY DEF Take
  <2>2. Head(timeruInstance.timerList) = s[1] BY <1>2, <1>5
  <2>3. due' = [d EXCEPT ![s[1].entry] = 0] BY <1>4, <2>1, <2>2
  <2>4. PICK x : x = s[1].entry OBVIOUS
  <2>5. [d EXCEPT ![x] = 0] \in [Entry -> Int]
    <3>1. 0 \in Int OBVIOUS
    <3> QED BY <3>1, Zenon
  <2> QED BY <2>3, <2>4, <2>5
<1>21. \A x \in Listed(r) : x \in Listed(s) /\ x # s[1].entry /\ x \in Entry
  <2>1. \A i, j \in 1 .. Len(s) : s[i].entry = s[j].entry => i = j
    BY <1>2 DEF Inv, Pool, DistinctTimers
  <2>2. ASSUME NEW k \in 1 .. Len(r)
        PROVE  r[k].entry \in Listed(s) /\ r[k].entry # s[1].entry /\ r[k].entry \in Entry
    <3>1. k + 1 \in 1 .. Len(s) /\ k + 1 # 1 /\ 1 \in 1 .. Len(s) BY <1>5, <1>17
    <3>2. r[k] = s[k + 1] BY <1>17
    <3> QED BY <1>6, <2>1, <3>1, <3>2 DEF Listed
  <2> QED BY <2>2 DEF Listed
<1>22. \A x \in Listed(r) : g[x] = d[x] BY <1>20, <1>21
<1>23. Kept(Z, r, o + m, g)
  <2>1. Len(r) \in Nat BY <1>5, <1>17
  <2> QED BY <1>19, <1>22, <2>1, KeptFrame
<1>24. Room(Z, r, o + m, g)
  <2> SUFFICES ASSUME Z # Multiples, NEW x \in Listed(r) PROVE d[x] - (o + m) \in 0 .. TickMod - 1
    BY <1>22 DEF Room
  <2>1. Z = {0} BY ScaleCases
  <2>2. d[x] - o \in 0 .. TickMod - 1 /\ d[x] \in Int BY <1>18, <1>21 DEF Room
  <2>3. d[s[1].entry] - (o + m) = 0 /\ d[s[1].entry] \in Int
    <3>1. 1 \in 1 .. Len(s) BY <1>5
    <3> QED BY <1>6, <1>9, <2>1, <3>1
  <2>4. d[s[1].entry] <= d[x]
    <3>1. PICK k \in 1 .. Len(s) : x = s[k].entry BY <1>21 DEF Listed
    <3>2. Kept({0}, s, o, d) BY <1>18, <2>1
    <3>3. \A i \in 1 .. Len(s) : d[s[1].entry] <= d[s[i].entry] BY <1>5, <1>6, <3>2, KeptSorted
    <3> QED BY <3>1, <3>3
  <2> QED BY <2>2, <2>3, <2>4, TimerAssumption
<1> QED BY <1>11, <1>12, <1>13, <1>15, <1>16, <1>20, <1>23, <1>24 DEF Delta

\* Time passes: the elapsed time follows, unless it wraps.
LEMMA TickDelta ==
    ASSUME NEW Z \in Scale, Z # Multiples => "wrap" \notin fault', Inv, Delta(Z), Tick
    PROVE  Delta(Z)'
<1>1. /\ timeruInstance' = timeruInstance /\ due' = due /\ now' = now + 1
      /\ timeruInstance.timerList # <<>> /\ elapsed = TickMod - 1 => "wrap" \in fault'
  BY DEF Tick
<1>2. PICK s, d : s = timeruInstance.timerList /\ d = due OBVIOUS
<1>3. PICK start \in Int : start = timeruInstance.startTimeInMs BY DEF Delta
<1>4. PICK x \in Nat : x = now BY DEF Delta
<1>5. PICK a \in 0 .. TickMod - 1 : a = elapsed /\ a - (x - start) \in Multiples BY <1>3, <1>4, OriginFacts
<1>6. TickMod \in Nat \ {0} BY TimerAssumption
<1>7. PICK b : b = Ticks((x + 1) - start) OBVIOUS
<1>8. b \in 0 .. TickMod - 1 /\ b - ((x + 1) - start) \in Multiples
  <2>1. (x + 1) - start \in Int OBVIOUS
  <2> QED BY <1>7, <2>1, TicksFacts
<1>9. Origin = x - a /\ Origin' = (x + 1) - b
  <2>1. elapsed' = b BY <1>1, <1>3, <1>4, <1>7 DEF elapsed
  <2> QED BY <1>1, <1>4, <1>5, <2>1 DEF Origin
<1>10. ((x + 1) - b) - (x - a) \in Multiples
  <2> DEFINE p == a - (x - start)
             q == b - ((x + 1) - start)
  <2>1. p - q \in Multiples BY <1>5, <1>8, MultiplesClosed
  <2>2. p - q = ((x + 1) - b) - (x - a) BY <1>5, <1>8
  <2> QED BY <2>1, <2>2
<1>11. CASE s = <<>>
  <2>1. Len(s) = 0 /\ Listed(s) = {} BY <1>11 DEF Listed
  <2>2. 1 .. Len(s) = {} BY <2>1
  <2>3. Kept(Z, s, Origin', d) /\ Room(Z, s, Origin', d) BY <2>1, <2>2 DEF Kept, Room
  <2> QED BY <1>1, <1>2, <1>4, <2>3 DEF Delta
<1>12. CASE s # <<>>
  <2>1. ((x + 1) - b) - (x - a) \in Z /\ (Z # Multiples => (x + 1) - b = x - a)
    <3>1. CASE Z = Multiples BY <1>10, <3>1
    <3>2. CASE Z = {0} /\ Z # Multiples
      <4>1. a + 1 \in 0 .. TickMod - 1 BY <1>1, <1>2, <1>5, <1>6, <1>12, <3>2
      <4> DEFINE z == ((x + 1) - b) - (x - a)
      <4>2. z = (a + 1) - b BY <1>5, <1>8
      <4>3. z < TickMod /\ -z < TickMod BY <1>5, <1>6, <1>8, <4>1, <4>2
      <4>4. z = 0 BY <1>10, <4>3, MultiplesSpread
      <4>5. (x + 1) - b = x - a BY <1>5, <1>8, <4>4
      <4> QED BY <3>2, <4>4, <4>5
    <3> QED BY <3>1, <3>2, ScaleCases
  <2>2. x - a \in Int /\ (x + 1) - b \in Int BY <1>5, <1>8
  <2>3. Len(s) \in Nat /\ \A k \in 1 .. Len(s) : s[k].entry \in Entry
    <3>1. PICK S : s \in Seq(Timer(S)) BY <1>2 DEF Inv, Types, Module
    <3> QED BY <3>1, ListFacts
  <2>4. Kept(Z, s, x - a, d) /\ Room(Z, s, x - a, d) /\ d \in [Entry -> Int] BY <1>2, <1>9 DEF Delta
  <2>5. Kept(Z, s, (x + 1) - b, d)
    <3> PICK y, z : y = x - a /\ z = (x + 1) - b OBVIOUS
    <3>1. Kept(Z, s, z, d) BY <2>1, <2>2, <2>3, <2>4, KeptShift
    <3> QED BY <3>1
  <2>6. Room(Z, s, (x + 1) - b, d) BY <2>1, <2>4 DEF Room
  <2> QED BY <1>1, <1>2, <1>4, <1>9, <2>5, <2>6 DEF Delta
<1> QED BY <1>11, <1>12

LEMMA InitDelta == ASSUME NEW Z PROVE Init => Delta(Z)
<1> SUFFICES ASSUME Init PROVE Delta(Z)
  OBVIOUS
<1>1. timeruInstance.timerList = <<>> /\ timeruInstance.startTimeInMs = 0 BY DEF Init, timeru_addInstance
<1>2. now \in Nat /\ due = [e \in Entry |-> 0] BY TimerAssumption DEF Init
<1>3. Kept(Z, <<>>, Origin, due) BY DEF Kept
<1>4. Room(Z, <<>>, Origin, due) BY DEF Room, Listed
<1> QED BY <1>1, <1>2, <1>3, <1>4 DEF Delta

LEMMA NextDelta ==
    ASSUME NEW Z \in Scale, Z # Multiples => "wrap" \notin fault', "second free" \notin fault',
           Inv, Delta(Z), [Next]_vars
    PROVE  Delta(Z)'
<1>1. CASE UNCHANGED <<timeruInstance, now, due>>
  <2>1. Origin' = Origin BY <1>1, OriginKept
  <2> QED BY <1>1, <2>1 DEF Delta
<1>2. ASSUME NEW c \in Client, timeru_modifyTimer(c) \/ timeru_deleteTimer(c) PROVE Delta(Z)'
  BY <1>2, DropHandleDelta, StartTimerDelta DEF timeru_modifyTimer, timeru_deleteTimer
<1>3. CASE Take BY <1>3, TakeDelta
<1>4. CASE Post BY <1>1, <1>4 DEF Post
<1>5. CASE ProcessEvent
  <2>1. PICK c \in Client : DropHandle(c) \/ StartTimer(c) \/ UNCHANGED <<timeruInstance, handle, due, fault>>
    BY <1>5, EventEffect
  <2>2. now' = now BY <1>5 DEF ProcessEvent
  <2> QED BY <1>1, <2>1, <2>2, DropHandleDelta, StartTimerDelta
<1>6. CASE Tick BY <1>6, TickDelta
<1>7. CASE UNCHANGED vars BY <1>1, <1>7 DEF vars
<1> QED BY <1>2, <1>3, <1>4, <1>5, <1>6, <1>7 DEF Next, timeru_process

LEMMA DeltaDeadlines == Inv /\ Delta(Multiples) => DeadlinesKept
<1> SUFFICES ASSUME Inv, Delta(Multiples) PROVE DeadlinesKept
  OBVIOUS
<1>1. PICK S : timeruInstance \in Module(S) BY DEF Inv, Types
<1> DEFINE s == timeruInstance.timerList
           start == timeruInstance.startTimeInMs
           T == TimesTo(s)
<1>2. s \in Seq(Timer(S)) BY <1>1 DEF Module
<1>3. Len(s) \in Nat /\ \A k \in 1 .. Len(s) : s[k].entry \in Entry
  <2> HIDE DEF s
  <2> QED BY <1>2, ListFacts
<1>4. start \in Int /\ due \in [Entry -> Int] /\ Kept(Multiples, s, Origin, due) BY DEF Delta
<1>5. Multiples \in Scale BY DEF Scale
<1> HIDE DEF s, start, T
<1>8. PICK o \in Int : o = Origin BY OriginFacts
<1>9. o - start \in Multiples
  <2>1. /\ now \in Nat /\ elapsed \in Int /\ elapsed - (now - start) \in Multiples
    BY OriginFacts, TimerAssumption DEF start
  <2> DEFINE p == elapsed - (now - start)
  <2>2. 0 - p \in Multiples
    <3> HIDE DEF p
    <3> QED BY <2>1, MultiplesClosed DEF p
  <2>3. 0 - p = (now - elapsed) - start BY <1>4, <2>1
  <2> QED BY <1>8, <2>2, <2>3 DEF Origin
<1>6. \A k \in 0 .. Len(s) : T[k] \in Int /\ Base(s, o, due, k) - (o + T[k]) \in Multiples
  BY <1>3, <1>4, <1>5, <1>8, KeptTimes DEF T
<1>7. ASSUME NEW k \in 1 .. Len(s) PROVE Ticks(start + T[k]) = Ticks(due[s[k].entry])
  <2> DEFINE a == start + T[k]
             b == due[s[k].entry]
             t == T[k]
             u == b - (o + t)
             v == o - start
  <2>1. k \in 0 .. Len(s) /\ k # 0 OBVIOUS
  <2>2. t \in Int /\ b \in Int /\ u \in Multiples BY <1>3, <1>4, <1>6, <2>1 DEF Base
  <2>3. u + v \in Multiples
    <3> HIDE DEF u
    <3> QED BY <1>9, <2>2, MultiplesClosed
  <2> HIDE DEF b, t
  <2>4. u + v = b - (start + t) BY <1>4, <2>2
  <2>5. a \in Int /\ b \in Int /\ b - a \in Multiples BY <1>4, <2>2, <2>3, <2>4 DEF t
  <2> HIDE DEF a
  <2>6. Ticks(b) = Ticks(a) BY <2>5, SameTicks
  <2> QED BY <2>6 DEF a, b, t
<1> QED BY <1>7 DEF DeadlinesKept, s, start, T

-----------------------------------------------------------------------------
(* The timer service, as TimerSpec sees it.                                *)

\* What starting a timer changes: c's handle, which nobody else has, its deadline and the list.
LEMMA StartTimerIs ==
    ASSUME Types, Pool(timeruInstance, handle), NEW c \in Client, StartTimer(c)
    PROVE  \E t \in Timeout, e \in Entry \cup {Null} :
               /\ handle' = [handle EXCEPT ![c] = e]
               /\ due' = [x \in Entry |-> IF x = e THEN now + t ELSE IF x = handle[c] THEN 0 ELSE due[x]]
               /\ \A x \in Client \ {c} : handle[x] # e \/ e = Null
               /\ Listed(timeruInstance'.timerList) =
                      (Listed(timeruInstance.timerList) \ {handle[c]}) \cup ({e} \ {Null})
<1>1. PICK S : timeruInstance \in Module(S) BY DEF Types
<1>2. PICK d : d = DeleteEntry(timeruInstance, handle[c]) OBVIOUS
<1>3. PICK g : g = [handle EXCEPT ![c] = Null] OBVIOUS
<1>4. /\ \E T : d \in Module(T)
      /\ g \in Handles /\ Pool(d, g)
      /\ Listed(d.timerList) = Listed(timeruInstance.timerList) \ {handle[c]}
  BY <1>2, <1>3, DeleteLists
<1>5. PICK T : d \in Module(T) BY <1>4
<1>6. PICK e : e = IF d.freeList = <<>> THEN Null ELSE Head(d.freeList) OBVIOUS
<1>7. PICK t \in Timeout :
        /\ timeruInstance' = IF e = Null THEN d ELSE SetEntry(d, c, t)
        /\ handle' = [handle EXCEPT ![c] = e]
        /\ due' = [x \in Entry |-> IF x = e THEN now + t ELSE IF x = handle[c] THEN 0 ELSE due[x]]
  BY <1>2, <1>6 DEF StartTimer
<1>8. g[c] = Null /\ \A x \in Client \ {c} : g[x] = handle[x] BY <1>3 DEF Types, Handles
<1>9. CASE d.freeList = <<>>
  <2>1. e = Null /\ timeruInstance' = d BY <1>6, <1>7, <1>9
  <2> QED BY <1>4, <1>7, <2>1
<1>10. CASE d.freeList # <<>>
  <2>1. e = Head(d.freeList) /\ e \in Elements(d.freeList) /\ e \in Entry
    <3>1. d.freeList \in Seq(Entry) /\ Distinct(d.freeList) BY <1>4, <1>5 DEF Module, Pool
    <3> QED BY <1>6, <1>10, <3>1, PopProperties
  <2>2. e # Null BY <2>1, EntryFacts
  <2>3. Listed(timeruInstance'.timerList) = Listed(d.timerList) \cup {e}
    <3>1. timeruInstance' = SetEntry(d, c, t) BY <1>7, <2>2
    <3>2. Listed(SetEntry(d, c, t).timerList) = Listed(d.timerList) \cup {Head(d.freeList)}
      <4>1. Pool(d, g) /\ g \in Handles /\ g[c] = Null BY <1>4, <1>8
      <4> QED BY <1>5, <1>10, <4>1, SetLists
    <3> QED BY <2>1, <3>1, <3>2
  <2>4. \A x \in Client \ {c} : handle[x] # e
    <3>1. e \notin Used(g) BY <1>4, <2>1 DEF Pool
    <3>2. \A x \in Client : g[x] # e BY <2>2, <3>1 DEF Used
    <3> QED BY <1>8, <3>2
  <2>5. Listed(timeruInstance'.timerList) =
            (Listed(timeruInstance.timerList) \ {handle[c]}) \cup ({e} \ {Null})
    BY <1>4, <2>2, <2>3
  <2>6. e \in Entry \cup {Null} /\ \A x \in Client \ {c} : handle[x] # e \/ e = Null BY <2>1, <2>4
  <2> QED BY <1>7, <2>5, <2>6
<1> QED BY <1>9, <1>10

\* The abstract state that goes with a timer list, the handles and the deadlines.
ArmedIn(s, h, d) == [c \in Client |-> IF h[c] \in Listed(s) THEN {d[h[c]]} ELSE {}]
ExpiredIn(s, h) == {c \in Client : h[c] # Null /\ h[c] \notin Listed(s)}

LEMMA AbstractIs ==
    /\ armed = ArmedIn(timeruInstance.timerList, handle, due)
    /\ expired = ExpiredIn(timeruInstance.timerList, handle)
    /\ armed' = ArmedIn(timeruInstance'.timerList, handle', due')
    /\ expired' = ExpiredIn(timeruInstance'.timerList, handle')
<1>1. armed = ArmedIn(timeruInstance.timerList, handle, due) BY DEF armed, ArmedIn
<1>2. armed' = ArmedIn(timeruInstance'.timerList, handle', due') BY DEF armed, ArmedIn
<1>3. \A c \in Client : armed[c] = {} <=> handle[c] \notin Listed(timeruInstance.timerList)
  BY <1>1 DEF ArmedIn
<1>4. \A c \in Client : armed'[c] = {} <=> handle'[c] \notin Listed(timeruInstance'.timerList)
  BY <1>2 DEF ArmedIn
<1>5. expired = ExpiredIn(timeruInstance.timerList, handle) BY <1>3 DEF expired, ExpiredIn
<1>6. expired' = ExpiredIn(timeruInstance'.timerList, handle') BY <1>4 DEF expired, ExpiredIn
<1> QED BY <1>1, <1>2, <1>5, <1>6

\* A call gives client c the timer e, or none, for the one it had: s and d become r and g.
Given(c, e, h, s, d, r, g) ==
    /\ \A x, y \in Client : h[x] = h[y] /\ h[x] # Null => x = y
    /\ Null \notin Listed(s) /\ Listed(s) \subseteq Entry
    /\ \A x \in Client \ {c} : h[x] # e \/ e = Null
    /\ Listed(r) = (Listed(s) \ {h[c]}) \cup ({e} \ {Null})
    /\ \A x \in Entry \ {e, h[c]} : g[x] = d[x]

Rearmed(c, e, h, s, d, r, g) ==
    /\ ArmedIn(r, [h EXCEPT ![c] = e], g) =
          [ArmedIn(s, h, d) EXCEPT ![c] = IF e = Null THEN {} ELSE {g[e]}]
    /\ ExpiredIn(r, [h EXCEPT ![c] = e]) = ExpiredIn(s, h) \ {c}

\* It leaves the timers of the others alone.
LEMMA OthersKept ==
    ASSUME NEW c \in Client, NEW e \in Entry \cup {Null}, NEW h \in Handles,
           NEW s, NEW d, NEW r, NEW g, Given(c, e, h, s, d, r, g)
    PROVE  Rearmed(c, e, h, s, d, r, g)
<1> USE DEF Given
<1> DEFINE k == [h EXCEPT ![c] = e]
<1>1. k[c] = e /\ \A x \in Client \ {c} : k[x] = h[x] BY DEF Handles
<1> HIDE DEF k
<1>2. ASSUME NEW x \in Client \ {c}
      PROVE  /\ k[x] \in Listed(r) <=> h[x] \in Listed(s)
             /\ h[x] \in Listed(s) => g[k[x]] = d[h[x]]
  <2>1. h[x] # Null => h[x] # h[c] OBVIOUS
  <2>2. h[x] \in Listed(s) => h[x] # Null /\ h[x] # h[c] /\ h[x] # e BY <2>1
  <2> QED BY <1>1, <2>1, <2>2
<1>3. k[c] \in Listed(r) <=> e # Null BY <1>1
<1>4. ArmedIn(r, k, g) = [ArmedIn(s, h, d) EXCEPT ![c] = IF e = Null THEN {} ELSE {g[e]}]
  <2>1. ASSUME NEW x \in Client
        PROVE  (IF k[x] \in Listed(r) THEN {g[k[x]]} ELSE {}) =
                   IF x = c THEN (IF e = Null THEN {} ELSE {g[e]})
                   ELSE IF h[x] \in Listed(s) THEN {d[h[x]]} ELSE {}
    <3>1. CASE x = c BY <1>1, <1>3, <3>1
    <3>2. CASE x # c BY <1>2, <3>2
    <3> QED BY <3>1, <3>2
  <2> QED BY <2>1 DEF ArmedIn
<1>5. ExpiredIn(r, k) = ExpiredIn(s, h) \ {c}
  <2>1. ASSUME NEW x \in Client
        PROVE  (k[x] # Null /\ k[x] \notin Listed(r)) <=> (h[x] # Null /\ h[x] \notin Listed(s) /\ x # c)
    <3>1. CASE x = c BY <1>1, <1>3, <3>1
    <3>2. CASE x # c BY <1>1, <1>2, <3>2
    <3> QED BY <3>1, <3>2
  <2> QED BY <2>1 DEF ExpiredIn
<1> QED BY <1>4, <1>5 DEF k, Rearmed

LEMMA ListedEntries ==
    LET s == timeruInstance.timerList
    IN  Inv => Null \notin Listed(s) /\ Listed(s) \subseteq Entry
<1> DEFINE s == timeruInstance.timerList
<1> SUFFICES ASSUME Inv PROVE Listed(s) \subseteq Entry
  BY EntryFacts
<1>1. PICK S : s \in Seq(Timer(S)) BY DEF Inv, Types, Module
<1> HIDE DEF s
<1>2. ASSUME NEW k \in 1 .. Len(s) PROVE s[k].entry \in Entry
  <2>1. s[k] \in Timer(S) BY <1>1, ElementOfSeq
  <2> QED BY <2>1 DEF Timer
<1> QED BY <1>2 DEF Listed, s

LEMMA StartTimerAbstract ==
    ASSUME Inv, NEW c \in Client, StartTimer(c), now' = now
    PROVE  Promise!Arm(c) \/ Promise!Delete(c)
<1>1. PICK s, h, d : s = timeruInstance.timerList /\ h = handle /\ d = due OBVIOUS
<1>2. PICK r, k, g : r = timeruInstance'.timerList /\ k = handle' /\ g = due' OBVIOUS
<1>3. PICK t \in Timeout, e \in Entry \cup {Null} :
        /\ k = [h EXCEPT ![c] = e]
        /\ g = [x \in Entry |-> IF x = e THEN now + t ELSE IF x = h[c] THEN 0 ELSE d[x]]
        /\ \A x \in Client \ {c} : h[x] # e \/ e = Null
        /\ Listed(r) = (Listed(s) \ {h[c]}) \cup ({e} \ {Null})
  BY <1>1, <1>2, StartTimerIs DEF Inv
<1>4. h \in Handles /\ \A x, y \in Client : h[x] = h[y] /\ h[x] # Null => x = y
  BY <1>1 DEF Inv, Types, Pool
<1>5. Null \notin Listed(s) /\ Listed(s) \subseteq Entry BY <1>1, ListedEntries
<1>6. \A x \in Entry \ {e, h[c]} : g[x] = d[x] BY <1>3
<1>7. /\ ArmedIn(r, k, g) = [ArmedIn(s, h, d) EXCEPT ![c] = IF e = Null THEN {} ELSE {g[e]}]
      /\ ExpiredIn(r, k) = ExpiredIn(s, h) \ {c}
  <2>1. Rearmed(c, e, h, s, d, r, g)
    <3>1. Given(c, e, h, s, d, r, g) BY <1>3, <1>4, <1>5, <1>6 DEF Given
    <3> QED BY <1>4, <3>1, OthersKept
  <2> QED BY <1>3, <2>1 DEF Rearmed
<1>8. /\ armed' = [armed EXCEPT ![c] = IF e = Null THEN {} ELSE {g[e]}]
      /\ expired' = expired \ {c}
  BY <1>1, <1>2, <1>7, AbstractIs
<1>9. CASE e = Null BY <1>8, <1>9 DEF Promise!Delete
<1>10. CASE e # Null
  <2>1. g[e] = now + t BY <1>3, <1>10
  <2>2. armed' = [armed EXCEPT ![c] = {now + t}] BY <1>8, <1>10, <2>1
  <2> QED BY <1>8, <2>2 DEF Promise!Arm
<1> QED BY <1>9, <1>10

LEMMA DropHandleAbstract ==
    ASSUME Inv, NEW c \in Client, DropHandle(c), now' = now
    PROVE  Promise!Delete(c)
<1>1. PICK s, h, d : s = timeruInstance.timerList /\ h = handle /\ d = due OBVIOUS
<1>2. PICK r, k, g : r = timeruInstance'.timerList /\ k = handle' /\ g = due' OBVIOUS
<1>3. k = [h EXCEPT ![c] = Null] /\ g = [x \in Entry |-> IF x = h[c] THEN 0 ELSE d[x]]
  BY <1>1, <1>2 DEF DropHandle
<1>4. h \in Handles /\ \A x, y \in Client : h[x] = h[y] /\ h[x] # Null => x = y
  BY <1>1 DEF Inv, Types, Pool
<1>5. Null \notin Listed(s) /\ Listed(s) \subseteq Entry BY <1>1, ListedEntries
<1>6. \A x \in Entry \ {Null, h[c]} : g[x] = d[x] BY <1>3
<1>7. Listed(r) = (Listed(s) \ {h[c]}) \cup ({Null} \ {Null})
  <2>1. PICK S : timeruInstance \in Module(S) BY DEF Inv, Types
  <2>2. Listed(DeleteEntry(timeruInstance, handle[c]).timerList) = Listed(s) \ {h[c]}
    BY <1>1, DeleteLists DEF Inv
  <2>3. timeruInstance' = DeleteEntry(timeruInstance, handle[c]) BY DEF DropHandle
  <2> QED BY <1>2, <2>2, <2>3
<1>8. /\ ArmedIn(r, k, g) = [ArmedIn(s, h, d) EXCEPT ![c] = {}]
      /\ ExpiredIn(r, k) = ExpiredIn(s, h) \ {c}
  <2>1. Null \in Entry \cup {Null} /\ \A x \in Client \ {c} : h[x] # Null \/ Null = Null OBVIOUS
  <2>2. Rearmed(c, Null, h, s, d, r, g)
    <3>1. Given(c, Null, h, s, d, r, g) BY <1>4, <1>5, <1>6, <1>7, <2>1 DEF Given
    <3> QED BY <1>4, <2>1, <3>1, OthersKept
  <2> QED BY <1>3, <2>2 DEF Rearmed
<1> QED BY <1>1, <1>2, <1>8, AbstractIs DEF Promise!Delete

LEMMA TakeAbstract ==
    ASSUME Inv, Delta({0}), Take
    PROVE  \E c \in Client : Promise!Expire(c)
<1>1. PICK S : timeruInstance \in Module(S) BY DEF Inv, Types
<1>2. PICK s, h, d : s = timeruInstance.timerList /\ h = handle /\ d = due OBVIOUS
<1>3. PICK r, g : r = timeruInstance'.timerList /\ g = due' OBVIOUS
<1>4. /\ s \in Seq(Timer(S)) /\ s # <<>> /\ Head(s) = s[1] /\ Len(s) \in Nat \ {0}
      /\ Len(Tail(s)) = Len(s) - 1 /\ \A k \in 1 .. Len(Tail(s)) : Tail(s)[k] = s[k + 1]
  <2>1. s \in Seq(Timer(S)) /\ s # <<>> BY <1>1, <1>2 DEF Module, Take
  <2> QED BY <2>1, HeadTailProperties
<1>5. \A k \in 1 .. Len(s) : s[k].entry \in Entry
  <2>1. ASSUME NEW k \in 1 .. Len(s) PROVE s[k] \in Timer(S) BY <1>4, ElementOfSeq
  <2> QED BY <2>1 DEF Timer
<1>6. PICK e : e = s[1].entry OBVIOUS
<1>7. 1 \in 1 .. Len(s) /\ e \in Listed(s) BY <1>4, <1>6 DEF Listed
<1>8. r = Tail(s) /\ h = handle' /\ now' = now /\ g = [d EXCEPT ![e] = 0]
  BY <1>1, <1>2, <1>3, <1>4, <1>6 DEF Take, Module
<1>9. Listed(r) = Listed(s) \ {e}
  <2>1. \A i, j \in 1 .. Len(s) : s[i].entry = s[j].entry => i = j
    BY <1>2 DEF Inv, Pool, DistinctTimers
  <2>2. Len(r) = Len(s) - 1 /\ \A k \in 1 .. Len(r) : r[k] = s[k + 1] BY <1>4, <1>8
  <2>3. ASSUME NEW k \in 1 .. Len(r) PROVE r[k].entry \in Listed(s) \ {e}
    <3>1. k + 1 \in 1 .. Len(s) /\ k + 1 # 1 BY <1>4, <2>2
    <3>2. s[k + 1].entry # e BY <1>6, <1>7, <2>1, <3>1
    <3> QED BY <2>2, <3>1, <3>2 DEF Listed
  <2>4. ASSUME NEW k \in 1 .. Len(s), s[k].entry # e PROVE s[k].entry \in Listed(r)
    <3>1. k # 1 BY <1>6, <2>4
    <3>2. k - 1 \in 1 .. Len(r) /\ (k - 1) + 1 = k BY <1>4, <2>2, <3>1
    <3>3. r[k - 1] = s[k] BY <2>2, <3>2
    <3> QED BY <3>2, <3>3 DEF Listed
  <2> QED BY <2>3, <2>4 DEF Listed
<1>10. PICK c \in Client : h[c] = e /\ e # Null
  <2>1. e \in Used(h) BY <1>2, <1>7 DEF Inv, Pool
  <2> QED BY <2>1 DEF Used
<1>11. \A x \in Client \ {c} : h[x] # e BY <1>2, <1>10 DEF Inv, Pool
<1>12. /\ armed = ArmedIn(s, h, d) /\ expired = ExpiredIn(s, h)
       /\ armed' = ArmedIn(r, h, g) /\ expired' = ExpiredIn(r, h)
  BY <1>2, <1>3, <1>8, AbstractIs
<1>19. d \in [Entry -> Int] /\ \A x \in Entry \ {e} : g[x] = d[x]
  BY <1>2, <1>8 DEF Delta
<1>13. armed[c] = {d[e]} BY <1>7, <1>10, <1>12 DEF ArmedIn
<1>14. d[e] <= now
  <2>1. {0} \in Scale BY DEF Scale
  <2>2. PICK m : m = s[1].timeoutInMs OBVIOUS
  <2>3. m \in Nat /\ d[e] - (Origin + m) \in {0} /\ m <= elapsed
    BY <1>2, <1>4, <1>6, <2>1, <2>2, FirstTimer
  <2>4. PICK x \in Nat, a \in Int : x = now /\ a = elapsed BY OriginFacts, TimerAssumption
  <2>5. Origin = x - a BY <2>4 DEF Origin
  <2>6. d[e] \in Int BY <1>5, <1>6, <1>7, <1>19
  <2> QED BY <2>3, <2>4, <2>5, <2>6
<1>15. Promise!Earliest(d[e])
  <2>1. Origin \in Int /\ d \in [Entry -> Int] /\ Kept({0}, s, Origin, d)
    BY <1>2, OriginFacts DEF Delta
  <2>2. \A k \in 1 .. Len(s) : d[e] <= d[s[k].entry] BY <1>4, <1>5, <1>6, <2>1, KeptSorted
  <2>3. ASSUME NEW x \in Client, NEW other \in armed[x] PROVE d[e] <= other
    <3>1. h[x] \in Listed(s) /\ other = d[h[x]] BY <1>12 DEF ArmedIn
    <3>2. PICK k \in 1 .. Len(s) : h[x] = s[k].entry BY <3>1 DEF Listed
    <3> QED BY <2>2, <3>1, <3>2
  <2> QED BY <2>3 DEF Promise!Earliest
<1>16. armed' = [armed EXCEPT ![c] = {}]
  <2>1. \A x \in Client : h[x] \in Listed(r) <=> h[x] \in Listed(s) /\ x # c BY <1>9, <1>10, <1>11
  <2>2. \A x \in Listed(r) : g[x] = d[x]
    <3>1. Listed(s) \subseteq Entry BY <1>2, ListedEntries
    <3> QED BY <1>9, <1>19, <3>1
  <2>3. \A x \in Client : (IF h[x] \in Listed(r) THEN {g[h[x]]} ELSE {}) =
                             IF x = c THEN {} ELSE IF h[x] \in Listed(s) THEN {d[h[x]]} ELSE {}
    BY <2>1, <2>2
  <2> QED BY <1>12, <2>3 DEF ArmedIn
<1>17. expired' = expired \cup {c}
  <2>1. \A x \in Client : h[x] \in Listed(r) <=> h[x] \in Listed(s) /\ x # c BY <1>9, <1>10, <1>11
  <2> QED BY <1>10, <1>12, <2>1 DEF ExpiredIn
<1>18. Promise!Expire(c) BY <1>8, <1>13, <1>14, <1>15, <1>16, <1>17 DEF Promise!Expire
<1> QED BY <1>18

LEMMA NextAbstract ==
    ASSUME fault' = {}, Inv, Delta({0}), [Next]_vars
    PROVE  [Promise!Next]_(Promise!vars)
<1>0. "second free" \notin fault' OBVIOUS
<1>1. CASE UNCHANGED <<timeruInstance, handle, now, due>>
  <2>1. armed' = armed /\ expired' = expired BY <1>1, AbstractIs
  <2> QED BY <1>1, <2>1 DEF Promise!vars
<1>2. ASSUME NEW c \in Client, timeru_modifyTimer(c) \/ timeru_deleteTimer(c) PROVE Promise!Next
  BY <1>2, DropHandleAbstract, StartTimerAbstract
  DEF timeru_modifyTimer, timeru_deleteTimer, Promise!Next
<1>3. CASE Take BY <1>3, TakeAbstract DEF Promise!Next
<1>4. CASE Post BY <1>1, <1>4 DEF Post
<1>5. CASE ProcessEvent
  <2>1. PICK c \in Client : DropHandle(c) \/ StartTimer(c) \/ UNCHANGED <<timeruInstance, handle, due, fault>>
    BY <1>0, <1>5, EventEffect
  <2>2. now' = now BY <1>5 DEF ProcessEvent
  <2> QED BY <1>1, <2>1, <2>2, DropHandleAbstract, StartTimerAbstract DEF Promise!Next
<1>6. CASE Tick
  <2>1. armed' = armed /\ expired' = expired BY <1>6, AbstractIs DEF Tick
  <2> QED BY <1>6, <2>1 DEF Tick, Promise!Next, Promise!Tick
<1>7. CASE UNCHANGED vars BY <1>1, <1>7 DEF vars
<1> QED BY <1>2, <1>3, <1>4, <1>5, <1>6, <1>7 DEF Next, timeru_process

LEMMA InitAbstract == Init => Promise!Init
<1> SUFFICES ASSUME Init PROVE Promise!Init
  OBVIOUS
<1>1. timeruInstance.timerList = <<>> /\ handle = [c \in Client |-> Null] /\ now \in Nat
  BY TimerAssumption DEF Init, timeru_addInstance
<1>2. Listed(<<>>) = {} BY DEF Listed
<1>3. armed = [c \in Client |-> {}] BY <1>1, <1>2, AbstractIs DEF ArmedIn
<1>4. expired = {} BY <1>1, <1>2, AbstractIs DEF ExpiredIn
<1> QED BY <1>1, <1>3, <1>4 DEF Promise!Init

-----------------------------------------------------------------------------
(* Theorems.                                                               *)

LEMMA InitInv == Init => Inv
<1> SUFFICES ASSUME Init PROVE Inv
  OBVIOUS
<1> DEFINE f == [i \in 1 .. TIMERU_MAX_ENTRIES |-> i]
<1>1. /\ f \in Seq(Entry) /\ Len(f) = TIMERU_MAX_ENTRIES /\ Distinct(f) /\ Elements(f) = Entry
  <2>1. f \in [1 .. TIMERU_MAX_ENTRIES -> Entry] BY DEF Entry
  <2>2. f \in Seq(Entry) /\ Len(f) = TIMERU_MAX_ENTRIES BY <2>1, EntryFacts
  <2>3. \A i \in 1 .. TIMERU_MAX_ENTRIES : f[i] = i OBVIOUS
  <2> HIDE DEF f
  <2>4. Distinct(f) BY <2>2, <2>3 DEF Distinct
  <2>5. Elements(f) = Entry BY <2>2, <2>3 DEF Elements, Entry
  <2> QED BY <2>2, <2>4, <2>5
<1> DEFINE n == timeruInstance
           a == [e \in Entry |-> Null]
<1>2. n = [timerList |-> <<>>, freeList |-> f, freeEntries |-> TIMERU_MAX_ENTRIES, startTimeInMs |-> 0, arg |-> a]
  BY DEF Init, timeru_addInstance
<1>3. a \in [Entry -> Client \cup {Null}] OBVIOUS
<1> HIDE DEF f, a
<1>4. /\ n.timerList = <<>> /\ n.freeList = f /\ n.freeEntries = TIMERU_MAX_ENTRIES /\ n.arg = a
  BY <1>2
<1>5. n \in Module({0})
  <2>1. <<>> \in Seq(Timer({0})) /\ TIMERU_MAX_ENTRIES \in Nat BY EntryFacts
  <2> QED BY <1>1, <1>2, <1>3, <2>1 DEF Module
<1>6. handle = [c \in Client |-> Null] /\ events = <<>> /\ taken = Null BY DEF Init
<1>7. Types BY <1>5, <1>6 DEF Types, Handles
<1>8. Used(handle) = {} BY <1>6 DEF Used
<1>9. DistinctTimers(<<>>) /\ Listed(<<>>) = {} BY DEF DistinctTimers, Listed
<1>10. Pool(n, handle) BY <1>1, <1>4, <1>6, <1>8, <1>9 DEF Pool
<1> QED BY <1>7, <1>10 DEF Inv

LEMMA NextInv == "second free" \notin fault' /\ Inv /\ [Next]_vars => Inv'
<1> SUFFICES ASSUME "second free" \notin fault', Inv, [Next]_vars PROVE Inv'
  OBVIOUS
<1>1. ASSUME NEW c \in Client, timeru_modifyTimer(c) \/ timeru_deleteTimer(c) PROVE Inv'
  BY <1>1, TimerCalls
<1>2. CASE Take BY <1>2, TakeInv
<1>3. CASE Post BY <1>3, PostInv
<1>4. CASE ProcessEvent BY <1>4, EventCall
<1>5. CASE UNCHANGED <<timeruInstance, handle, taken, events>>
  BY <1>5 DEF Inv, Types
<1> QED BY <1>1, <1>2, <1>3, <1>4, <1>5 DEF Next, timeru_process, Tick, vars

\* What went wrong is not made good.
LEMMA FaultStays == [Next]_vars => fault \subseteq fault'
<1> SUFFICES ASSUME [Next]_vars PROVE fault \subseteq fault'
  OBVIOUS
<1>1. ASSUME NEW c \in Client, StartTimer(c) \/ DropHandle(c) PROVE fault \subseteq fault'
  BY <1>1 DEF StartTimer, DropHandle
<1>2. ASSUME NEW c \in Client, timeru_modifyTimer(c) \/ timeru_deleteTimer(c) PROVE fault \subseteq fault'
  BY <1>1, <1>2 DEF timeru_modifyTimer, timeru_deleteTimer
<1>3. CASE ProcessEvent
  BY <1>3 DEF ProcessEvent, SdoEvent, OtherEvent, DropHandle, StartTimer
<1>4. CASE Take \/ Post \/ Tick \/ UNCHANGED vars
  BY <1>4 DEF Take, Post, Tick, vars
<1> QED BY <1>2, <1>3, <1>4 DEF Next, timeru_process

\* As many different elements as places.
LEMMA DistinctCount ==
    ASSUME NEW n \in Nat, NEW f, f = [i \in 1 .. n |-> f[i]], \A i, j \in 1 .. n : f[i] = f[j] => i = j
    PROVE  Cardinality({f[i] : i \in 1 .. n}) = n
<1> DEFINE T == {f[i] : i \in 1 .. n}
<1>1. f \in [1 .. n -> T] OBVIOUS
<1>2. f \in Surjection(1 .. n, T) BY <1>1 DEF Surjection
<1>3. f \in Injection(1 .. n, T) BY <1>1 DEF Injection, IsInjective
<1>4. IsFiniteSet(1 .. n) /\ Cardinality(1 .. n) = n BY IntervalCount
<1> HIDE DEF T
<1>5. Cardinality(T) = Cardinality(1 .. n) BY <1>2, <1>3, <1>4, FS_Surjection
<1> QED BY <1>4, <1>5 DEF T

LEMMA InvPoolOK == Inv => PoolOK
<1> SUFFICES ASSUME Inv PROVE PoolOK
  OBVIOUS
<1> DEFINE free == timeruInstance.freeList
           list == timeruInstance.timerList
<1>1. PICK S : list \in Seq(Timer(S)) /\ free \in Seq(Entry) BY DEF Inv, Types, Module
<1>2. Distinct(free) /\ DistinctTimers(list) BY DEF Inv, Pool
<1> HIDE DEF free, list
<1>3. Len(free) \in Nat /\ Len(list) \in Nat BY <1>1
<1>4. Cardinality(Elements(free)) = Len(free)
  <2>1. free = [i \in 1 .. Len(free) |-> free[i]] BY <1>1
  <2> QED BY <1>2, <1>3, <2>1, DistinctCount DEF Distinct, Elements
<1>5. Cardinality(Listed(list)) = Len(list)
  <2> DEFINE g == [i \in 1 .. Len(list) |-> list[i].entry]
  <2>1. \A i \in 1 .. Len(list) : g[i] = list[i].entry OBVIOUS
  <2>2. g = [i \in 1 .. Len(list) |-> g[i]] OBVIOUS
  <2> HIDE DEF g
  <2>3. Cardinality({g[i] : i \in 1 .. Len(list)}) = Len(list)
    <3>1. \A i, j \in 1 .. Len(list) : g[i] = g[j] => i = j BY <1>2, <2>1 DEF DistinctTimers
    <3> QED BY <1>3, <2>2, <3>1, DistinctCount
  <2>4. {g[i] : i \in 1 .. Len(list)} = Listed(list) BY <2>1 DEF Listed
  <2> QED BY <2>3, <2>4
<1> QED BY <1>4, <1>5 DEF Inv, Pool, PoolOK, Used, free, list

\* The invariants of the theorems: up to a second free, and up to the first fault.
Sound == "second free" \in fault \/ (Inv /\ Delta(Multiples))
Exact == fault # {} \/ (Inv /\ Delta({0}))

LEMMA SoundKept == Spec => []Sound
<1>1. Init => Sound BY InitInv, InitDelta DEF Sound
<1>2. Sound /\ [Next]_vars => Sound'
  <2> SUFFICES ASSUME Sound, [Next]_vars, "second free" \notin fault' PROVE Inv' /\ Delta(Multiples)'
    BY DEF Sound
  <2>1. Inv /\ Delta(Multiples) BY FaultStays DEF Sound
  <2>2. Multiples \in Scale BY DEF Scale
  <2> QED BY <2>1, <2>2, NextInv, NextDelta
<1> QED BY <1>1, <1>2, PTL DEF Spec

LEMMA ExactKept == Spec => []Exact
<1>1. Init => Exact BY InitInv, InitDelta DEF Exact
<1>2. Exact /\ [Next]_vars => Exact'
  <2> SUFFICES ASSUME Exact, [Next]_vars, fault' = {} PROVE Inv' /\ Delta({0})'
    BY DEF Exact
  <2>1. Inv /\ Delta({0}) BY FaultStays DEF Exact
  <2>2. {0} \in Scale BY DEF Scale
  <2>3. "second free" \notin fault' /\ "wrap" \notin fault' OBVIOUS
  <2> QED BY <2>1, <2>2, <2>3, NextInv, NextDelta
<1> QED BY <1>1, <1>2, PTL DEF Spec

\* No entry of the pool leaks and none is shared (PoolOK), whatever the clients call, whenever
\* timeru_process runs and however the times wrap, up to the step at which an SDO connection frees
\* the entry of an outdated event again (sdoseq_processEvent).
THEOREM PoolCorrect == Spec => []PoolOK
<1>1. Sound => PoolOK BY InvPoolOK DEF Sound, PoolOK
<1> QED BY <1>1, SoundKept, PTL

\* Up to the same step the times between the timers of the list add up to the deadlines that their
\* owners asked for (DeadlinesKept), for any number of timers set, set again, deleted and expired
\* and however often the tick count wraps: every insertion and removal passes on what it takes away.
THEOREM DeadlinesCorrect == Spec => []DeadlinesKept
<1>1. Sound => DeadlinesKept BY DeltaDeadlines DEF Sound, DeadlinesKept
<1> QED BY <1>1, SoundKept, PTL

\* The module implements TimerSpec (ImplementsTimers): no timer expires early, twice, out of order
\* or after it was deleted, and no call for one client disturbs the timer of another, in every step
\* up to a second free, or to a time in the list that the tick count cuts: a tick period since the
\* last expiry timeru_setTimer wraps the relative time, and the timer expires at once.
THEOREM ImplementsTimersCorrect == Spec => ImplementsTimers
<1>1. Exact /\ [Next]_vars => [fault' # {} \/ Promise!Next]_(Promise!vars)
  <2> SUFFICES ASSUME Exact, [Next]_vars, fault' = {} PROVE [Promise!Next]_(Promise!vars)
    OBVIOUS
  <2>1. Inv /\ Delta({0}) BY FaultStays DEF Exact
  <2> QED BY <2>1, NextAbstract
<1> QED BY <1>1, ExactKept, InitAbstract, PTL DEF Spec, ImplementsTimers
=============================================================================

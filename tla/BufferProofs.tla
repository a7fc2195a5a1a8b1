---------------------------- MODULE BufferProofs ----------------------------
(***************************************************************************)
(* Proofs about the two kinds of buffers in shared memory, for every size: *)
(* the circular buffer (CircBuf) and the triple buffer of a PDO channel    *)
(* (PdoTripleBuf).                                                         *)
(*                                                                         *)
(* CircBuf is a FIFO because there is a Layout: the blocks of the messages *)
(* lie one behind the other from readOffset to writeOffset, and their      *)
(* sizes add up to what freeSize says is used.  A write copies its bytes   *)
(* behind the last block and touches no other one (Holds), a read takes    *)
(* the first block off.  The layout is known to exist, never which one it  *)
(* is: the invariant has no function that recurses over the buffer.        *)
(*                                                                         *)
(* The invariants of PdoTripleBuf are not inductive alone.  That PDOs are  *)
(* not torn needs that a buffer is complete when the producer gives it     *)
(* away (Complete).  That an exchange goes back by one PDO at most needs   *)
(* to know what can be in cleanBuf: what the consumer gave back last or    *)
(* something newer than what it has (CleanKnown), which follows because    *)
(* the producer writes PDOs in order (Ordered).                            *)
(***************************************************************************)
EXTENDS CircBuf, PdoTripleBuf, SequenceTheorems, WellFoundedInduction, TLAPS

-----------------------------------------------------------------------------
(* Arithmetic: offsets are multiples of the alignment and wrap once.        *)

Wrap(x) == IF x < bufferSize THEN x ELSE x - bufferSize
Whole(x) == \E k \in Nat : x = k * Alignment

LEMMA DivBounds ==
  ASSUME NEW a \in Nat \ {0}, NEW n \in Nat
  PROVE  n \div a \in Nat /\ a * (n \div a) <= n /\ n < a * (n \div a) + a
OBVIOUS

LEMMA AlignedBounds ==
  ASSUME NEW size \in Nat
  PROVE  /\ Aligned(size) \in Nat /\ Whole(Aligned(size))
         /\ size <= Aligned(size) /\ Aligned(size) < size + Alignment
<1> DEFINE q == (size + Alignment - 1) \div Alignment
<1>1. size + Alignment - 1 \in Nat /\ Alignment \in Nat \ {0}
  BY CircBufAssumption
<1>2. q \in Nat /\ Alignment * q <= size + Alignment - 1
      /\ size + Alignment - 1 < Alignment * q + Alignment
  BY <1>1, DivBounds
<1>3. Aligned(size) = q * Alignment
  BY DEF Aligned
<1> HIDE DEF q
<1>4. q * Alignment = Alignment * q /\ q * Alignment \in Nat
  BY <1>1, <1>2
<1> QED
  BY <1>1, <1>2, <1>3, <1>4 DEF Whole

LEMMA WholeSum ==
  ASSUME NEW x, NEW y, Whole(x), Whole(y)
  PROVE  Whole(x + y)
<1>1. PICK i \in Nat : x = i * Alignment
  BY DEF Whole
<1>2. PICK j \in Nat : y = j * Alignment
  BY DEF Whole
<1>3. x + y = (i + j) * Alignment /\ i + j \in Nat
  BY <1>1, <1>2, CircBufAssumption
<1> QED
  BY <1>3 DEF Whole

LEMMA WholeDifference ==
  ASSUME NEW x, NEW y, Whole(x), Whole(y), y <= x
  PROVE  Whole(x - y)
<1>1. PICK i \in Nat : x = i * Alignment
  BY DEF Whole
<1>2. PICK j \in Nat : y = j * Alignment
  BY DEF Whole
<1>3. j <= i
  BY <1>1, <1>2, CircBufAssumption
<1>4. x - y = (i - j) * Alignment /\ i - j \in Nat
  BY <1>1, <1>2, <1>3, CircBufAssumption
<1> QED
  BY <1>4 DEF Whole

LEMMA WholeGap ==
  ASSUME NEW x, NEW y, Whole(x), Whole(y), x < y
  PROVE  x + Alignment <= y
<1>1. PICK i \in Nat : x = i * Alignment
  BY DEF Whole
<1>2. PICK j \in Nat : y = j * Alignment
  BY DEF Whole
<1>3. i + 1 <= j
  BY <1>1, <1>2, CircBufAssumption
<1>4. (i + 1) * Alignment <= j * Alignment
  BY <1>3, CircBufAssumption
<1> QED
  BY <1>1, <1>2, <1>4, CircBufAssumption

LEMMA WholeConstants ==
  /\ bufferSize \in Nat \ {0} /\ Whole(bufferSize) /\ Whole(0) /\ Whole(Alignment)
  /\ Alignment \in Nat \ {0}
<1>1. Whole(0) /\ Whole(Alignment)
  <2>1. 0 = 0 * Alignment /\ Alignment = 1 * Alignment
    BY CircBufAssumption
  <2> QED
    BY <2>1 DEF Whole
<1> QED
  BY <1>1, AlignedBounds, CircBufAssumption DEF bufferSize

LEMMA BlockBounds ==
  ASSUME NEW size \in Nat
  PROVE  /\ FullBlockSize(size) \in Nat \ {0} /\ Whole(FullBlockSize(size))
         /\ size + Alignment <= FullBlockSize(size)
         /\ FullBlockSize(size) = Aligned(size) + Alignment
         /\ Aligned(size) \in Nat /\ Whole(Aligned(size))
         /\ Aligned(size) < size + Alignment
BY AlignedBounds, WholeSum, WholeConstants DEF FullBlockSize

LEMMA ModSmall ==
  ASSUME NEW n \in Nat \ {0}, NEW x \in 0 .. 2 * n - 1
  PROVE  x % n = IF x < n THEN x ELSE x - n
OBVIOUS

LEMMA WrapMod ==
  ASSUME NEW x \in 0 .. 2 * bufferSize - 1
  PROVE  x % bufferSize = Wrap(x) /\ Wrap(x) \in Bytes
<1>1. x % bufferSize = IF x < bufferSize THEN x ELSE x - bufferSize
  BY ModSmall, WholeConstants
<1> QED
  BY <1>1, WholeConstants DEF Wrap, Bytes

LEMMA WrapWrap ==
  ASSUME NEW x \in Nat, NEW d \in Nat, x + d < 2 * bufferSize
  PROVE  Wrap(Wrap(x) + d) = Wrap(x + d)
BY WholeConstants DEF Wrap

LEMMA AdvanceWraps ==
  ASSUME NEW o \in Bytes, NEW size \in Nat, FullBlockSize(size) <= bufferSize
  PROVE  Advance(o, size) = Wrap(o + FullBlockSize(size)) /\ Advance(o, size) \in Bytes
BY BlockBounds, WholeConstants DEF Advance, Wrap, Bytes

LEMMA WrapWhole ==
  ASSUME NEW x \in Nat, Whole(x)
  PROVE  Whole(Wrap(x))
BY WholeDifference, WholeConstants DEF Wrap

(* Induction over 1 .. n, for a set. *)
LEMMA Induction ==
  ASSUME NEW n \in Nat, NEW S,
         n # 0 => 1 \in S, \A k \in 2 .. n : k - 1 \in S => k \in S
  PROVE  1 .. n \subseteq S
<1> DEFINE R == {ss \in Nat \X Nat : ss[1] < ss[2]}
           D == (1 .. n) \ S
<1> SUFFICES ASSUME D # {} PROVE FALSE
  OBVIOUS
<1>1. D \subseteq Nat
  OBVIOUS
<1>2. IsWellFoundedOn(R, Nat)
  BY NatLessThanWellFounded DEF OpToRel
<1>3. \A x, y \in Nat : y < x => <<y, x>> \in R
  OBVIOUS
<1> HIDE DEF R
<1>4. PICK k \in D : \A j \in D : ~(<<j, k>> \in R)
  <2> HIDE DEF D
  <2> QED
    BY <1>1, <1>2, WFMin
<1>5. \A j \in D : ~(j < k)
  <2> HIDE DEF D
  <2> QED
    BY <1>1, <1>3, <1>4, Zenon
<1>6. k \in 1 .. n /\ k \notin S
  OBVIOUS
<1>7. k # 1
  BY <1>6
<1>8. k - 1 \in D
  BY <1>6, <1>7
<1>9. k - 1 < k
  BY <1>6
<1> QED
  BY <1>5, <1>8, <1>9

-----------------------------------------------------------------------------
(* The layout of the buffer.                                                *)

Used == bufferSize - freeSize

(* pos[k] is how far block k begins behind readOffset. *)
Start(pos, k) == Wrap(readOffset + pos[k])
Layout(pos) ==
  /\ pos \in [1 .. dataCount + 1 -> 0 .. bufferSize]
  /\ pos[1] = 0 /\ pos[dataCount + 1] = Used
  /\ \A k \in 1 .. dataCount :
        /\ SizeAt(Start(pos, k)) \in Nat \ {0}
        /\ pos[k + 1] = pos[k] + FullBlockSize(SizeAt(Start(pos, k)))
  /\ \A j, k \in 1 .. dataCount + 1 : j <= k => k - j <= pos[k] - pos[j]

Offsets ==
  /\ writeOffset \in Bytes /\ Whole(writeOffset)
  /\ readOffset \in Bytes /\ Whole(readOffset)
  /\ freeSize \in 0 .. bufferSize /\ dataCount \in Nat
  /\ writeOffset = Wrap(readOffset + Used)
  /\ circBuf = [i \in Bytes |-> circBuf[i]]

Inv == Offsets /\ \E pos : Layout(pos)

LEMMA InvType == Inv => TypeOK
<1> SUFFICES ASSUME Inv PROVE TypeOK
  OBVIOUS
<1>1. PICK pos : Layout(pos)
  BY DEF Inv
<1>2. dataCount <= Used
  BY <1>1, WholeConstants DEF Layout, Inv, Offsets
<1> QED
  BY <1>2, WholeConstants DEF Inv, Offsets, TypeOK, Used

(* The bytes of the message in the block at offset o. *)
MessageAt(o) == [i \in 1 .. SizeAt(o) |-> circBuf[Wrap(o + Alignment + i - 1)]]

LEMMA StartType ==
  ASSUME Offsets, NEW pos, Layout(pos), NEW k \in 1 .. dataCount
  PROVE  /\ Start(pos, k) \in Bytes
         /\ pos[k] \in 0 .. bufferSize /\ pos[k + 1] \in 0 .. bufferSize
         /\ SizeAt(Start(pos, k)) \in Nat \ {0}
         /\ FullBlockSize(SizeAt(Start(pos, k))) <= bufferSize
         /\ pos[k + 1] = pos[k] + FullBlockSize(SizeAt(Start(pos, k)))
         /\ readOffset + pos[k] \in 0 .. 2 * bufferSize - 1
         /\ FullBlockSize(SizeAt(Start(pos, k))) \in Nat \ {0}
         /\ pos[k] + FullBlockSize(SizeAt(Start(pos, k))) <= Used
         /\ Used \in 0 .. bufferSize
<1>1. k \in 1 .. dataCount + 1 /\ k + 1 \in 1 .. dataCount + 1 /\ dataCount + 1 \in 1 .. dataCount + 1
  BY DEF Offsets
<1>2. pos[k] \in 0 .. bufferSize /\ pos[k + 1] \in 0 .. bufferSize
  BY <1>1 DEF Layout
<1>3. pos[k + 1] <= Used /\ Used \in 0 .. bufferSize
  <2>1. (dataCount + 1) - (k + 1) <= pos[dataCount + 1] - pos[k + 1] /\ pos[dataCount + 1] = Used
    BY <1>1 DEF Layout, Offsets
  <2>2. Used \in 0 .. bufferSize
    BY WholeConstants DEF Offsets, Used
  <2> QED
    BY <2>1, <2>2, <1>2 DEF Offsets
<1>4. FullBlockSize(SizeAt(Start(pos, k))) \in Nat \ {0}
  BY BlockBounds DEF Layout
<1>5. readOffset + pos[k] \in 0 .. 2 * bufferSize - 1
  BY <1>2, WholeConstants DEF Offsets, Bytes
<1>6. SizeAt(Start(pos, k)) \in Nat \ {0} /\ pos[k + 1] = pos[k] + FullBlockSize(SizeAt(Start(pos, k)))
  BY DEF Layout
<1>7. Start(pos, k) \in Bytes
  BY <1>5, WrapMod DEF Start
<1>8. pos[k] + FullBlockSize(SizeAt(Start(pos, k))) <= Used
  BY <1>3, <1>6
<1>9. FullBlockSize(SizeAt(Start(pos, k))) <= bufferSize
  <2> DEFINE full == FullBlockSize(SizeAt(Start(pos, k)))
  <2>1. full \in Nat /\ pos[k] \in Nat /\ pos[k] + full <= Used /\ Used <= bufferSize
        /\ Used \in Nat /\ bufferSize \in Nat
    BY <1>2, <1>3, <1>4, <1>8, WholeConstants
  <2> HIDE DEF full
  <2>2. full <= bufferSize
    BY <2>1
  <2> QED
    BY <2>2 DEF full
<1> QED
  BY <1>2, <1>3, <1>4, <1>5, <1>6, <1>7, <1>8, <1>9

LEMMA StartNext ==
  ASSUME Offsets, NEW pos, Layout(pos), NEW k \in 1 .. dataCount
  PROVE  Advance(Start(pos, k), SizeAt(Start(pos, k))) = Wrap(readOffset + pos[k + 1])
<1> DEFINE size == SizeAt(Start(pos, k))
<1>1. size \in Nat /\ pos[k + 1] = pos[k] + FullBlockSize(size)
  BY StartType
<1>2. pos[k] \in 0 .. bufferSize /\ FullBlockSize(size) \in Nat
  BY StartType
<1>3. FullBlockSize(size) <= bufferSize /\ Start(pos, k) \in Bytes
      /\ pos[k] + FullBlockSize(size) <= bufferSize
  BY <1>1, StartType
<1> HIDE DEF size
<1>4. Advance(Start(pos, k), size) = Wrap(Start(pos, k) + FullBlockSize(size))
  BY <1>1, <1>3, AdvanceWraps
<1>5. readOffset + pos[k] \in Nat /\ readOffset + pos[k] + FullBlockSize(size) < 2 * bufferSize
  <2>1. PICK p, f : p = pos[k] /\ f = FullBlockSize(size)
    OBVIOUS
  <2>2. /\ p \in Nat /\ f \in Nat /\ p + f <= bufferSize
        /\ readOffset \in 0 .. bufferSize - 1 /\ bufferSize \in Nat \ {0}
    BY <1>2, <1>3, <2>1, WholeConstants DEF Offsets, Bytes
  <2>3. readOffset + p \in Nat /\ readOffset + p + f < 2 * bufferSize
    BY <2>2
  <2> QED
    BY <2>1, <2>3
<1>6. Wrap(Wrap(readOffset + pos[k]) + FullBlockSize(size)) = Wrap(readOffset + pos[k] + FullBlockSize(size))
  BY <1>2, <1>5, WrapWrap
<1>7. readOffset + pos[k] + FullBlockSize(size) = readOffset + pos[k + 1]
  BY <1>1, <1>2 DEF Offsets, Bytes
<1> QED
  BY <1>4, <1>6, <1>7 DEF size, Start

(* What `content` decodes is the messages of the layout. *)
LEMMA ContentOf ==
  \A pos : Offsets /\ Layout(pos) => content = [k \in 1 .. dataCount |-> MessageAt(Start(pos, k))]
<1> SUFFICES ASSUME NEW pos, Offsets, Layout(pos)
             PROVE  content = [k \in 1 .. dataCount |-> MessageAt(Start(pos, k))]
  OBVIOUS
<1> DEFINE a == [k \in 1 .. dataCount |-> Start(pos, k)]
           Follows(f) == f = [k \in 1 .. dataCount |->
                               IF k = 1 THEN readOffset ELSE Advance(f[k - 1], SizeAt(f[k - 1]))]
<1>1. Follows(a)
  <2>1. ASSUME NEW k \in 1 .. dataCount
        PROVE  Start(pos, k) = IF k = 1 THEN readOffset ELSE Advance(a[k - 1], SizeAt(a[k - 1]))
    <3>1. CASE k = 1
      BY <3>1, WholeConstants DEF Layout, Start, Wrap, Offsets, Bytes
    <3>2. CASE k # 1
      <4>1. k - 1 \in 1 .. dataCount /\ (k - 1) + 1 = k
        BY <3>2 DEF Offsets
      <4>2. Advance(Start(pos, k - 1), SizeAt(Start(pos, k - 1))) = Wrap(readOffset + pos[k])
        BY <4>1, StartNext
      <4> QED
        BY <3>2, <4>1, <4>2 DEF Start
    <3> QED
      BY <3>1, <3>2
  <2> QED
    BY <2>1
<1>2. ASSUME NEW f, Follows(f) PROVE f = a
  <2> DEFINE S == {k \in 1 .. dataCount : f[k] = a[k]}
  <2>1. dataCount # 0 => 1 \in S
    <3>1. dataCount # 0 => 1 \in 1 .. dataCount
      BY DEF Offsets
    <3> HIDE DEF a
    <3> QED
      BY <1>1, <1>2, <3>1
  <2>2. \A k \in 2 .. dataCount : k - 1 \in S => k \in S
    <3> TAKE k \in 2 .. dataCount
    <3>1. k \in 1 .. dataCount /\ k # 1
      BY DEF Offsets
    <3> HIDE DEF a
    <3> QED
      BY <1>1, <1>2, <3>1
  <2> HIDE DEF S
  <2>3. 1 .. dataCount \subseteq S
    BY <2>1, <2>2, Induction DEF Offsets
  <2>4. \A k \in 1 .. dataCount : f[k] = a[k]
    BY <2>3 DEF S
  <2> QED
    BY <1>2, <2>4
<1>3. content = [k \in 1 .. dataCount |-> [i \in 1 .. SizeAt(a[k]) |->
                  circBuf[(a[k] + Alignment + i - 1) % bufferSize]]]
  <2> DEFINE c == CHOOSE f : Follows(f)
  <2>1. c = a
    <3> HIDE DEF a, Follows
    <3> QED
      BY <1>1, <1>2, Zenon
  <2>2. content = [k \in 1 .. dataCount |-> [i \in 1 .. SizeAt(c[k]) |->
                    circBuf[(c[k] + Alignment + i - 1) % bufferSize]]]
    BY Zenon DEF content
  <2> HIDE DEF a, c
  <2> QED
    BY <2>1, <2>2
<1>4. ASSUME NEW k \in 1 .. dataCount, NEW i \in 1 .. SizeAt(Start(pos, k))
      PROVE  (Start(pos, k) + Alignment + i - 1) % bufferSize = Wrap(Start(pos, k) + Alignment + i - 1)
  <2>1. SizeAt(Start(pos, k)) \in Nat /\ FullBlockSize(SizeAt(Start(pos, k))) <= bufferSize
        /\ Start(pos, k) \in Bytes
    BY StartType
  <2>2. Start(pos, k) + Alignment + i - 1 \in 0 .. 2 * bufferSize - 1
    BY <2>1, BlockBounds, WholeConstants DEF Bytes
  <2> QED
    BY <2>2, WrapMod
<1> QED
  BY <1>3, <1>4 DEF MessageAt

LEMMA LenOf ==
  ASSUME NEW n \in Nat, NEW s, DOMAIN s = 1 .. n, s = [i \in 1 .. n |-> s[i]]
  PROVE  Len(s) = n /\ s \in Seq({s[i] : i \in 1 .. n})
<1>1. s \in [1 .. n -> {s[i] : i \in 1 .. n}]
  OBVIOUS
<1> QED
  BY <1>1

LEMMA MessageLen ==
  ASSUME Offsets, NEW pos, Layout(pos), NEW k \in 1 .. dataCount
  PROVE  Len(MessageAt(Start(pos, k))) = SizeAt(Start(pos, k))
<1>1. SizeAt(Start(pos, k)) \in Nat
  BY StartType
<1> QED
  BY <1>1, LenOf DEF MessageAt

(* The room that the promise computes from the messages is the free size. *)
LEMMA RoomOf ==
  \A pos : Offsets /\ Layout(pos) => Fifo!Room = freeSize
<1> SUFFICES ASSUME NEW pos, Offsets, Layout(pos) PROVE Fifo!Room = freeSize
  OBVIOUS
<1> DEFINE u == [i \in 0 .. dataCount |-> pos[i + 1]]
           Sums(f) == f = [i \in 0 .. dataCount |->
                             IF i = 0 THEN 0 ELSE f[i - 1] + FullBlockSize(Len(content[i]))]
<1>1. content = [k \in 1 .. dataCount |-> MessageAt(Start(pos, k))]
  BY ContentOf
<1>2. Len(content) = dataCount
  BY <1>1, LenOf DEF Offsets
<1>3. ASSUME NEW i \in 1 .. dataCount
      PROVE  pos[i + 1] = pos[i] + FullBlockSize(Len(content[i]))
  BY <1>1, StartType, MessageLen
<1>4. Sums(u)
  BY <1>3 DEF Layout, Offsets
<1>5. ASSUME NEW f, Sums(f) PROVE f = u
  <2> DEFINE S == {k \in 1 .. dataCount : f[k] = u[k]}
  <2>1. f[0] = 0 /\ u[0] = 0 /\ 0 \in 0 .. dataCount
    BY <1>4, <1>5 DEF Offsets
  <2>2. ASSUME NEW k \in 1 .. dataCount, f[k - 1] = u[k - 1] PROVE f[k] = u[k]
    <3>1. k \in 0 .. dataCount /\ k # 0
      BY DEF Offsets
    <3> HIDE DEF u
    <3> QED
      BY <1>4, <1>5, <2>2, <3>1
  <2>3. dataCount # 0 => 1 \in S
    <3>1. dataCount # 0 => 1 \in 1 .. dataCount
      BY DEF Offsets
    <3> HIDE DEF u
    <3> QED
      BY <2>1, <2>2, <3>1
  <2>4. \A k \in 2 .. dataCount : k - 1 \in S => k \in S
    <3> HIDE DEF u
    <3> QED
      BY <2>2 DEF Offsets
  <2> HIDE DEF S
  <2>5. 1 .. dataCount \subseteq S
    BY <2>3, <2>4, Induction DEF Offsets
  <2>6. \A k \in 0 .. dataCount : f[k] = u[k]
    <3> TAKE k \in 0 .. dataCount
    <3>1. k = 0 \/ k \in 1 .. dataCount
      BY DEF Offsets
    <3> HIDE DEF u
    <3> QED
      BY <2>1, <2>5, <3>1 DEF S
  <2> HIDE DEF u
  <2> QED
    BY <1>4, <1>5, <2>6
<1>6. Fifo!Room = bufferSize - u[dataCount]
  <2> DEFINE c == CHOOSE f : Sums(f)
  <2>1. c = u
    <3> HIDE DEF u, Sums
    <3> QED
      BY <1>4, <1>5, Zenon
  <2>2. Fifo!Room = bufferSize - c[dataCount]
    BY <1>2 DEF Fifo!Room
  <2> HIDE DEF u, c
  <2> QED
    BY <2>1, <2>2
<1>7. u[dataCount] = Used
  BY DEF Layout, Offsets
<1> QED
  BY <1>6, <1>7, WholeConstants DEF Used, Offsets

-----------------------------------------------------------------------------
(* Bytes.                                                                   *)

LEMMA MemcpyBytes ==
  ASSUME NEW mem, NEW offset \in Nat, NEW data, Len(data) \in Nat,
         DOMAIN mem = Bytes, offset + Len(data) <= bufferSize
  PROVE  LET new == Memcpy(mem, offset, data)
         IN  /\ DOMAIN new = Bytes /\ new = [i \in Bytes |-> new[i]]
             /\ \A i \in 1 .. Len(data) : new[offset + i - 1] = data[i]
             /\ \A b \in Bytes : ~(offset <= b /\ b < offset + Len(data)) => new[b] = mem[b]
<1>1. Bytes \cup offset .. offset + Len(data) - 1 = Bytes
  BY WholeConstants DEF Bytes
<1>2. \A i \in 1 .. Len(data) : offset + i - 1 \in Bytes /\ offset + i - 1 - offset + 1 = i
  BY WholeConstants DEF Bytes
<1> QED
  BY <1>1, <1>2 DEF Memcpy

(* The byte d places behind writeOffset. *)
At(d) == Wrap(writeOffset + d)

(* new is old with piece copied to d places behind writeOffset. *)
Copied(new, old, d, piece) ==
  /\ DOMAIN new = Bytes /\ new = [i \in Bytes |-> new[i]]
  /\ \A i \in 1 .. Len(piece) : new[At(d + i - 1)] = piece[i]
  /\ \A e \in 0 .. bufferSize - 1 : ~(d <= e /\ e < d + Len(piece)) => new[At(e)] = old[At(e)]

LEMMA CopiedByMemcpy ==
  ASSUME Offsets, NEW mem, DOMAIN mem = Bytes, NEW piece, Len(piece) \in Nat,
         NEW d \in Nat, d + Len(piece) <= bufferSize, NEW offset \in Nat,
         \/ offset = writeOffset + d /\ offset + Len(piece) <= bufferSize
         \/ offset = writeOffset + d - bufferSize
  PROVE  Copied(Memcpy(mem, offset, piece), mem, d, piece)
<1> DEFINE new == Memcpy(mem, offset, piece)
<1>1. offset + Len(piece) <= bufferSize
  BY WholeConstants DEF Offsets, Bytes
<1>2. /\ DOMAIN new = Bytes /\ new = [i \in Bytes |-> new[i]]
      /\ \A i \in 1 .. Len(piece) : new[offset + i - 1] = piece[i]
      /\ \A b \in Bytes : ~(offset <= b /\ b < offset + Len(piece)) => new[b] = mem[b]
  BY <1>1, MemcpyBytes
<1> DEFINE len == Len(piece)
<1>0. len \in Nat /\ bufferSize \in Nat \ {0} /\ writeOffset \in 0 .. bufferSize - 1
  BY WholeConstants DEF Offsets, Bytes
<1>o. \/ offset = writeOffset + d /\ offset + len <= bufferSize
      \/ offset = writeOffset + d - bufferSize
  OBVIOUS
<1>d. d + len <= bufferSize
  OBVIOUS
<1> HIDE DEF len
<1>3. ASSUME NEW i \in 1 .. len PROVE At(d + i - 1) = offset + i - 1
  <2>1. At(d + i - 1) = IF writeOffset + (d + i - 1) < bufferSize THEN writeOffset + (d + i - 1)
                        ELSE writeOffset + (d + i - 1) - bufferSize
    BY <1>0 DEF At, Wrap
  <2> QED
    BY <2>1, <1>0, <1>o, <1>d
<1>4. ASSUME NEW e \in 0 .. bufferSize - 1, ~(d <= e /\ e < d + len)
      PROVE  At(e) \in Bytes /\ ~(offset <= At(e) /\ At(e) < offset + len)
  <2>1. At(e) = IF writeOffset + e < bufferSize THEN writeOffset + e ELSE writeOffset + e - bufferSize
    BY <1>0 DEF At, Wrap
  <2> QED
    BY <2>1, <1>0, <1>4, <1>o, <1>d DEF Bytes
<1> HIDE DEF new
<1>5. \A i \in 1 .. Len(piece) : new[At(d + i - 1)] = piece[i]
  BY <1>2, <1>3 DEF len
<1>6. \A e \in 0 .. bufferSize - 1 : ~(d <= e /\ e < d + Len(piece)) => new[At(e)] = mem[At(e)]
  BY <1>2, <1>4 DEF len
<1> QED
  BY <1>2, <1>5, <1>6 DEF Copied, new

(* The memory holds data as a block at writeOffset, and the old bytes behind it. *)
Holds(new, data) ==
  /\ DOMAIN new = Bytes /\ new = [i \in Bytes |-> new[i]]
  /\ new[writeOffset][2] = Len(data)
  /\ \A i \in 1 .. Len(data) : new[At(Alignment + i - 1)] = data[i]
  /\ \A d \in FullBlockSize(Len(data)) .. bufferSize - 1 : new[At(d)] = circBuf[At(d)]

LEMMA TextLen ==
  ASSUME NEW data, IsText(data)
  PROVE  Len(data) \in Nat /\ (data # <<>> => Len(data) \in Nat \ {0}) /\ DOMAIN data = 1 .. Len(data)
BY DEF IsText

LEMMA HeaderWritten ==
  ASSUME Offsets, NEW size \in Nat
  PROVE  LET new == Memcpy(circBuf, writeOffset, UInt32(size))
         IN  /\ Copied(new, circBuf, 0, UInt32(size))
             /\ Len(UInt32(size)) = Alignment
             /\ new[writeOffset][2] = size
             /\ writeOffset + Alignment <= bufferSize
<1>1. writeOffset + Alignment <= bufferSize
  BY WholeGap, WholeConstants DEF Offsets, Bytes
<1>2. Len(UInt32(size)) = Alignment
  BY LenOf, WholeConstants DEF UInt32
<1>3. DOMAIN circBuf = Bytes /\ writeOffset \in Nat
  BY WholeConstants DEF Offsets, Bytes
<1>4. Copied(Memcpy(circBuf, writeOffset, UInt32(size)), circBuf, 0, UInt32(size))
  BY <1>1, <1>2, <1>3, CopiedByMemcpy, WholeConstants
<1>5. At(0 + 1 - 1) = writeOffset
  BY WholeConstants DEF Offsets, Bytes, At, Wrap
<1>6. UInt32(size)[1][2] = size
  BY WholeConstants DEF UInt32
<1>7. 1 \in 1 .. Len(UInt32(size))
  BY <1>2, WholeConstants
<1>8. Memcpy(circBuf, writeOffset, UInt32(size))[writeOffset] = UInt32(size)[1]
  BY <1>4, <1>5, <1>7 DEF Copied
<1> QED
  BY <1>1, <1>2, <1>4, <1>6, <1>8

(* whole is first and second in a row. *)
Joined(whole, first, second) ==
  /\ Len(whole) = Len(first) + Len(second)
  /\ \A i \in 1 .. Len(first) : whole[i] = first[i]
  /\ \A i \in 1 .. Len(second) : whole[Len(first) + i] = second[i]

LEMMA JoinedParts ==
  ASSUME NEW data, IsText(data), NEW c \in 0 .. Len(data)
  PROVE  /\ Joined(data, Part(data, 1, c), Part(data, c + 1, Len(data)))
         /\ Len(Part(data, 1, c)) = c /\ Len(Part(data, c + 1, Len(data))) = Len(data) - c
<1>1. Len(data) \in Nat
  BY TextLen
<1> DEFINE p == Part(data, 1, c)
           q == Part(data, c + 1, Len(data))
<1>2. /\ Len(Part(data, 1, c)) = c
      /\ \A i \in 1 .. c : Part(data, 1, c)[i] = data[i]
  BY <1>1 DEF Part
<1>3. /\ Len(Part(data, c + 1, Len(data))) = Len(data) - c
      /\ \A i \in 1 .. Len(data) - c : Part(data, c + 1, Len(data))[i] = data[c + i]
  BY <1>1 DEF Part
<1>4. Len(p) = c /\ Len(q) = Len(data) - c
      /\ (\A i \in 1 .. c : p[i] = data[i]) /\ (\A i \in 1 .. Len(data) - c : q[i] = data[c + i])
  BY <1>2, <1>3
<1> HIDE DEF p, q
<1>5. Joined(data, p, q)
  <2>1. Len(data) = Len(p) + Len(q)
    BY <1>1, <1>4
  <2>2. \A i \in 1 .. Len(p) : data[i] = p[i]
    BY <1>4
  <2>3. \A i \in 1 .. Len(q) : data[Len(p) + i] = q[i]
    BY <1>4
  <2> QED
    BY <2>1, <2>2, <2>3 DEF Joined
<1> QED
  BY <1>4, <1>5 DEF p, q

LEMMA JoinedConcat ==
  ASSUME NEW first, NEW second, IsText(first), IsText(second)
  PROVE  /\ Joined(first \o second, first, second)
         /\ Len(first) \in Nat /\ Len(second) \in Nat
         /\ IsText(first \o second)
<1> DEFINE S == {first[i] : i \in DOMAIN first} \cup {second[i] : i \in DOMAIN second}
<1>1. first \in Seq(S) /\ second \in Seq(S)
  <2>1. {first[i] : i \in DOMAIN first} \subseteq S /\ {second[i] : i \in DOMAIN second} \subseteq S
    OBVIOUS
  <2> HIDE DEF S
  <2> QED
    BY <2>1, SeqMonotonic DEF IsText
<1> HIDE DEF S
<1>2. /\ first \o second \in Seq(S)
      /\ Len(first \o second) = Len(first) + Len(second)
      /\ \A i \in 1 .. Len(first) + Len(second) :
            (first \o second)[i] = IF i <= Len(first) THEN first[i] ELSE second[i - Len(first)]
  BY <1>1, ConcatProperties
<1>3. Len(first) \in Nat /\ Len(second) \in Nat
  BY <1>1
<1>4. first \o second = [i \in 1 .. Len(first \o second) |-> (first \o second)[i]]
      /\ DOMAIN (first \o second) = 1 .. Len(first \o second) /\ Len(first \o second) \in Nat
  BY <1>2, LenProperties
<1>5. IsText(first \o second)
  BY <1>4, LenOf DEF IsText
<1>6. \A i \in 1 .. Len(second) : (first \o second)[Len(first) + i] = second[i]
  BY <1>2, <1>3
<1> QED
  BY <1>2, <1>3, <1>5, <1>6 DEF Joined

LEMMA CopiedJoined ==
  ASSUME NEW m0, NEW m1, NEW m2, NEW first, NEW second, NEW whole, NEW d \in Nat,
         Len(first) \in Nat, Len(second) \in Nat, Joined(whole, first, second),
         Copied(m1, m0, d, first), Copied(m2, m1, d + Len(first), second),
         d + Len(first) + Len(second) <= bufferSize
  PROVE  Copied(m2, m0, d, whole)
<1>1. ASSUME NEW i \in 1 .. Len(whole) PROVE m2[At(d + i - 1)] = whole[i]
  <2>1. CASE i <= Len(first)
    <3>1. i \in 1 .. Len(first) /\ d + i - 1 \in 0 .. bufferSize - 1
          /\ ~(d + Len(first) <= d + i - 1 /\ d + i - 1 < d + Len(first) + Len(second))
      BY <2>1, WholeConstants DEF Joined
    <3> QED
      BY <3>1 DEF Copied, Joined
  <2>2. CASE i > Len(first)
    <3> DEFINE j == i - Len(first)
    <3>1. j \in 1 .. Len(second) /\ d + Len(first) + j - 1 = d + i - 1 /\ Len(first) + j = i
      BY <2>2 DEF Joined
    <3> HIDE DEF j
    <3> QED
      BY <3>1 DEF Copied, Joined
  <2> QED
    BY <2>1, <2>2 DEF Joined
<1>2. ASSUME NEW e \in 0 .. bufferSize - 1, ~(d <= e /\ e < d + Len(whole))
      PROVE  m2[At(e)] = m0[At(e)]
  <2>1. ~(d <= e /\ e < d + Len(first))
        /\ ~(d + Len(first) <= e /\ e < d + Len(first) + Len(second))
    BY <1>2, WholeConstants DEF Joined
  <2> QED
    BY <2>1 DEF Copied
<1> QED
  BY <1>1, <1>2 DEF Copied

LEMMA HoldsIf ==
  ASSUME Offsets, NEW data, Len(data) \in Nat, FullBlockSize(Len(data)) <= bufferSize, NEW new,
         Copied(new, Memcpy(circBuf, writeOffset, UInt32(Len(data))), Alignment, data)
  PROVE  Holds(new, data)
<1> DEFINE m0 == Memcpy(circBuf, writeOffset, UInt32(Len(data)))
<1>1. /\ Copied(m0, circBuf, 0, UInt32(Len(data)))
      /\ Len(UInt32(Len(data))) = Alignment
      /\ m0[writeOffset][2] = Len(data)
  BY HeaderWritten
<1>2. Copied(new, m0, Alignment, data)
  OBVIOUS
<1> HIDE DEF m0
<1>3. FullBlockSize(Len(data)) \in Nat \ {0} /\ Len(data) + Alignment <= FullBlockSize(Len(data))
  BY BlockBounds
<1>4. ASSUME NEW e \in FullBlockSize(Len(data)) .. bufferSize - 1
      PROVE  new[At(e)] = circBuf[At(e)]
  <2>1. e \in 0 .. bufferSize - 1 /\ ~(Alignment <= e /\ e < Alignment + Len(data))
        /\ ~(0 <= e /\ e < 0 + Alignment)
    BY <1>3, WholeConstants
  <2> QED
    BY <2>1, <1>1, <1>2 DEF Copied
<1>5. new[writeOffset] = m0[writeOffset]
  <2>1. At(0) = writeOffset
    BY WholeConstants DEF Offsets, Bytes, At, Wrap
  <2>2. 0 \in 0 .. bufferSize - 1 /\ ~(Alignment <= 0 /\ 0 < Alignment + Len(data))
    BY WholeConstants
  <2> QED
    BY <2>1, <2>2, <1>2 DEF Copied
<1> QED
  BY <1>1, <1>2, <1>4, <1>5 DEF Holds, Copied

(* A block that reaches over the end has more bytes than fit in front of it. *)
LEMMA ChunkBounds ==
  ASSUME Offsets, NEW o \in Bytes, Whole(o), NEW size \in Nat, FullBlockSize(size) <= bufferSize
  PROVE  LET chunk == bufferSize - o - Alignment
         IN  /\ chunk \in Nat
             /\ o + FullBlockSize(size) > bufferSize => chunk < size
             /\ o + FullBlockSize(size) <= bufferSize => size <= chunk
<1> DEFINE chunk == bufferSize - o - Alignment
<1>0. o \in Nat /\ o < bufferSize
  BY WholeConstants DEF Bytes
<1>1. o + Alignment <= bufferSize /\ o \in Nat /\ o < bufferSize
  BY <1>0, WholeGap, WholeConstants
<1>2. chunk \in Nat /\ Whole(chunk)
  <2>1. Whole(bufferSize - o) /\ Alignment <= bufferSize - o
    BY <1>1, WholeDifference, WholeConstants
  <2> QED
    BY <2>1, <1>1, WholeDifference, WholeConstants
<1>3. ASSUME o + FullBlockSize(size) > bufferSize PROVE chunk < size
  <2>1. chunk < Aligned(size)
    BY <1>1, <1>3, BlockBounds, WholeConstants
  <2>2. chunk + Alignment <= Aligned(size)
    <3> HIDE DEF chunk
    <3> QED
      BY <1>2, <2>1, WholeGap, BlockBounds
  <2> HIDE DEF chunk
  <2> QED
    BY <1>2, <2>2, BlockBounds, WholeConstants
<1>4. ASSUME o + FullBlockSize(size) <= bufferSize PROVE size <= chunk
  BY <1>1, <1>4, BlockBounds, WholeConstants
<1> QED
  BY <1>2, <1>3, <1>4

LEMMA StoredHolds ==
  ASSUME Offsets, NEW data, IsText(data), FullBlockSize(Len(data)) <= freeSize
  PROVE  Holds(Stored(data), data)
<1> DEFINE size  == Len(data)
           chunk == bufferSize - writeOffset - Alignment
           mem   == Memcpy(circBuf, writeOffset, UInt32(size))
           at    == writeOffset + Alignment
<1>1. size \in Nat /\ FullBlockSize(size) <= bufferSize
  BY TextLen, WholeConstants, BlockBounds DEF Offsets
<1>2. /\ chunk \in Nat
      /\ writeOffset + FullBlockSize(size) > bufferSize => chunk < size
      /\ writeOffset + FullBlockSize(size) <= bufferSize => size <= chunk
  BY <1>1, ChunkBounds DEF Offsets
<1>3. DOMAIN mem = Bytes /\ at <= bufferSize
  BY <1>1, HeaderWritten DEF Copied
<1>4. Alignment + size <= bufferSize /\ at \in Nat /\ writeOffset \in Nat
      /\ bufferSize \in Nat /\ Alignment \in Nat /\ chunk = bufferSize - at
      /\ at = writeOffset + Alignment /\ FullBlockSize(size) \in Nat
  BY <1>1, BlockBounds, WholeConstants DEF Offsets, Bytes
<1>5. CASE writeOffset + FullBlockSize(size) <= bufferSize
  <2>1. at + size <= bufferSize
    BY <1>1, <1>2, <1>4, <1>5
  <2>2. Copied(Memcpy(mem, at, data), mem, Alignment, data)
    <3> HIDE DEF mem
    <3> QED
      BY <1>1, <1>3, <1>4, <2>1, CopiedByMemcpy
  <2>3. Stored(data) = Memcpy(mem, at, data)
    BY <1>5 DEF Stored
  <2> QED
    BY <1>1, <2>2, <2>3, HoldsIf
<1>6. CASE ~(writeOffset + FullBlockSize(size) <= bufferSize)
  <2> DEFINE p  == Part(data, 1, chunk)
             q  == Part(data, chunk + 1, size)
             m1 == Memcpy(mem, at, p)
             m2 == Memcpy(m1, 0, q)
  <2>1. chunk \in 0 .. size
    <3> HIDE DEF chunk, size, at
    <3> QED
      BY <1>1, <1>2, <1>4, <1>6
  <2>2. Joined(data, p, q) /\ Len(p) = chunk /\ Len(q) = size - chunk
    BY <2>1, JoinedParts
  <2> HIDE DEF p, q, mem
  <2>3. Copied(m1, mem, Alignment, p)
    <3> HIDE DEF chunk, size, at
    <3>1. at + Len(p) <= bufferSize /\ Alignment + Len(p) <= bufferSize /\ Len(p) \in Nat
      BY <1>1, <1>2, <1>4, <2>1, <2>2
    <3> QED
      BY <1>3, <1>4, <3>1, CopiedByMemcpy
  <2>4. DOMAIN m1 = Bytes
    BY <2>3 DEF Copied
  <2> HIDE DEF m1
  <2>5. Copied(m2, m1, Alignment + Len(p), q)
    <3>1. /\ 0 = writeOffset + (Alignment + Len(p)) - bufferSize /\ Len(q) \in Nat
          /\ Alignment + Len(p) + Len(q) <= bufferSize /\ Alignment + Len(p) \in Nat
      <4> HIDE DEF chunk, size, at
      <4> QED
        BY <1>1, <1>2, <1>4, <2>1, <2>2
    <3> QED
      BY <2>4, <3>1, CopiedByMemcpy
  <2> HIDE DEF m2
  <2>6. Copied(m2, mem, Alignment, data)
    BY <1>1, <1>2, <1>4, <2>1, <2>2, <2>3, <2>5, CopiedJoined
  <2>7. Stored(data) = m2
    BY <1>6 DEF Stored, m2, m1, mem, p, q
  <2> QED
    BY <1>1, <2>6, <2>7, HoldsIf DEF mem
<1> QED
  BY <1>5, <1>6

LEMMA StoredPairHolds ==
  ASSUME Offsets, NEW first, NEW second, IsText(first), IsText(second),
         FullBlockSize(Len(first \o second)) <= freeSize
  PROVE  Holds(StoredPair(first, second), first \o second)
<1> DEFINE data  == first \o second
           size  == Len(first) + Len(second)
           chunk == bufferSize - writeOffset - Alignment
           mem   == Memcpy(circBuf, writeOffset, UInt32(size))
           at    == writeOffset + Alignment
           a     == Len(first)
           b     == Len(second)
<1>0. Joined(data, first, second) /\ a \in Nat /\ b \in Nat /\ IsText(data) /\ Len(data) = size
  BY JoinedConcat DEF Joined
<1>1. size \in Nat /\ FullBlockSize(size) <= bufferSize /\ size = a + b
  BY <1>0, WholeConstants, BlockBounds DEF Offsets
<1>2. /\ chunk \in Nat
      /\ writeOffset + FullBlockSize(size) > bufferSize => chunk < size
      /\ writeOffset + FullBlockSize(size) <= bufferSize => size <= chunk
  BY <1>1, ChunkBounds DEF Offsets
<1>3. DOMAIN mem = Bytes /\ at <= bufferSize
  BY <1>1, HeaderWritten DEF Copied
<1>4. Alignment + size <= bufferSize /\ at \in Nat /\ writeOffset \in Nat
      /\ bufferSize \in Nat /\ Alignment \in Nat /\ chunk = bufferSize - at
      /\ at = writeOffset + Alignment /\ FullBlockSize(size) \in Nat
  <2>1. FullBlockSize(size) \in Nat /\ size + Alignment <= FullBlockSize(size)
    BY <1>1, BlockBounds
  <2>2. writeOffset \in Nat /\ bufferSize \in Nat /\ Alignment \in Nat
    BY WholeConstants DEF Offsets, Bytes
  <2>3. chunk = bufferSize - at
    BY <2>2
  <2> HIDE DEF size
  <2> QED
    BY <1>1, <2>1, <2>2, <2>3
<1>h. ASSUME NEW new, Copied(new, mem, Alignment, data) PROVE Holds(new, data)
  <2> HIDE DEF data, size
  <2> QED
    BY <1>0, <1>1, <1>h, HoldsIf
<1>5. CASE writeOffset + FullBlockSize(size) <= bufferSize
  <2> DEFINE m1 == Memcpy(mem, at, first)
             m2 == Memcpy(m1, at + a, second)
  <2>s. StoredPair(first, second) = m2
    BY <1>5 DEF StoredPair
  <2>1. at + size <= bufferSize
    BY <1>1, <1>2, <1>4, <1>5
  <2> HIDE DEF mem, data, size, chunk, at
  <2>2. Copied(m1, mem, Alignment, first)
    BY <1>0, <1>1, <1>3, <1>4, <2>1, CopiedByMemcpy
  <2>3. DOMAIN m1 = Bytes
    BY <2>2 DEF Copied
  <2> HIDE DEF m1
  <2>4. Copied(m2, m1, Alignment + a, second)
    BY <1>0, <1>1, <1>4, <2>1, <2>3, CopiedByMemcpy
  <2> HIDE DEF m2
  <2>5. Copied(m2, mem, Alignment, data)
    BY <1>0, <1>1, <1>4, <2>2, <2>4, CopiedJoined
  <2> QED
    BY <1>h, <2>s, <2>5 DEF data
<1>6. CASE ~(writeOffset + FullBlockSize(size) <= bufferSize) /\ a <= chunk
  <2> DEFINE part == chunk - a
             p  == Part(second, 1, part)
             q  == Part(second, part + 1, b)
             m1 == Memcpy(mem, at, first)
             m2 == Memcpy(m1, at + a, p)
             m3 == Memcpy(m2, 0, q)
  <2>s. StoredPair(first, second) = m3
    BY <1>6 DEF StoredPair
  <2>1. part \in 0 .. b /\ part \in Nat /\ at + a + part = bufferSize
    <3> HIDE DEF chunk, size, at, a, b
    <3> QED
      BY <1>0, <1>1, <1>2, <1>4, <1>6
  <2>2. Joined(second, p, q) /\ Len(p) = part /\ Len(q) = b - part
    BY <2>1, JoinedParts
  <2> HIDE DEF mem, data, size, chunk, at, part, p, q
  <2>3. Copied(m1, mem, Alignment, first)
    <3>1. at + a <= bufferSize /\ Alignment + a <= bufferSize
      <4> HIDE DEF a, b
      <4> QED
        BY <1>0, <1>1, <1>4, <2>1
    <3> QED
      BY <1>0, <1>3, <1>4, <3>1, CopiedByMemcpy
  <2>4. DOMAIN m1 = Bytes
    BY <2>3 DEF Copied
  <2> HIDE DEF m1
  <2>5. Copied(m2, m1, Alignment + a, p)
    BY <1>0, <1>1, <1>4, <2>1, <2>2, <2>4, CopiedByMemcpy
  <2>6. DOMAIN m2 = Bytes
    BY <2>5 DEF Copied
  <2> HIDE DEF m2
  <2>7. Copied(m3, m2, Alignment + a + Len(p), q)
    <3>1. /\ 0 = writeOffset + (Alignment + a + Len(p)) - bufferSize /\ Len(q) \in Nat
          /\ Alignment + a + Len(p) + Len(q) <= bufferSize /\ Alignment + a + Len(p) \in Nat
      <4> HIDE DEF a, b
      <4> QED
        BY <1>0, <1>1, <1>4, <2>1, <2>2
    <3> QED
      BY <2>6, <3>1, CopiedByMemcpy
  <2> HIDE DEF m3
  <2>8. Copied(m3, m1, Alignment + a, second)
    BY <1>0, <1>1, <1>4, <2>1, <2>2, <2>5, <2>7, CopiedJoined
  <2>9. Copied(m3, mem, Alignment, data)
    BY <1>0, <1>1, <1>4, <2>3, <2>8, CopiedJoined
  <2> QED
    BY <1>h, <2>s, <2>9 DEF data
<1>7. CASE ~(writeOffset + FullBlockSize(size) <= bufferSize) /\ ~(a <= chunk)
  <2> DEFINE part == a - chunk
             p  == Part(first, 1, chunk)
             q  == Part(first, chunk + 1, a)
             m1 == Memcpy(mem, at, p)
             m2 == Memcpy(m1, 0, q)
             m3 == Memcpy(m2, part, second)
  <2>s. StoredPair(first, second) = m3
    BY <1>7 DEF StoredPair
  <2>1. chunk \in 0 .. a /\ part \in Nat /\ part = writeOffset + (Alignment + a) - bufferSize
    BY <1>0, <1>1, <1>2, <1>4, <1>7
  <2>2. Joined(first, p, q) /\ Len(p) = chunk /\ Len(q) = a - chunk
    BY <2>1, JoinedParts
  <2> HIDE DEF mem, data, size, chunk, at, part, p, q
  <2>3. Copied(m1, mem, Alignment, p)
    <3>1. at + Len(p) <= bufferSize /\ Alignment + Len(p) <= bufferSize /\ Len(p) \in Nat
      <4> HIDE DEF a, b
      <4> QED
        BY <1>0, <1>1, <1>2, <1>4, <2>1, <2>2
    <3> QED
      BY <1>3, <1>4, <3>1, CopiedByMemcpy
  <2>4. DOMAIN m1 = Bytes
    BY <2>3 DEF Copied
  <2> HIDE DEF m1
  <2>5. Copied(m2, m1, Alignment + Len(p), q)
    <3>1. /\ 0 = writeOffset + (Alignment + Len(p)) - bufferSize /\ Len(q) \in Nat
          /\ Alignment + Len(p) + Len(q) <= bufferSize /\ Alignment + Len(p) \in Nat
      <4> HIDE DEF a, b
      <4> QED
        BY <1>0, <1>1, <1>2, <1>4, <2>1, <2>2
    <3> QED
      BY <2>4, <3>1, CopiedByMemcpy
  <2>6. DOMAIN m2 = Bytes
    BY <2>5 DEF Copied
  <2> HIDE DEF m2
  <2>7. Copied(m2, mem, Alignment, first)
    BY <1>0, <1>1, <1>2, <1>4, <2>1, <2>2, <2>3, <2>5, CopiedJoined
  <2>8. Copied(m3, m2, Alignment + a, second)
    BY <1>0, <1>1, <1>4, <2>1, <2>6, CopiedByMemcpy
  <2> HIDE DEF m3
  <2>9. Copied(m3, mem, Alignment, data)
    BY <1>0, <1>1, <1>4, <2>7, <2>8, CopiedJoined
  <2> QED
    BY <1>h, <2>s, <2>9 DEF data
<1> QED
  BY <1>5, <1>6, <1>7

LEMMA HeadMessageOf ==
  ASSUME Offsets, NEW pos, Layout(pos), dataCount # 0
  PROVE  /\ SizeAt(readOffset) \in Nat \ {0} /\ Start(pos, 1) = readOffset
         /\ HeadMessage(SizeAt(readOffset)) = MessageAt(readOffset)
<1> DEFINE size  == SizeAt(readOffset)
           chunk == bufferSize - readOffset - Alignment
           from  == readOffset + Alignment
<1>1. 1 \in 1 .. dataCount
  BY DEF Offsets
<1>2. Start(pos, 1) = readOffset
  BY <1>1, WholeConstants DEF Layout, Start, Wrap, Offsets, Bytes
<1>3. size \in Nat \ {0} /\ FullBlockSize(size) <= bufferSize
  BY <1>1, <1>2, StartType
<1>4. /\ chunk \in Nat
      /\ readOffset + FullBlockSize(size) > bufferSize => chunk < size
      /\ readOffset + FullBlockSize(size) <= bufferSize => size <= chunk
  BY <1>3, ChunkBounds DEF Offsets
<1>5. /\ from = readOffset + Alignment /\ chunk = bufferSize - from /\ from \in Nat
      /\ bufferSize \in Nat \ {0} /\ FullBlockSize(size) \in Nat /\ readOffset \in Nat
      /\ size + Alignment <= FullBlockSize(size) /\ Alignment \in Nat
  BY <1>3, BlockBounds, WholeConstants DEF Offsets, Bytes
<1>6. MessageAt(readOffset) = [i \in 1 .. size |-> circBuf[Wrap(from + i - 1)]]
  BY <1>5 DEF MessageAt
<1>7. CASE readOffset + FullBlockSize(size) <= bufferSize
  <2>1. HeadMessage(size) = [i \in 1 .. size |-> circBuf[from + i - 1]]
    BY <1>7 DEF HeadMessage, Chunk
  <2>2. ASSUME NEW i \in 1 .. size PROVE Wrap(from + i - 1) = from + i - 1
    <3> HIDE DEF chunk, size, from
    <3> QED
      BY <1>3, <1>4, <1>5, <1>7 DEF Wrap
  <2> HIDE DEF size, from
  <2>3. HeadMessage(size) = MessageAt(readOffset)
    BY <1>6, <2>1, <2>2
  <2> QED
    BY <1>2, <1>3, <2>3 DEF size
<1>8. CASE ~(readOffset + FullBlockSize(size) <= bufferSize)
  <2> DEFINE p == Chunk(from, chunk)
             q == Chunk(0, size - chunk)
             S == {circBuf[i] : i \in Int}
  <2>1. HeadMessage(size) = p \o q
    BY <1>8 DEF HeadMessage
  <2>2. chunk \in Nat /\ size - chunk \in Nat
    <3> HIDE DEF chunk, size, from
    <3> QED
      BY <1>3, <1>4, <1>5, <1>8
  <2> HIDE DEF chunk, size, from
  <2>3. /\ p \in Seq(S) /\ Len(p) = chunk /\ (\A i \in 1 .. chunk : p[i] = circBuf[from + i - 1])
        /\ q \in Seq(S) /\ Len(q) = size - chunk
        /\ (\A i \in 1 .. size - chunk : q[i] = circBuf[0 + i - 1])
    BY <1>5, <2>2 DEF Chunk
  <2> HIDE DEF p, q, S
  <2>4. /\ p \o q \in Seq(S) /\ Len(p \o q) = size
        /\ \A i \in 1 .. size : (p \o q)[i] = IF i <= chunk THEN p[i] ELSE q[i - chunk]
    <3>1. Len(p) + Len(q) = size
      BY <1>3, <2>2, <2>3
    <3> QED
      BY <2>3, <3>1, ConcatProperties
  <2>5. ASSUME NEW i \in 1 .. size PROVE (p \o q)[i] = circBuf[Wrap(from + i - 1)]
    <3>1. CASE i <= chunk
      <4>1. i \in 1 .. chunk /\ Wrap(from + i - 1) = from + i - 1
        BY <1>3, <1>4, <1>5, <2>2, <3>1 DEF Wrap
      <4> QED
        BY <2>3, <2>4, <3>1, <4>1
    <3>2. CASE ~(i <= chunk)
      <4>1. i - chunk \in 1 .. size - chunk /\ Wrap(from + i - 1) = 0 + (i - chunk) - 1
        BY <1>3, <1>4, <1>5, <2>2, <3>2 DEF Wrap
      <4> QED
        BY <2>3, <2>4, <3>2, <4>1
    <3> QED
      BY <3>1, <3>2
  <2>6. p \o q = [i \in 1 .. size |-> (p \o q)[i]]
    BY <2>4, LenProperties
  <2>7. p \o q = [i \in 1 .. size |-> circBuf[Wrap(from + i - 1)]]
    BY <2>5, <2>6
  <2>8. HeadMessage(size) = MessageAt(readOffset)
    BY <1>6, <2>1, <2>7
  <2> QED
    BY <1>2, <1>3, <2>8 DEF size
<1> QED
  BY <1>7, <1>8

(* The size and the message of a block at offset o after the step. *)
SizeNext(o) == circBuf'[o][2]
MessageNext(o) == [i \in 1 .. SizeNext(o) |-> circBuf'[Wrap(o + Alignment + i - 1)]]

LayoutNext(pos) ==
  /\ pos \in [1 .. dataCount' + 1 -> 0 .. bufferSize]
  /\ pos[1] = 0 /\ pos[dataCount' + 1] = bufferSize - freeSize'
  /\ \A k \in 1 .. dataCount' :
        /\ SizeNext(Wrap(readOffset' + pos[k])) \in Nat \ {0}
        /\ pos[k + 1] = pos[k] + FullBlockSize(SizeNext(Wrap(readOffset' + pos[k])))
  /\ \A j, k \in 1 .. dataCount' + 1 : j <= k => k - j <= pos[k] - pos[j]

LEMMA NextLayout ==
  \A pos : LayoutNext(pos) <=> Layout(pos)'
<1> SUFFICES ASSUME NEW pos PROVE LayoutNext(pos) <=> Layout(pos)'
  OBVIOUS
<1> QED
  BY DEF LayoutNext, Layout, Start, SizeAt, SizeNext, Used

LEMMA NextContentOf ==
  \A pos : Offsets' /\ LayoutNext(pos)
             => content' = [k \in 1 .. dataCount' |-> MessageNext(Wrap(readOffset' + pos[k]))]
<1>1. (\A pos : Offsets /\ Layout(pos) => content = [k \in 1 .. dataCount |-> MessageAt(Start(pos, k))])'
  BY ContentOf, PTL
<1> SUFFICES ASSUME NEW pos, Offsets', LayoutNext(pos)
             PROVE  content' = [k \in 1 .. dataCount' |-> MessageNext(Wrap(readOffset' + pos[k]))]
  OBVIOUS
<1>2. Layout(pos)'
  BY NextLayout
<1>3. content' = [k \in 1 .. dataCount' |-> MessageAt(Start(pos, k))']
  BY <1>1, <1>2
<1>4. \A k : MessageAt(Start(pos, k))' = MessageNext(Wrap(readOffset' + pos[k]))
  BY DEF MessageAt, MessageNext, SizeAt, SizeNext, Start
<1> QED
  BY <1>3, <1>4

(* The bytes of the messages lie in front of the free ones. *)
LEMMA HoldsUsed ==
  ASSUME Offsets, NEW new, NEW data, Len(data) \in Nat, FullBlockSize(Len(data)) <= freeSize,
         Holds(new, data), NEW p \in 0 .. Used - 1
  PROVE  new[Wrap(readOffset + p)] = circBuf[Wrap(readOffset + p)]
<1> DEFINE d == p - Used + bufferSize
           full == FullBlockSize(Len(data))
<1>1. full \in Nat /\ full <= freeSize /\ freeSize \in 0 .. bufferSize /\ Used = bufferSize - freeSize
      /\ bufferSize \in Nat \ {0} /\ readOffset \in 0 .. bufferSize - 1
  BY BlockBounds, WholeConstants DEF Offsets, Used, Bytes
<1> HIDE DEF full
<1>2. d \in full .. bufferSize - 1
  BY <1>1
<1>3. At(d) = Wrap(readOffset + p)
  <2>1. writeOffset = IF readOffset + Used < bufferSize THEN readOffset + Used
                      ELSE readOffset + Used - bufferSize
    BY <1>1 DEF Offsets, Wrap
  <2> QED
    BY <1>1, <2>1 DEF At, Wrap
<1> HIDE DEF d
<1> QED
  BY <1>2, <1>3 DEF Holds, full

-----------------------------------------------------------------------------
(* Steps.                                                                   *)

LEMMA SameQueue ==
  ASSUME UNCHANGED <<header, circBuf>>, Inv
  PROVE  Inv' /\ content' = content
<1>1. /\ writeOffset' = writeOffset /\ readOffset' = readOffset /\ freeSize' = freeSize
      /\ dataCount' = dataCount /\ circBuf' = circBuf
  BY DEF header
<1>2. PICK pos : Layout(pos)
  BY DEF Inv
<1>3. LayoutNext(pos)
  BY <1>1, <1>2 DEF LayoutNext, Layout, Start, SizeAt, SizeNext, Used
<1>4. Offsets /\ Offsets'
  BY <1>1 DEF Inv, Offsets, Used
<1>5. content' = [k \in 1 .. dataCount |-> MessageNext(Wrap(readOffset + pos[k]))]
  BY <1>1, <1>3, <1>4, NextContentOf
<1>6. content = [k \in 1 .. dataCount |-> MessageAt(Start(pos, k))]
  BY <1>2, <1>4, ContentOf
<1>7. \A k : MessageAt(Start(pos, k)) = MessageNext(Wrap(readOffset + pos[k]))
  BY <1>1 DEF MessageAt, MessageNext, SizeAt, SizeNext, Start
<1>8. Layout(pos)'
  BY <1>3, NextLayout
<1>9. Inv'
  BY <1>4, <1>8 DEF Inv
<1> QED
  BY <1>5, <1>6, <1>7, <1>9

LEMMA WriteStep ==
  ASSUME Inv, NEW data, IsText(data), data # <<>>, FullBlockSize(Len(data)) <= freeSize,
         Holds(circBuf', data), writeOffset' = Advance(writeOffset, Len(data)),
         Entered(Len(data)), readOffset' = readOffset
  PROVE  Inv' /\ content' = Append(content, data)
<1>1. PICK pos : Layout(pos)
  BY DEF Inv
<1>n. PICK n : n = dataCount
  OBVIOUS
<1>u. PICK u : u = Used
  OBVIOUS
<1>s. PICK size : size = Len(data)
  OBVIOUS
<1>f. PICK full : full = FullBlockSize(size)
  OBVIOUS
<1>x. PICK next : next = [k \in 1 .. n + 2 |-> IF k = n + 2 THEN u + full ELSE pos[k]]
  OBVIOUS
<1>2. Offsets
  BY DEF Inv
<1>3. /\ size \in Nat \ {0} /\ full \in Nat \ {0} /\ size + Alignment <= full /\ Whole(full)
      /\ DOMAIN data = 1 .. size
  BY <1>s, <1>f, TextLen, BlockBounds
<1>4. /\ n \in Nat /\ dataCount' = n + 1 /\ freeSize' = freeSize - full
      /\ freeSize \in 0 .. bufferSize /\ full <= freeSize /\ u = bufferSize - freeSize
      /\ bufferSize \in Nat \ {0} /\ Alignment \in Nat \ {0}
      /\ readOffset \in 0 .. bufferSize - 1 /\ writeOffset \in 0 .. bufferSize - 1
      /\ writeOffset = Wrap(readOffset + u) /\ readOffset' = readOffset
  BY <1>2, <1>n, <1>u, <1>s, <1>f, WholeConstants DEF Entered, Offsets, Bytes, Used
<1>5. /\ bufferSize - freeSize' = u + full /\ u \in 0 .. bufferSize /\ u + full \in 0 .. bufferSize
      /\ freeSize' \in 0 .. bufferSize
  BY <1>3, <1>4
<1>6. Offsets'
  <2>1. writeOffset' = Wrap(writeOffset + full) /\ writeOffset' \in Bytes
    <3>1. writeOffset \in Bytes /\ full <= bufferSize
      BY <1>2, <1>3, <1>4 DEF Offsets
    <3> QED
      BY <1>3, <1>s, <1>f, <3>1, AdvanceWraps
  <2>2. Whole(writeOffset')
    <3>1. Whole(writeOffset + full) /\ writeOffset + full \in Nat
      BY <1>2, <1>3, <1>4, WholeSum DEF Offsets
    <3> QED
      BY <2>1, <3>1, WrapWhole
  <2>3. writeOffset' = Wrap(readOffset + (u + full))
    <3>1. readOffset + u \in Nat /\ readOffset + u + full < 2 * bufferSize
      BY <1>3, <1>4, <1>5
    <3>2. Wrap(Wrap(readOffset + u) + full) = Wrap(readOffset + u + full)
      BY <1>3, <3>1, WrapWrap
    <3>3. readOffset + u + full = readOffset + (u + full)
      BY <1>3, <1>4, <1>5
    <3> QED
      BY <2>1, <1>4, <3>2, <3>3
  <2>4. circBuf' = [i \in Bytes |-> circBuf'[i]]
    BY DEF Holds
  <2>5. Used' = u + full
    BY <1>5 DEF Used
  <2>6. readOffset' \in Bytes /\ Whole(readOffset') /\ dataCount' \in Nat
    BY <1>2, <1>4 DEF Offsets
  <2>7. writeOffset' = Wrap(readOffset' + Used')
    BY <1>4, <2>3, <2>5
  <2> QED
    BY <1>5, <2>1, <2>2, <2>4, <2>6, <2>7 DEF Offsets, Wrap
<1>7. \A p \in 0 .. u - 1 : circBuf'[Wrap(readOffset + p)] = circBuf[Wrap(readOffset + p)]
  BY <1>2, <1>3, <1>4, <1>f, <1>s, <1>u, HoldsUsed
<1>8. ASSUME NEW k \in 1 .. n
      PROVE  /\ next[k] = pos[k] /\ next[k + 1] = next[k] + FullBlockSize(SizeNext(Wrap(readOffset + next[k])))
             /\ MessageNext(Wrap(readOffset + next[k])) = MessageAt(Start(pos, k))
             /\ SizeNext(Wrap(readOffset + next[k])) \in Nat \ {0}
  <2>p. PICK o : o = Start(pos, k)
    OBVIOUS
  <2>q. PICK s : s = SizeAt(o)
    OBVIOUS
  <2>1. /\ o \in Bytes /\ pos[k] \in 0 .. bufferSize /\ s \in Nat \ {0}
        /\ pos[k + 1] = pos[k] + FullBlockSize(s) /\ FullBlockSize(s) \in Nat
        /\ pos[k] + FullBlockSize(s) <= u
        /\ s + Alignment <= FullBlockSize(s)
    BY <1>1, <1>2, <1>n, <1>u, <2>p, <2>q, StartType, BlockBounds
  <2>b. PICK b : b = FullBlockSize(s)
    OBVIOUS
  <2>d. PICK d : d = pos[k]
    OBVIOUS
  <2>a. /\ d \in Nat /\ s \in Nat \ {0} /\ b \in Nat /\ d + b <= u /\ s + Alignment <= b
        /\ Alignment \in Nat \ {0} /\ u \in Nat /\ u <= bufferSize /\ bufferSize \in Nat
        /\ readOffset \in Nat /\ readOffset < bufferSize /\ o \in Nat
    BY <2>1, <2>b, <2>d, <1>4, <1>5 DEF Bytes
  <2>2. k \in 1 .. n + 2 /\ k # n + 2 /\ k + 1 \in 1 .. n + 2 /\ k + 1 # n + 2
    BY <1>4
  <2>3. next[k] = pos[k] /\ next[k + 1] = pos[k + 1]
    BY <1>x, <2>2
  <2>4. Wrap(readOffset + next[k]) = o
    BY <2>3, <2>p DEF Start
  <2>5. SizeNext(o) = s
    <3>1. d \in 0 .. u - 1
      BY <2>a
    <3> QED
      BY <1>7, <2>3, <2>4, <2>d, <2>q, <3>1 DEF SizeAt, SizeNext
  <2>6. ASSUME NEW i \in 1 .. s
        PROVE  circBuf'[Wrap(o + Alignment + i - 1)] = circBuf[Wrap(o + Alignment + i - 1)]
    <3>1. d + Alignment + i - 1 \in 0 .. u - 1
      BY <2>a
    <3>2. Wrap(o + Alignment + i - 1) = Wrap(readOffset + (d + Alignment + i - 1))
      <4>1. /\ readOffset + d \in Nat /\ Alignment + i - 1 \in Nat
            /\ readOffset + d + (Alignment + i - 1) < 2 * bufferSize
        BY <2>a
      <4>2. Wrap(Wrap(readOffset + d) + (Alignment + i - 1)) = Wrap(readOffset + d + (Alignment + i - 1))
        BY <4>1, WrapWrap
      <4>3. /\ readOffset + d + (Alignment + i - 1) = readOffset + (d + Alignment + i - 1)
            /\ o + (Alignment + i - 1) = o + Alignment + i - 1
        BY <2>a
      <4>4. Wrap(readOffset + d) = o
        BY <2>3, <2>4, <2>d
      <4> QED
        BY <4>2, <4>3, <4>4
    <3> QED
      BY <1>7, <3>1, <3>2
  <2>7. MessageNext(o) = MessageAt(o)
    BY <2>5, <2>6, <2>q DEF MessageAt, MessageNext
  <2> QED
    BY <2>1, <2>3, <2>4, <2>5, <2>7, <2>p
<1>9. /\ next[n + 1] = u /\ next[n + 2] = u + full
      /\ Wrap(readOffset + next[n + 1]) = writeOffset
      /\ SizeNext(writeOffset) = size
      /\ MessageNext(writeOffset) = data
  <2>1. n + 1 \in 1 .. n + 2 /\ n + 1 # n + 2 /\ n + 2 \in 1 .. n + 2
    BY <1>4
  <2>2. next[n + 1] = u /\ next[n + 2] = u + full
    BY <1>1, <1>n, <1>u, <1>x, <2>1 DEF Layout
  <2>3. Wrap(readOffset + next[n + 1]) = writeOffset
    BY <1>4, <2>2
  <2>4. SizeNext(writeOffset) = size
    BY <1>s DEF SizeNext, Holds
  <2>5. ASSUME NEW i \in 1 .. size
        PROVE  circBuf'[Wrap(writeOffset + Alignment + i - 1)] = data[i]
    <3>1. writeOffset + (Alignment + i - 1) = writeOffset + Alignment + i - 1
      BY <1>3, <1>4
    <3>2. circBuf'[At(Alignment + i - 1)] = data[i]
      BY <1>s DEF Holds
    <3> QED
      BY <3>1, <3>2 DEF At
  <2>6. MessageNext(writeOffset) = [i \in 1 .. size |-> data[i]]
    BY <2>4, <2>5 DEF MessageNext
  <2>7. data = [i \in 1 .. size |-> data[i]]
    BY <1>3 DEF IsText
  <2> QED
    BY <2>2, <2>3, <2>4, <2>6, <2>7
<1>10. LayoutNext(next)
  <2>1. next \in [1 .. n + 2 -> 0 .. bufferSize]
    <3>1. \A k \in 1 .. n + 1 : pos[k] \in 0 .. bufferSize
      BY <1>1, <1>n DEF Layout
    <3>2. \A k \in 1 .. n + 2 : k # n + 2 => k \in 1 .. n + 1
      BY <1>4
    <3> QED
      BY <1>5, <1>x, <3>1, <3>2
  <2>2. next[1] = 0
    <3>1. 1 \in 1 .. n + 2 /\ 1 # n + 2
      BY <1>4
    <3> QED
      BY <1>1, <1>x, <3>1 DEF Layout
  <2>3. ASSUME NEW k \in 1 .. n + 1
        PROVE  /\ SizeNext(Wrap(readOffset + next[k])) \in Nat \ {0}
               /\ next[k + 1] = next[k] + FullBlockSize(SizeNext(Wrap(readOffset + next[k])))
    <3>1. CASE k \in 1 .. n
      BY <1>8, <3>1
    <3>2. CASE k = n + 1
      <4>1. k + 1 = n + 2
        BY <1>4, <3>2
      <4> QED
        BY <1>3, <1>9, <1>f, <3>2, <4>1
    <3> QED
      BY <3>1, <3>2, <1>4
  <2>4. ASSUME NEW j \in 1 .. n + 2, NEW k \in 1 .. n + 2, j <= k
        PROVE  k - j <= next[k] - next[j]
    <3>1. \A i \in 1 .. n + 1 : next[i] = pos[i] /\ pos[i] \in 0 .. bufferSize
      <4>1. \A i \in 1 .. n + 1 : i \in 1 .. n + 2 /\ i # n + 2
        BY <1>4
      <4> QED
        BY <1>1, <1>n, <1>x, <4>1 DEF Layout
    <3>2. \A i, l \in 1 .. n + 1 : i <= l => l - i <= pos[l] - pos[i]
      BY <1>1, <1>n DEF Layout
    <3>3. CASE k \in 1 .. n + 1
      <4>1. j \in 1 .. n + 1
        BY <1>4, <2>4, <3>3
      <4> QED
        BY <2>4, <3>1, <3>2, <3>3, <4>1
    <3>4. CASE k = n + 2 /\ j = n + 2
      BY <1>3, <1>4, <1>5, <1>9, <3>4
    <3>5. CASE k = n + 2 /\ j \in 1 .. n + 1
      <4>1. n + 1 - j <= next[n + 1] - next[j]
        <5>1. n + 1 \in 1 .. n + 1 /\ j <= n + 1
          BY <1>4, <3>5
        <5>2. n + 1 - j <= pos[n + 1] - pos[j]
          BY <1>4, <3>2, <3>5, <5>1, SMTT(30)
        <5> QED
          BY <3>1, <3>5, <5>1, <5>2
      <4>2. next[j] \in 0 .. bufferSize
        BY <3>1, <3>5
      <4> QED
        BY <1>3, <1>4, <1>5, <1>9, <3>5, <4>1, <4>2
    <3> QED
      BY <1>4, <3>3, <3>4, <3>5
  <2>5. n + 2 = dataCount' + 1 /\ n + 1 = dataCount'
    BY <1>4
  <2>6. next[n + 2] = bufferSize - freeSize'
    BY <1>5, <1>9
  <2> QED
    BY <1>4, <2>1, <2>2, <2>3, <2>4, <2>5, <2>6 DEF LayoutNext
<1>11. content = [k \in 1 .. n |-> MessageAt(Start(pos, k))]
  BY <1>1, <1>2, <1>n, ContentOf
<1>12. content' = [k \in 1 .. n + 1 |-> IF k = n + 1 THEN data ELSE MessageAt(Start(pos, k))]
  <2>1. content' = [k \in 1 .. n + 1 |-> MessageNext(Wrap(readOffset + next[k]))]
    BY <1>4, <1>6, <1>10, NextContentOf
  <2>2. ASSUME NEW k \in 1 .. n + 1
        PROVE  MessageNext(Wrap(readOffset + next[k]))
                 = IF k = n + 1 THEN data ELSE MessageAt(Start(pos, k))
    <3>1. k # n + 1 => k \in 1 .. n
      BY <1>4
    <3> QED
      BY <1>8, <1>9, <3>1
  <2> QED
    BY <2>1, <2>2
<1>13. content' = Append(content, data)
  <2> DEFINE S == {MessageAt(Start(pos, k)) : k \in 1 .. n} \cup {data}
  <2>1. content \in Seq(S) /\ Len(content) = n /\ data \in S
    BY <1>4, <1>11
  <2>2. \A k \in 1 .. n : content[k] = MessageAt(Start(pos, k))
    BY <1>11
  <2> HIDE DEF S
  <2>3. Append(content, data) = [k \in 1 .. n + 1 |-> IF k = n + 1 THEN data ELSE content[k]]
    <3> DEFINE a == Append(content, data)
    <3>1. a \in Seq(S) /\ Len(a) = n + 1 /\ (\A i \in 1 .. n : a[i] = content[i]) /\ a[n + 1] = data
      BY <2>1, AppendProperties
    <3> HIDE DEF a
    <3>2. a \in [1 .. n + 1 -> S]
      BY <3>1, LenProperties
    <3>3. \A k \in 1 .. n + 1 : a[k] = IF k = n + 1 THEN data ELSE content[k]
      BY <1>4, <3>1
    <3>4. a = [k \in 1 .. n + 1 |-> a[k]]
      BY <3>2
    <3>5. a = [k \in 1 .. n + 1 |-> IF k = n + 1 THEN data ELSE content[k]]
      BY <3>3, <3>4
    <3> QED
      BY <3>5 DEF a
  <2>4. \A k \in 1 .. n + 1 : k # n + 1 => k \in 1 .. n
    BY <1>4
  <2> QED
    BY <1>12, <2>2, <2>3, <2>4
<1>14. Layout(next)'
  BY <1>10, NextLayout
<1> QED
  BY <1>6, <1>14, <1>13 DEF Inv

LEMMA ReadStep ==
  ASSUME Inv, freeSize # bufferSize,
         readOffset' = Advance(readOffset, SizeAt(readOffset)),
         freeSize' = freeSize + FullBlockSize(SizeAt(readOffset)),
         dataCount' = dataCount - 1, UNCHANGED <<writeOffset, circBuf>>
  PROVE  Inv' /\ content' = Tail(content)
<1>1. PICK pos : Layout(pos)
  BY DEF Inv
<1>n. PICK n : n = dataCount
  OBVIOUS
<1>u. PICK u : u = Used
  OBVIOUS
<1>2. Offsets
  BY DEF Inv
<1>3. n \in Nat \ {0} /\ u \in 1 .. bufferSize
  <2>1. n \in Nat /\ u \in 0 .. bufferSize /\ u # 0
    BY <1>2, <1>n, <1>u, WholeConstants DEF Offsets, Used
  <2>2. n = 0 => u = 0
    BY <1>1, <1>n, <1>u DEF Layout
  <2> QED
    BY <2>1, <2>2
<1>4. Start(pos, 1) = readOffset /\ 1 \in 1 .. n /\ pos[1] = 0
  <2>1. dataCount # 0
    BY <1>3, <1>n
  <2>2. Start(pos, 1) = readOffset
    BY <1>1, <1>2, <2>1, HeadMessageOf
  <2>3. pos[1] = 0
    BY <1>1 DEF Layout
  <2> QED
    BY <1>3, <2>2, <2>3
<1>f. PICK full : full = FullBlockSize(SizeAt(readOffset))
  OBVIOUS
<1>5. /\ full \in Nat \ {0} /\ full <= u /\ pos[2] = full /\ full <= bufferSize
      /\ readOffset' = Wrap(readOffset + full) /\ readOffset' \in Bytes /\ Whole(full)
  <2>1. /\ SizeAt(readOffset) \in Nat /\ full <= bufferSize /\ pos[1 + 1] = pos[1] + full
        /\ pos[1] + full <= u /\ full \in Nat \ {0}
    BY <1>1, <1>2, <1>4, <1>n, <1>u, <1>f, StartType
  <2>2. readOffset' = Wrap(readOffset + full) /\ readOffset' \in Bytes
    BY <1>2, <1>f, <2>1, AdvanceWraps DEF Offsets
  <2>3. Whole(full)
    BY <1>f, <2>1, BlockBounds
  <2> QED
    BY <1>4, <2>1, <2>2, <2>3
<1>x. PICK next : next = [k \in 1 .. n |-> pos[k + 1] - full]
  OBVIOUS
<1>6. /\ freeSize' \in 0 .. bufferSize /\ dataCount' = n - 1 /\ writeOffset' = writeOffset
      /\ circBuf' = circBuf /\ bufferSize - freeSize' = u - full /\ Used' = u - full
      /\ readOffset \in 0 .. bufferSize - 1 /\ bufferSize \in Nat \ {0} /\ n - 1 \in Nat
  <2>1. /\ freeSize \in 0 .. bufferSize /\ u = bufferSize - freeSize
        /\ freeSize' = freeSize + full /\ bufferSize \in Nat \ {0}
        /\ dataCount' = n - 1 /\ readOffset \in 0 .. bufferSize - 1
    BY <1>2, <1>n, <1>u, <1>f, WholeConstants DEF Offsets, Used, Bytes
  <2>2. freeSize' \in 0 .. bufferSize /\ bufferSize - freeSize' = u - full /\ n - 1 \in Nat
    BY <1>3, <1>5, <2>1
  <2>3. Used' = u - full
    BY <2>2 DEF Used
  <2> QED
    BY <2>1, <2>2, <2>3
<1>7. Offsets'
  <2>1. Whole(readOffset')
    <3>1. Whole(readOffset + full) /\ readOffset + full \in Nat
      BY <1>2, <1>5, <1>6, WholeSum DEF Offsets
    <3> QED
      BY <1>5, <3>1, WrapWhole
  <2>2. writeOffset = Wrap(readOffset' + (u - full))
    <3>1. /\ readOffset + full \in Nat /\ u - full \in Nat
          /\ readOffset + full + (u - full) < 2 * bufferSize
      BY <1>3, <1>5, <1>6
    <3>2. Wrap(Wrap(readOffset + full) + (u - full)) = Wrap(readOffset + full + (u - full))
      BY <3>1, WrapWrap
    <3>3. readOffset + full + (u - full) = readOffset + u
      BY <1>3, <1>5, <1>6
    <3>4. writeOffset = Wrap(readOffset + u)
      BY <1>2, <1>u DEF Offsets
    <3> QED
      BY <1>5, <3>2, <3>3, <3>4
  <2>3. writeOffset' = Wrap(readOffset' + Used')
    BY <1>6, <2>2
  <2>4. circBuf' = [i \in Bytes |-> circBuf'[i]]
    BY <1>2, <1>6 DEF Offsets
  <2>5. writeOffset' \in Bytes /\ Whole(writeOffset') /\ dataCount' \in Nat
    BY <1>2, <1>6 DEF Offsets
  <2> QED
    BY <1>5, <1>6, <2>1, <2>3, <2>4, <2>5 DEF Offsets, Wrap
<1>8. ASSUME NEW k \in 1 .. n
      PROVE  /\ next[k] = pos[k + 1] - full /\ pos[k + 1] \in full .. bufferSize
             /\ Wrap(readOffset' + next[k]) = Wrap(readOffset + pos[k + 1])
  <2>1. k + 1 \in 1 .. n + 1 /\ 2 \in 1 .. n + 1 /\ 2 <= k + 1
    BY <1>3
  <2>2. pos[k + 1] \in 0 .. bufferSize /\ (k + 1) - 2 <= pos[k + 1] - pos[2]
    BY <1>1, <1>n, <2>1 DEF Layout
  <2>p. PICK p : p = pos[k + 1]
    OBVIOUS
  <2>3. p \in full .. bufferSize
    BY <1>5, <1>6, <2>1, <2>2, <2>p
  <2>4. /\ readOffset + full \in Nat /\ p - full \in Nat
        /\ readOffset + full + (p - full) < 2 * bufferSize
    BY <1>5, <1>6, <2>3
  <2>5. Wrap(Wrap(readOffset + full) + (p - full)) = Wrap(readOffset + full + (p - full))
    BY <2>4, WrapWrap
  <2>6. readOffset + full + (p - full) = readOffset + p
    BY <1>5, <1>6, <2>3
  <2>7. next[k] = p - full
    BY <1>x, <2>p
  <2> QED
    BY <1>5, <2>3, <2>5, <2>6, <2>7, <2>p
<1>9. ASSUME NEW k \in 1 .. n - 1
      PROVE  /\ k + 1 \in 1 .. n /\ Wrap(readOffset' + next[k]) = Start(pos, k + 1)
             /\ MessageNext(Wrap(readOffset' + next[k])) = MessageAt(Start(pos, k + 1))
             /\ SizeNext(Wrap(readOffset' + next[k])) \in Nat \ {0}
             /\ next[k + 1] = next[k] + FullBlockSize(SizeNext(Wrap(readOffset' + next[k])))
  <2>1. k \in 1 .. n /\ k + 1 \in 1 .. n
    BY <1>3
  <2>2. Wrap(readOffset' + next[k]) = Start(pos, k + 1)
    BY <1>8, <2>1 DEF Start
  <2>o. PICK o : o = Start(pos, k + 1)
    OBVIOUS
  <2>3. SizeNext(o) = SizeAt(o) /\ MessageNext(o) = MessageAt(o)
    BY <1>6 DEF SizeNext, SizeAt, MessageNext, MessageAt
  <2>4. /\ SizeAt(o) \in Nat \ {0} /\ FullBlockSize(SizeAt(o)) \in Nat
        /\ pos[(k + 1) + 1] = pos[k + 1] + FullBlockSize(SizeAt(o))
        /\ pos[k + 1] \in Nat
    BY <1>1, <1>2, <1>n, <2>1, <2>o, StartType
  <2>b. PICK b : b = FullBlockSize(SizeAt(o))
    OBVIOUS
  <2>5. next[k + 1] = next[k] + b
    <3>1. next[k] = pos[k + 1] - full /\ next[k + 1] = pos[(k + 1) + 1] - full
      BY <1>8, <2>1
    <3> QED
      BY <1>5, <2>4, <2>b, <3>1
  <2> QED
    BY <2>1, <2>2, <2>3, <2>4, <2>5, <2>b, <2>o
<1>10. LayoutNext(next)
  <2>1. next \in [1 .. n -> 0 .. bufferSize]
    <3>1. \A k \in 1 .. n : next[k] \in 0 .. bufferSize
      BY <1>5, <1>6, <1>8
    <3> QED
      BY <1>x, <3>1
  <2>2. next[1] = 0
    BY <1>4, <1>5, <1>8
  <2>3. next[n] = u - full
    <3>1. n \in 1 .. n /\ pos[n + 1] = u
      BY <1>1, <1>3, <1>n, <1>u DEF Layout
    <3> QED
      BY <1>8, <3>1
  <2>4. ASSUME NEW j \in 1 .. n, NEW k \in 1 .. n, j <= k
        PROVE  k - j <= next[k] - next[j]
    <3>1. j + 1 \in 1 .. n + 1 /\ k + 1 \in 1 .. n + 1 /\ j + 1 <= k + 1
      BY <1>3, <2>4
    <3>2. (k + 1) - (j + 1) <= pos[k + 1] - pos[j + 1]
      BY <1>1, <1>n, <3>1 DEF Layout
    <3>3. /\ next[k] = pos[k + 1] - full /\ next[j] = pos[j + 1] - full
          /\ pos[k + 1] \in Nat /\ pos[j + 1] \in Nat
      BY <1>5, <1>8
    <3>p. PICK p, q : p = pos[k + 1] /\ q = pos[j + 1]
      OBVIOUS
    <3>4. k - j <= p - q /\ (p - full) - (q - full) = p - q
      BY <1>3, <1>5, <3>2, <3>3, <3>p
    <3> QED
      BY <3>3, <3>4, <3>p
  <2>5. dataCount' + 1 = n
    BY <1>3, <1>6
  <2> QED
    BY <1>6, <1>9, <2>1, <2>2, <2>3, <2>4, <2>5 DEF LayoutNext
<1>11. content = [k \in 1 .. n |-> MessageAt(Start(pos, k))]
  BY <1>1, <1>2, <1>n, ContentOf
<1>12. content' = [k \in 1 .. n - 1 |-> MessageAt(Start(pos, k + 1))]
  <2>1. content' = [k \in 1 .. n - 1 |-> MessageNext(Wrap(readOffset' + next[k]))]
    BY <1>6, <1>7, <1>10, NextContentOf
  <2> QED
    BY <1>9, <2>1
<1>13. content' = Tail(content)
  <2> DEFINE S == {MessageAt(Start(pos, k)) : k \in 1 .. n}
             a == Tail(content)
  <2>1. content \in Seq(S) /\ Len(content) = n
    BY <1>3, <1>11
  <2> HIDE DEF S
  <2>2. content # <<>>
    BY <1>3, <2>1
  <2>3. a \in Seq(S) /\ Len(a) = n - 1 /\ \A i \in 1 .. n - 1 : a[i] = content[i + 1]
    BY <2>1, <2>2, HeadTailProperties
  <2> HIDE DEF a
  <2>4. a \in [1 .. n - 1 -> S]
    BY <2>3, LenProperties
  <2>5. \A k \in 1 .. n - 1 : content[k + 1] = MessageAt(Start(pos, k + 1))
    BY <1>9, <1>11
  <2>6. a = [k \in 1 .. n - 1 |-> a[k]]
    BY <2>4
  <2>7. a = [k \in 1 .. n - 1 |-> MessageAt(Start(pos, k + 1))]
    BY <2>3, <2>5, <2>6
  <2> QED
    BY <1>12, <2>7 DEF a
<1>14. Layout(next)'
  BY <1>10, NextLayout
<1> QED
  BY <1>7, <1>14, <1>13 DEF Inv

(* An empty buffer, after circbuf_alloc and circbuf_reset. *)
Empty ==
  /\ writeOffset = 0 /\ readOffset = 0 /\ freeSize = bufferSize /\ dataCount = 0
  /\ circBuf = [i \in Bytes |-> circBuf[i]]

LEMMA EmptyInv == Empty => Inv /\ content = <<>>
<1> SUFFICES ASSUME Empty PROVE Inv /\ content = <<>>
  OBVIOUS
<1>1. PICK pos : pos = [k \in 1 .. 1 |-> 0]
  OBVIOUS
<1>2. Used = 0 /\ Wrap(0) = 0 /\ 0 \in Bytes
  BY WholeConstants DEF Empty, Used, Wrap, Bytes
<1>3. Offsets
  BY <1>2, WholeConstants DEF Empty, Offsets
<1>4. Layout(pos)
  BY <1>1, <1>2, WholeConstants DEF Empty, Layout
<1>5. content = [k \in 1 .. 0 |-> MessageAt(Start(pos, k))]
  BY <1>3, <1>4, ContentOf DEF Empty
<1>6. content = <<>>
  BY <1>5
<1> QED
  BY <1>3, <1>4, <1>6 DEF Inv

LEMMA NextEmptyInv == Empty' => Inv' /\ content' = <<>>
<1>1. (Empty => Inv /\ content = <<>>)'
  BY EmptyInv, PTL
<1> QED
  BY <1>1

LEMMA InitInv ==
  ASSUME Init
  PROVE  Inv /\ content = <<>>
BY EmptyInv DEF Init, Empty

-----------------------------------------------------------------------------
(* Every step is one that the promise allows.                               *)

Texts == (Message \cup {p[1] \o p[2] : p \in Pair}) \ {<<>>}

LEMMA RefuseStep ==
  ASSUME Inv, NEW code, Refuse(code)
  PROVE  Inv' /\ content' = content /\ returned' = <<code, <<>>>>
BY SameQueue DEF Refuse

LEMMA WriteBlockStep ==
  ASSUME Inv, NEW data \in Texts, IsText(data), NEW mem,
         FullBlockSize(Len(data)) <= freeSize => Holds(mem, data), WriteBlock(data, mem)
  PROVE  Inv' /\ Fifo!Write(data)
<1>1. data # <<>> /\ Len(data) \in Nat
  BY TextLen DEF Texts
<1>2. Fifo!Room = freeSize
  BY RoomOf DEF Inv
<1>3. FullBlockSize(Len(data)) \in Nat /\ freeSize \in Nat
  BY <1>1, BlockBounds, WholeConstants DEF Inv, Offsets
<1>4. CASE FullBlockSize(Len(data)) > freeSize
  <2>1. Refuse("OutOfMem") /\ ~(FullBlockSize(Len(data)) <= freeSize)
    BY <1>3, <1>4 DEF WriteBlock
  <2>2. Inv' /\ content' = content /\ returned' = <<"OutOfMem", <<>>>>
    BY <2>1, RefuseStep
  <2> QED
    BY <1>2, <2>1, <2>2 DEF Fifo!Write
<1>5. CASE ~(FullBlockSize(Len(data)) > freeSize)
  <2>1. FullBlockSize(Len(data)) <= freeSize
    BY <1>3, <1>5
  <2>2. /\ circBuf' = mem /\ writeOffset' = Advance(writeOffset, Len(data))
        /\ Entered(Len(data)) /\ returned' = <<"Ok", data>> /\ readOffset' = readOffset
    BY <1>5 DEF WriteBlock
  <2>3. Inv' /\ content' = Append(content, data)
    BY <1>1, <2>1, <2>2, WriteStep
  <2> QED
    BY <1>2, <2>1, <2>2, <2>3 DEF Fifo!Write
<1> QED
  BY <1>4, <1>5

LEMMA WriteDataStep ==
  ASSUME Inv, NEW m \in Message, circbuf_writeData(m)
  PROVE  Inv' /\ [Fifo!Next]_Fifo!vars
<1>1. CASE m = <<>>
  <2>1. Inv' /\ Fifo!Nothing
    BY <1>1, RefuseStep DEF circbuf_writeData, Fifo!Nothing
  <2> QED
    BY <2>1 DEF Fifo!Next
<1>2. CASE m # <<>>
  <2>1. m \in Texts /\ IsText(m)
    BY <1>2, CircBufAssumption DEF Texts
  <2>2. FullBlockSize(Len(m)) <= freeSize => Holds(Stored(m), m)
    BY <2>1, StoredHolds DEF Inv
  <2>3. WriteBlock(m, Stored(m))
    BY <1>2 DEF circbuf_writeData
  <2>4. Inv' /\ Fifo!Write(m)
    BY <2>1, <2>2, <2>3, WriteBlockStep
  <2> QED
    BY <2>1, <2>4 DEF Fifo!Next, Texts
<1> QED
  BY <1>1, <1>2

LEMMA WriteMultipleDataStep ==
  ASSUME Inv, NEW p \in Pair, circbuf_writeMultipleData(p[1], p[2])
  PROVE  Inv' /\ [Fifo!Next]_Fifo!vars
<1>0. IsText(p[1]) /\ IsText(p[2])
  BY CircBufAssumption
<1>1. CASE p[1] = <<>> \/ p[2] = <<>>
  <2>1. Inv' /\ Fifo!Nothing
    BY <1>1, RefuseStep DEF circbuf_writeMultipleData, Fifo!Nothing
  <2> QED
    BY <2>1 DEF Fifo!Next
<1>2. CASE ~(p[1] = <<>> \/ p[2] = <<>>)
  <2> DEFINE d == p[1] \o p[2]
             S == {p[1][i] : i \in DOMAIN p[1]} \cup {p[2][i] : i \in DOMAIN p[2]}
  <2>1. d \in Seq(S) /\ Len(d) # 0
    <3>1. p[1] \in Seq(S) /\ p[2] \in Seq(S) /\ p[1] # <<>>
      BY <1>0, <1>2 DEF IsText
    <3> HIDE DEF S
    <3>2. Len(d) = Len(p[1]) + Len(p[2]) /\ d \in Seq(S)
      BY <3>1, ConcatProperties
    <3>3. Len(p[1]) \in Nat \ {0} /\ Len(p[2]) \in Nat
      BY <3>1
    <3>4. PICK i, j : i = Len(p[1]) /\ j = Len(p[2])
      OBVIOUS
    <3>5. i \in Nat \ {0} /\ j \in Nat
      BY <3>3, <3>4
    <3>6. i + j # 0
      BY <3>5
    <3>7. Len(d) = i + j
      BY <3>2, <3>4, Zenon
    <3> QED
      BY <3>2, <3>6, <3>7, Zenon
  <2>2. d \in Texts /\ IsText(d)
    <3> HIDE DEF S
    <3>1. d # <<>>
      <4> HIDE DEF d
      <4> QED
        BY <2>1
    <3>2. IsText(d)
      <4> HIDE DEF d
      <4> QED
        BY <2>1 DEF IsText
    <3> QED
      BY <3>1, <3>2 DEF Texts
  <2>3. FullBlockSize(Len(d)) <= freeSize => Holds(StoredPair(p[1], p[2]), d)
    BY <1>0, StoredPairHolds DEF Inv
  <2>4. WriteBlock(d, StoredPair(p[1], p[2]))
    BY <1>2 DEF circbuf_writeMultipleData
  <2> HIDE DEF d
  <2>5. Inv' /\ Fifo!Write(d)
    BY <2>2, <2>3, <2>4, WriteBlockStep
  <2> QED
    BY <2>2, <2>5 DEF Fifo!Next, Texts
<1> QED
  BY <1>1, <1>2

LEMMA ReadDataStep ==
  ASSUME Inv, NEW size \in ReadSize, circbuf_readData(size)
  PROVE  Inv' /\ [Fifo!Next]_Fifo!vars
<1>1. CASE size = 0
  <2>1. Inv' /\ Fifo!Nothing
    BY <1>1, RefuseStep DEF circbuf_readData, Fifo!Nothing
  <2> QED
    BY <2>1 DEF Fifo!Next
<1>p. PICK pos : Layout(pos)
  BY DEF Inv
<1>o. Offsets
  BY DEF Inv
<1>q. content = [k \in 1 .. dataCount |-> MessageAt(Start(pos, k))]
  BY <1>p, <1>o, ContentOf
<1>e. (freeSize = bufferSize <=> dataCount = 0) /\ (content = <<>> <=> dataCount = 0)
  <2>1. (content = <<>> <=> dataCount = 0) /\ dataCount \in Nat
    BY <1>o, <1>q, LenOf DEF Offsets
  <2>2. dataCount = 0 => freeSize = bufferSize
    <3> SUFFICES ASSUME dataCount = 0 PROVE freeSize = bufferSize
      OBVIOUS
    <3>1. dataCount + 1 = 1
      OBVIOUS
    <3>2. Used = 0
      BY <1>p, <3>1 DEF Layout
    <3> QED
      BY <1>o, <3>2, WholeConstants DEF Used, Offsets
  <2>3. freeSize = bufferSize => dataCount = 0
    <3>1. freeSize = bufferSize => Used = 0
      BY WholeConstants DEF Used
    <3>2. dataCount # 0 => pos[1] + FullBlockSize(SizeAt(Start(pos, 1))) <= Used
          /\ FullBlockSize(SizeAt(Start(pos, 1))) \in Nat \ {0} /\ pos[1] = 0
      <4> SUFFICES ASSUME dataCount # 0
                   PROVE  pos[1] + FullBlockSize(SizeAt(Start(pos, 1))) <= Used
                          /\ FullBlockSize(SizeAt(Start(pos, 1))) \in Nat \ {0} /\ pos[1] = 0
        OBVIOUS
      <4>1. 1 \in 1 .. dataCount
        BY <2>1
      <4>2. pos[1] = 0
        BY <1>p DEF Layout
      <4> QED
        BY <1>p, <1>o, <4>1, <4>2, StartType
    <3> QED
      BY <3>1, <3>2
  <2> QED
    BY <2>1, <2>2, <2>3
<1>2. CASE size # 0 /\ freeSize = bufferSize
  <2>1. Inv' /\ content' = content /\ returned' = <<"NoReadableData", <<>>>>
    BY <1>2, RefuseStep DEF circbuf_readData
  <2>2. Fifo!Read(size)
    BY <1>2, <1>e, <2>1 DEF Fifo!Read
  <2> QED
    BY <2>1, <2>2 DEF Fifo!Next
<1>3. CASE size # 0 /\ freeSize # bufferSize
  <2>1. dataCount # 0 /\ content # <<>>
    BY <1>3, <1>e
  <2>2. /\ SizeAt(readOffset) \in Nat \ {0} /\ Start(pos, 1) = readOffset
        /\ HeadMessage(SizeAt(readOffset)) = MessageAt(readOffset)
    BY <1>p, <1>o, <2>1, HeadMessageOf
  <2>3. 1 \in 1 .. dataCount
    BY <1>o, <2>1 DEF Offsets
  <2>4. Head(content) = MessageAt(readOffset) /\ Len(Head(content)) = SizeAt(readOffset)
    <3>1. Head(content) = content[1]
      BY <1>q, <2>1, <1>o DEF Offsets
    <3>2. content[1] = MessageAt(readOffset)
      BY <1>q, <2>2, <2>3
    <3>3. Len(MessageAt(readOffset)) = SizeAt(readOffset)
      BY <1>p, <1>o, <2>2, <2>3, MessageLen
    <3> QED
      BY <3>1, <3>2, <3>3
  <2>5. CASE SizeAt(readOffset) > size
    <3>1. Refuse("ReadsizeTooSmall")
      BY <1>3, <2>5 DEF circbuf_readData
    <3>2. Inv' /\ content' = content /\ returned' = <<"ReadsizeTooSmall", <<>>>>
      BY <3>1, RefuseStep
    <3>3. Fifo!Read(size)
      BY <2>1, <2>4, <2>5, <3>2 DEF Fifo!Read
    <3> QED
      BY <3>2, <3>3 DEF Fifo!Next
  <2>6. CASE ~(SizeAt(readOffset) > size)
    <3>1. /\ returned' = <<"Ok", HeadMessage(SizeAt(readOffset))>>
          /\ readOffset' = Advance(readOffset, SizeAt(readOffset))
          /\ freeSize' = freeSize + FullBlockSize(SizeAt(readOffset))
          /\ dataCount' = dataCount - 1
          /\ UNCHANGED <<writeOffset, circBuf>>
      BY <1>3, <2>6 DEF circbuf_readData
    <3>2. Inv' /\ content' = Tail(content)
      BY <1>3, <3>1, ReadStep
    <3>3. Fifo!Read(size)
      BY <2>1, <2>2, <2>4, <2>6, <3>1, <3>2 DEF Fifo!Read
    <3> QED
      BY <3>2, <3>3 DEF Fifo!Next
  <2> QED
    BY <2>5, <2>6
<1> QED
  BY <1>1, <1>2, <1>3

LEMMA ResetStep ==
  ASSUME Inv, circbuf_reset
  PROVE  Inv' /\ [Fifo!Next]_Fifo!vars
<1>1. Empty'
  BY DEF circbuf_reset, Empty, Inv, Offsets
<1>2. Inv' /\ content' = <<>>
  BY <1>1, NextEmptyInv
<1>3. Fifo!Reset
  BY <1>2 DEF circbuf_reset, Fifo!Reset
<1> QED
  BY <1>2, <1>3 DEF Fifo!Next

LEMMA StepCorrect == Inv /\ [Next]_vars => Inv' /\ [Fifo!Next]_Fifo!vars
<1> SUFFICES ASSUME Inv, [Next]_vars PROVE Inv' /\ [Fifo!Next]_Fifo!vars
  OBVIOUS
<1>1. ASSUME NEW m \in Message, circbuf_writeData(m) PROVE Inv' /\ [Fifo!Next]_Fifo!vars
  BY <1>1, WriteDataStep
<1>2. ASSUME NEW p \in Pair, circbuf_writeMultipleData(p[1], p[2]) PROVE Inv' /\ [Fifo!Next]_Fifo!vars
  BY <1>2, WriteMultipleDataStep
<1>3. ASSUME NEW size \in ReadSize, circbuf_readData(size) PROVE Inv' /\ [Fifo!Next]_Fifo!vars
  BY <1>3, ReadDataStep
<1>4. ASSUME circbuf_reset PROVE Inv' /\ [Fifo!Next]_Fifo!vars
  BY <1>4, ResetStep
<1>5. ASSUME UNCHANGED vars PROVE Inv' /\ [Fifo!Next]_Fifo!vars
  <2>1. Inv' /\ content' = content /\ returned' = returned
    BY <1>5, SameQueue DEF vars
  <2> QED
    BY <2>1 DEF Fifo!vars
<1> QED
  BY <1>1, <1>2, <1>3, <1>4, <1>5 DEF Next

(* No byte is ever written outside of the buffer and the header stays      *)
(* within it, for messages of every size and every size of the buffer.     *)
THEOREM TypeCorrect == Spec => []TypeOK
<1>1. Init => Inv
  BY InitInv
<1>2. Inv /\ [Next]_vars => Inv'
  BY StepCorrect
<1> QED
  BY <1>1, <1>2, InvType, PTL DEF Spec

(* The buffer is a FIFO: whatever is written comes out as it went in, in   *)
(* order and once, and a message is refused exactly when it has no room.   *)
THEOREM ImplementsFifoCorrect == Spec => ImplementsFifo
<1>1. Init => Inv /\ Fifo!Init
  <2>1. Init => Inv /\ content = <<>>
    BY InitInv
  <2> QED
    BY <2>1 DEF Init, Fifo!Init
<1>2. Inv /\ [Next]_vars => Inv' /\ [Fifo!Next]_Fifo!vars
  BY StepCorrect
<1> QED
  BY <1>1, <1>2, PTL DEF Spec, ImplementsFifo, Fifo!Spec

-----------------------------------------------------------------------------
(* The triple buffer of a PDO channel.                                      *)

\* Only the buffer that the producer writes to is ever incomplete, and only while it copies.
Complete ==
    /\ \A b \in Buf : b # writeBuf => pdo[b].first = pdo[b].second
    /\ producer # "copying" => pdo[writeBuf].first = pdo[writeBuf].second

\* What the consumer has copied belongs to the buffer that it still owns.
CopyKnown ==
    /\ consumer = "copying" => copy.first = pdo[readBuf].first
    /\ consumer # "copying" => copy.first = copy.second

\* The PDO that is being written is newer than all others.
Ordered ==
    /\ producer \in {"copying", "copied"} => pdo[writeBuf].first = written
    /\ \A b \in Buf : pdo[b].first <= written
    /\ \A b \in Buf : producer \in {"copying", "copied"} /\ b # writeBuf => pdo[b].first < written

\* What an exchange of the consumer can fetch.
CleanKnown ==
    /\ given # NoBuf => given = cleanBuf /\ pdo[given].first = previous
    /\ given = NoBuf /\ (newData \/ consumer = "exchange" \/ producer = "offered")
         => pdo[cleanBuf].first > Shown

PdoInv == PdoTypeOK /\ Separate /\ Complete /\ CopyKnown /\ Ordered /\ CleanKnown

-----------------------------------------------------------------------------
LEMMA PdoInitInv == PdoInit => PdoInv
<1> SUFFICES ASSUME PdoInit PROVE PdoInv
  OBVIOUS
<1> USE MaxWritesAssumption DEF PdoInit, Buf, NoBuf, Written
<1>1. PdoTypeOK
  <2>1. 0 \in Written /\ 0 \in Buf /\ 1 \in Buf /\ 2 \in Buf
    OBVIOUS
  <2>2. pdo \in [Buf -> [first : Written, second : Written]] /\ copy \in [first : Written, second : Written]
    BY <2>1, Zenon
  <2>3. /\ readBuf \in Buf /\ writeBuf \in Buf /\ cleanBuf \in Buf /\ newData \in BOOLEAN
        /\ producer \in {"idle", "copying", "copied", "offered"} /\ written \in Written
        /\ consumer \in {"idle", "exchange", "fetched", "reading", "copying"}
        /\ given \in Buf \cup {NoBuf} /\ previous \in Written
    BY <2>1, Zenon
  <2> QED
    BY <2>2, <2>3, Zenon DEF PdoTypeOK
<1>2. Separate /\ Complete /\ CopyKnown
  BY DEF Separate, Complete, CopyKnown
<1>3. Ordered /\ CleanKnown
  BY DEF Ordered, CleanKnown, Shown
<1> QED
  BY <1>1, <1>2, <1>3 DEF PdoInv

LEMMA ProducerInv == PdoInv /\ Producer => PdoInv'
<1> SUFFICES ASSUME PdoInv, Producer PROVE PdoInv'
  OBVIOUS
<1> USE MaxWritesAssumption
    DEF PdoInv, PdoTypeOK, Buf, NoBuf, Written, channelInfo, producerVars, consumerVars, history
<1>1. CASE CopyIn
  <2>1. PdoTypeOK'
    BY <1>1 DEF CopyIn
  <2>2. Separate' /\ Complete' /\ CopyKnown'
    BY <1>1 DEF CopyIn, Separate, Complete, CopyKnown
  <2>3. Ordered'
    BY <1>1 DEF CopyIn, Ordered, Separate
  <2>4. CleanKnown'
    BY <1>1 DEF CopyIn, CleanKnown, Separate, Shown
  <2> QED
    BY <2>1, <2>2, <2>3, <2>4
<1>2. CASE CopyInRest
  <2>1. PdoTypeOK'
    BY <1>2 DEF CopyInRest
  <2>2. Separate' /\ Complete' /\ CopyKnown'
    BY <1>2 DEF CopyInRest, Separate, Complete, CopyKnown, Ordered
  <2>3. Ordered'
    BY <1>2 DEF CopyInRest, Ordered
  <2>4. CleanKnown'
    BY <1>2 DEF CopyInRest, CleanKnown, Shown
  <2> QED
    BY <2>1, <2>2, <2>3, <2>4
<1>3. CASE Offer
  <2>1. PdoTypeOK'
    BY <1>3 DEF Offer
  <2>2. Separate' /\ Complete' /\ CopyKnown'
    BY <1>3 DEF Offer, Separate, Complete, CopyKnown
  <2>3. Ordered'
    BY <1>3 DEF Offer, Ordered
  <2>4. CleanKnown'
    \* the PDO just written is newer than the one that the consumer sees
    BY <1>3 DEF Offer, CleanKnown, Ordered, Separate, Shown
  <2> QED
    BY <2>1, <2>2, <2>3, <2>4
<1>4. CASE SetNewData
  <2>1. PdoTypeOK' /\ Separate' /\ Complete' /\ CopyKnown' /\ Ordered'
    BY <1>4 DEF SetNewData, Separate, Complete, CopyKnown, Ordered
  <2>2. CleanKnown'
    BY <1>4 DEF SetNewData, CleanKnown, Shown
  <2> QED
    BY <2>1, <2>2
<1> QED
  BY <1>1, <1>2, <1>3, <1>4 DEF Producer

LEMMA ConsumerInv == PdoInv /\ Consumer => PdoInv'
<1> SUFFICES ASSUME PdoInv, Consumer PROVE PdoInv'
  OBVIOUS
<1> USE MaxWritesAssumption
    DEF PdoInv, PdoTypeOK, Buf, NoBuf, Written, channelInfo, producerVars, consumerVars, history
<1>1. CASE CheckNewData
  BY <1>1 DEF CheckNewData, Separate, Complete, CopyKnown, Ordered, CleanKnown, Shown
<1>2. CASE Fetch
  <2>1. PdoTypeOK' /\ Separate'
    BY <1>2 DEF Fetch, Separate
  <2>2. Complete' /\ CopyKnown' /\ Ordered'
    BY <1>2 DEF Fetch, Complete, CopyKnown, Ordered
  <2>3. CleanKnown'
    \* the buffer it gives back is cleanBuf now, with the PDO it has just shown
    BY <1>2 DEF Fetch, CleanKnown
  <2> QED
    BY <2>1, <2>2, <2>3
<1>3. CASE ClearNewData
  BY <1>3 DEF ClearNewData, Separate, Complete, CopyKnown, Ordered, CleanKnown, Shown
<1>4. CASE CopyOut
  BY <1>4 DEF CopyOut, Separate, Complete, CopyKnown, Ordered, CleanKnown, Shown
<1>5. CASE CopyOutRest
  <2>1. copy'.first = copy'.second
    \* both parts are from one buffer, which is complete and not the producer's
    BY <1>5 DEF CopyOutRest, CopyKnown, Complete, Separate
  <2> QED
    BY <1>5, <2>1 DEF CopyOutRest, Separate, Complete, CopyKnown, Ordered, CleanKnown, Shown
<1> QED
  BY <1>1, <1>2, <1>3, <1>4, <1>5 DEF Consumer

LEMMA PdoStutterInv == PdoInv /\ UNCHANGED pdoVars => PdoInv'
BY DEF PdoInv, PdoTypeOK, Separate, Complete, CopyKnown, Ordered, CleanKnown, Shown,
       pdoVars, channelInfo, producerVars, consumerVars, history

LEMMA PdoInvariance == PdoSpec => []PdoInv
<1>1. PdoInv /\ [PdoNext]_pdoVars => PdoInv'
  BY ProducerInv, ConsumerInv, PdoStutterInv DEF PdoNext
<1> QED
  BY PdoInitInv, <1>1, PTL DEF PdoSpec

-----------------------------------------------------------------------------
\* The types of the variables, whatever MaxWrites.
THEOREM PdoTypeCorrect == PdoSpec => []PdoTypeOK
<1>1. PdoInv => PdoTypeOK
  BY DEF PdoInv
<1> QED
  BY PdoInvariance, <1>1, PTL

\* Producer and consumer never own the same buffer.
THEOREM SeparateCorrect == PdoSpec => []Separate
<1>1. PdoInv => Separate
  BY DEF PdoInv
<1> QED
  BY PdoInvariance, <1>1, PTL

\* The consumer never gets parts of two PDOs.
THEOREM NotTornCorrect == PdoSpec => []NotTorn
<1>1. PdoInv => NotTorn
  BY DEF PdoInv, NotTorn, CopyKnown
<1> QED
  BY PdoInvariance, <1>1, PTL

\* An exchange goes back by one PDO at most.
THEOREM AtMostOneBackCorrect == PdoSpec => AtMostOneBack
<1>1. PdoInv /\ [PdoNext]_pdoVars
        => [readBuf' # readBuf => pdo[readBuf'].first > Shown \/ pdo[readBuf'].first = previous]_pdoVars
  <2> SUFFICES ASSUME PdoInv, PdoNext, readBuf' # readBuf
               PROVE pdo[readBuf'].first > Shown \/ pdo[readBuf'].first = previous
    BY DEF pdoVars, channelInfo
  <2>1. Fetch
    BY DEF PdoNext, Producer, Consumer, CopyIn, CopyInRest, Offer, SetNewData,
           CheckNewData, ClearNewData, CopyOut, CopyOutRest, channelInfo
  <2>2. CASE given = NoBuf
    BY <2>1, <2>2 DEF Fetch, PdoInv, CleanKnown
  <2>3. CASE given # NoBuf
    BY <2>1, <2>3 DEF Fetch, PdoInv, CleanKnown
  <2> QED
    BY <2>2, <2>3
<1> QED
  BY PdoInvariance, <1>1, PTL DEF PdoSpec, AtMostOneBack
=============================================================================

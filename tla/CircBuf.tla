------------------------------ MODULE CircBuf ------------------------------
(***************************************************************************)
(* The circular buffer library (stack/src/common/circbuf/circbuffer.c)     *)
(* that all event queues and asynchronous frame queues are made of.        *)
(*                                                                         *)
(* A message is stored as its size (a UINT32) and its bytes, padded to a   *)
(* multiple of CIRCBUF_BLOCK_ALIGNMENT.  It may wrap around the end of the *)
(* buffer behind the size.  Every function works under the lock of the     *)
(* buffer, so it is one step; circbuf_getDataCount reads dataCount without *)
(* the lock, which is one access.                                          *)
(***************************************************************************)
EXTENDS Integers, Sequences

CONSTANTS Alignment,   \* CIRCBUF_BLOCK_ALIGNMENT = sizeof(UINT32)
          Size,        \* the size that circbuf_alloc is asked for
          Message,     \* messages that are written in one piece, sequences of bytes
          Pair,        \* pairs of pieces that are written as one message
          ReadSize,    \* sizes of a reader's destination
          Unused       \* content of memory never written

\* A finite sequence, of whatever bytes.
IsText(m) == m \in Seq({m[i] : i \in DOMAIN m})

ASSUME CircBufAssumption ==
    /\ Alignment \in Nat \ {0} /\ Size \in Nat \ {0} /\ ReadSize \subseteq Nat
    /\ \A m \in Message : IsText(m)
    /\ \A p \in Pair : DOMAIN p = {1, 2} /\ IsText(p[1]) /\ IsText(p[2])

VARIABLES
    writeOffset, readOffset, freeSize, dataCount,  \* tCircBufHeader
    circBuf,                                       \* the bytes of the buffer
    returned       \* the last call: its error code and the message that it moved

header == <<writeOffset, readOffset, freeSize, dataCount>>
vars == <<header, circBuf, returned>>

\* Round up to the next multiple of the alignment.
Aligned(size) == ((size + Alignment - 1) \div Alignment) * Alignment

bufferSize == Aligned(Size)
FullBlockSize(size) == Aligned(size) + Alignment

Bytes == 0 .. bufferSize - 1

-----------------------------------------------------------------------------
(* Memory.                                                                 *)

\* memcpy, which looks at no bound.
Memcpy(mem, offset, data) ==
    [i \in DOMAIN mem \cup offset .. offset + Len(data) - 1 |->
        IF i \in offset .. offset + Len(data) - 1 THEN data[i - offset + 1] ELSE mem[i]]

\* The bytes of a size.
UInt32(size) == [i \in 1 .. Alignment |-> <<"size", size>>]
SizeAt(offset) == circBuf[offset][2]

Chunk(offset, size) == [i \in 1 .. size |-> circBuf[offset + i - 1]]

Part(data, first, last) == SubSeq(data, first, last)

-----------------------------------------------------------------------------
\* circbuf_alloc
Init ==
    /\ writeOffset = 0 /\ readOffset = 0 /\ freeSize = bufferSize /\ dataCount = 0
    /\ circBuf = [i \in Bytes |-> Unused]
    /\ returned = <<"Ok", <<>>>>

\* The offset behind a block, with and without wrapping.
BadAdvance(offset, size) ==
    IF offset + FullBlockSize(size) <= bufferSize THEN offset + FullBlockSize(size)
    ELSE Aligned(size) - (bufferSize - offset - Alignment)

Advance(offset, size) ==
    IF offset + FullBlockSize(size) = bufferSize THEN 0
    ELSE IF offset + FullBlockSize(size) < bufferSize THEN offset + FullBlockSize(size)
    ELSE Aligned(size) - (bufferSize - offset - Alignment)

\* Enter a block of the given size, whose bytes `mem` has already, in the header.
Entered(size) == freeSize' = freeSize - FullBlockSize(size) /\ dataCount' = dataCount + 1

Refuse(code) == returned' = <<code, <<>>>> /\ UNCHANGED <<header, circBuf>>

\* The memory after writing one piece.
Stored(data) ==
    LET chunk == bufferSize - writeOffset - Alignment
        mem   == Memcpy(circBuf, writeOffset, UInt32(Len(data)))
        at    == writeOffset + Alignment
    IN  IF writeOffset + FullBlockSize(Len(data)) <= bufferSize
        THEN Memcpy(mem, at, data)
        ELSE Memcpy(Memcpy(mem, at, Part(data, 1, chunk)), 0, Part(data, chunk + 1, Len(data)))

\* The end of the second piece overwrites that of the first.
BadStoredPair(first, second) ==
    LET size  == Len(first) + Len(second)
        chunk == bufferSize - writeOffset - Alignment
        mem   == Memcpy(circBuf, writeOffset, UInt32(size))
        at    == writeOffset + Alignment
    IN  IF writeOffset + FullBlockSize(size) <= bufferSize
        THEN Memcpy(Memcpy(mem, at, first), at + Len(first), second)
        ELSE IF Len(first) <= chunk
        THEN Memcpy(Memcpy(mem, at, first), 0, second)
        ELSE Memcpy(Memcpy(Memcpy(mem, at, Part(first, 1, chunk)),
                           0, Part(first, chunk + 1, Len(first))), 0, second)

\* The memory after writing two pieces as one message: either of them can wrap.
StoredPair(first, second) ==
    LET size  == Len(first) + Len(second)
        chunk == bufferSize - writeOffset - Alignment
        mem   == Memcpy(circBuf, writeOffset, UInt32(size))
        at    == writeOffset + Alignment
        part  == IF Len(first) <= chunk THEN chunk - Len(first) ELSE Len(first) - chunk
    IN  IF writeOffset + FullBlockSize(size) <= bufferSize
        THEN Memcpy(Memcpy(mem, at, first), at + Len(first), second)
        ELSE IF Len(first) <= chunk
        THEN Memcpy(Memcpy(Memcpy(mem, at, first), at + Len(first), Part(second, 1, part)),
                    0, Part(second, part + 1, Len(second)))
        ELSE Memcpy(Memcpy(Memcpy(mem, at, Part(first, 1, chunk)),
                           0, Part(first, chunk + 1, Len(first))),
                    part, second)

WriteBlock(data, mem) ==
    IF FullBlockSize(Len(data)) > freeSize THEN Refuse("OutOfMem")
    ELSE /\ circBuf' = mem
         /\ writeOffset' = Advance(writeOffset, Len(data))
         /\ Entered(Len(data))
         /\ returned' = <<"Ok", data>>
         /\ UNCHANGED readOffset

\* Nothing is stored for an empty message, or when a piece of a pair is empty.
circbuf_writeData(data) ==
    IF data = <<>> THEN Refuse("Ok") ELSE WriteBlock(data, Stored(data))

circbuf_writeMultipleData(first, second) ==
    IF first = <<>> \/ second = <<>> THEN Refuse("Ok")
    ELSE WriteBlock(first \o second, StoredPair(first, second))

\* The message that starts at readOffset.
HeadMessage(size) ==
    LET chunk == bufferSize - readOffset - Alignment
    IN  IF readOffset + FullBlockSize(size) <= bufferSize THEN Chunk(readOffset + Alignment, size)
        ELSE Chunk(readOffset + Alignment, chunk) \o Chunk(0, size - chunk)

circbuf_readData(size) ==
    IF size = 0 THEN Refuse("Ok")
    ELSE IF freeSize = bufferSize THEN Refuse("NoReadableData")
    ELSE LET dataSize == SizeAt(readOffset)
         IN  IF dataSize > size THEN Refuse("ReadsizeTooSmall")
             ELSE /\ returned' = <<"Ok", HeadMessage(dataSize)>>
                  /\ readOffset' = Advance(readOffset, dataSize)
                  /\ freeSize' = freeSize + FullBlockSize(dataSize)
                  /\ dataCount' = dataCount - 1
                  /\ UNCHANGED <<writeOffset, circBuf>>

circbuf_reset ==
    /\ readOffset' = 0 /\ writeOffset' = 0 /\ freeSize' = bufferSize /\ dataCount' = 0
    /\ returned' = <<"Ok", <<>>>>
    /\ UNCHANGED circBuf

Next ==
    \/ \E m \in Message : circbuf_writeData(m)
    \/ \E p \in Pair : circbuf_writeMultipleData(p[1], p[2])
    \/ \E size \in ReadSize : circbuf_readData(size)
    \/ circbuf_reset

Spec == Init /\ [][Next]_vars

-----------------------------------------------------------------------------
(* Properties.                                                             *)

\* The types, and that no byte is written outside of the buffer.
TypeOK ==
    /\ writeOffset \in Bytes /\ readOffset \in Bytes
    /\ freeSize \in 0 .. bufferSize
    /\ dataCount \in 0 .. bufferSize
    /\ DOMAIN circBuf = Bytes

\* The messages in the buffer, decoded from readOffset on.
content ==
    LET at[k \in 1 .. dataCount] ==
            IF k = 1 THEN readOffset ELSE Advance(at[k - 1], SizeAt(at[k - 1]))
    IN  [k \in 1 .. dataCount |->
            [i \in 1 .. SizeAt(at[k]) |-> circBuf[(at[k] + Alignment + i - 1) % bufferSize]]]

Fifo == INSTANCE FifoSpec WITH Message <- (Message \cup {p[1] \o p[2] : p \in Pair}) \ {<<>>},
                               Weight <- LAMBDA m : FullBlockSize(Len(m)),
                               Capacity <- bufferSize

\* The buffer is a FIFO: whatever the sizes and wherever messages wrap, what is read is what was
\* written, in order and once; a message is refused exactly when there is no room for it; and an
\* empty message changes nothing.
ImplementsFifo == Fifo!Spec
=============================================================================

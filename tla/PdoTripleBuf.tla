---------------------------- MODULE PdoTripleBuf ----------------------------
(***************************************************************************)
(* The triple buffer of one PDO channel, in shared memory between the      *)
(* kernel part (kernel/pdo/pdokcal-triplebufshm.c) and the user part       *)
(* (user/pdo/pdoucal-triplebufshm.c).  For an RXPDO the kernel produces    *)
(* (pdokcal_writeRxPdo) and the user consumes (pdoucal_getRxPdo), for a    *)
(* TXPDO the user produces (pdoucal_getTxPdoAdrs, pdoucal_setTxPdo) and    *)
(* the kernel consumes (pdokcal_readTxPdo); the steps are the same.        *)
(*                                                                         *)
(* Both sides run without a lock.  An atomic step is one access to shared  *)
(* memory: copying a PDO takes several, here two, OPLK_ATOMIC_EXCHANGE on  *)
(* cleanBuf is one, setting or clearing newData is one of its own.  The    *)
(* store of the exchanged index belongs to the exchange, because only its  *)
(* own side reads readBuf, or writeBuf.                                    *)
(***************************************************************************)
EXTENDS Integers

CONSTANT MaxWrites   \* bound on the number of PDOs written

ASSUME MaxWritesAssumption == MaxWrites \in Nat

VARIABLES
    readBuf, writeBuf, cleanBuf, newData,  \* tPdoBufferInfo, in shared memory
    pdo,       \* pdo[b]: the two parts of the PDO in triple buffer b
    producer,  \* what the producer does next
    written,   \* number of the PDO that it writes or wrote last, which is its content
    consumer,  \* what the consumer does next
    copy,      \* the parts of the PDO that the consumer has read
    given,     \* history: the buffer that the consumer gave back last, NoBuf once it is reused
    previous   \* history: the PDO that was in it

channelInfo  == <<readBuf, writeBuf, cleanBuf, newData>>
producerVars == <<producer, written>>
consumerVars == <<consumer, copy>>
history      == <<given, previous>>
pdoVars == <<channelInfo, pdo, producerVars, consumerVars, history>>

Buf   == 0 .. 2
NoBuf == 3

-----------------------------------------------------------------------------
\* setupPdoMemInfo
PdoInit ==
    /\ readBuf = 0 /\ writeBuf = 1 /\ cleanBuf = 2 /\ newData = FALSE
    /\ pdo = [b \in Buf |-> [first |-> 0, second |-> 0]]
    /\ producer = "idle" /\ written = 0
    /\ consumer = "idle" /\ copy = [first |-> 0, second |-> 0]
    /\ given = NoBuf /\ previous = 0

\* Into the clean buffer, as if it had been exchanged before.
BadCopyIn ==
    /\ producer = "idle" /\ written <= MaxWrites
    /\ written' = written + 1
    /\ pdo' = [pdo EXCEPT ![cleanBuf].first = written + 1]
    /\ producer' = "copying"
    /\ UNCHANGED <<channelInfo, consumerVars, history>>

\* The producer copies a PDO into its buffer, the first part and the second part.
CopyIn ==
    /\ producer = "idle" /\ written < MaxWrites
    /\ written' = written + 1
    /\ pdo' = [pdo EXCEPT ![writeBuf].first = written + 1]
    /\ producer' = "copying"
    /\ UNCHANGED <<channelInfo, consumerVars, history>>

CopyInRest ==
    /\ producer = "copying"
    /\ pdo' = [pdo EXCEPT ![writeBuf].second = written]
    /\ producer' = "copied"
    /\ UNCHANGED <<channelInfo, written, consumerVars, history>>

\* Also when nothing was copied in since the last exchange.
BadOffer ==
    /\ producer \in {"idle", "copied"}
    /\ cleanBuf' = writeBuf /\ writeBuf' = cleanBuf
    /\ producer' = "offered"
    /\ given' = IF given = cleanBuf THEN NoBuf ELSE given
    /\ UNCHANGED <<readBuf, newData, pdo, written, consumerVars, previous>>

\* OPLK_ATOMIC_EXCHANGE of the producer.  The history forgets the buffer it takes.
Offer ==
    /\ producer = "copied"
    /\ cleanBuf' = writeBuf /\ writeBuf' = cleanBuf
    /\ producer' = "offered"
    /\ given' = IF given = cleanBuf THEN NoBuf ELSE given
    /\ UNCHANGED <<readBuf, newData, pdo, written, consumerVars, previous>>

SetNewData ==
    /\ producer = "offered"
    /\ newData' = TRUE
    /\ producer' = "idle"
    /\ UNCHANGED <<readBuf, writeBuf, cleanBuf, pdo, written, consumerVars, history>>

\* The consumer exchanges its buffer only when there is new data.
CheckNewData ==
    /\ consumer = "idle"
    /\ consumer' = IF newData THEN "exchange" ELSE "reading"
    /\ UNCHANGED <<channelInfo, pdo, producerVars, copy, history>>

\* OPLK_ATOMIC_EXCHANGE of the consumer
Fetch ==
    /\ consumer = "exchange"
    /\ cleanBuf' = readBuf /\ readBuf' = cleanBuf
    /\ consumer' = "fetched"
    /\ given' = readBuf /\ previous' = pdo[readBuf].first
    /\ UNCHANGED <<writeBuf, newData, pdo, producerVars, copy>>

ClearNewData ==
    /\ consumer = "fetched"
    /\ newData' = FALSE
    /\ consumer' = "reading"
    /\ UNCHANGED <<readBuf, writeBuf, cleanBuf, pdo, producerVars, copy, history>>

\* The consumer reads the PDO from its buffer.
CopyOut ==
    /\ consumer = "reading"
    /\ copy' = [copy EXCEPT !.first = pdo[readBuf].first]
    /\ consumer' = "copying"
    /\ UNCHANGED <<channelInfo, pdo, producerVars, history>>

CopyOutRest ==
    /\ consumer = "copying"
    /\ copy' = [copy EXCEPT !.second = pdo[readBuf].second]
    /\ consumer' = "idle"
    /\ UNCHANGED <<channelInfo, pdo, producerVars, history>>

Producer == CopyIn \/ CopyInRest \/ Offer \/ SetNewData
Consumer == CheckNewData \/ Fetch \/ ClearNewData \/ CopyOut \/ CopyOutRest

PdoNext == Producer \/ Consumer

PdoSpec == PdoInit /\ [][PdoNext]_pdoVars

-----------------------------------------------------------------------------
(* Properties.                                                             *)

Written == 0 .. MaxWrites

\* The types of the variables.
PdoTypeOK ==
    /\ readBuf \in Buf /\ writeBuf \in Buf /\ cleanBuf \in Buf
    /\ newData \in BOOLEAN
    /\ pdo \in [Buf -> [first : Written, second : Written]]
    /\ producer \in {"idle", "copying", "copied", "offered"}
    /\ written \in Written
    /\ consumer \in {"idle", "exchange", "fetched", "reading", "copying"}
    /\ copy \in [first : Written, second : Written]
    /\ given \in Buf \cup {NoBuf}
    /\ previous \in Written

\* Producer and consumer never own the same buffer, whatever the order of their steps: no index
\* is lost or doubled in the exchanges.
Separate == readBuf # writeBuf /\ readBuf # cleanBuf /\ writeBuf # cleanBuf

\* A PDO that the consumer has read is one that the producer wrote, not parts of two of them.
NotTorn == consumer \in {"idle", "exchange", "fetched"} => copy.first = copy.second

\* The PDO that the consumer sees.
Shown == pdo[readBuf].first

\* An exchange never goes further back than to the PDO that was shown before the present one:
\* what the consumer fetches is newer than what it has, or is the buffer it gave back itself.
AtMostOneBack ==
    [][readBuf' # readBuf => pdo[readBuf'].first > Shown \/ pdo[readBuf'].first = previous]_pdoVars

=============================================================================

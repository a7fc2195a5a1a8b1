------------------------------ MODULE FifoSpec ------------------------------
(***************************************************************************)
(* What a circular buffer promises: messages come out as they went in, in  *)
(* order and each once, and a message is refused only when the buffer has  *)
(* no room for it.                                                         *)
(***************************************************************************)
EXTENDS Naturals, Sequences

CONSTANTS Message,     \* messages, as sequences of bytes
          ReadSize,    \* sizes of a reader's destination
          Weight(_),   \* the room that a message takes
          Capacity

VARIABLES content,  \* the messages in the buffer
          returned  \* the last call: its error code and the message that it moved

vars == <<content, returned>>

Room ==
    LET used[i \in 0 .. Len(content)] == IF i = 0 THEN 0 ELSE used[i - 1] + Weight(content[i])
    IN  Capacity - used[Len(content)]

Init == content = <<>> /\ returned = <<"Ok", <<>>>>

\* A call without a message changes nothing.
Nothing == content' = content /\ returned' = <<"Ok", <<>>>>

Write(m) ==
    IF Weight(m) <= Room
    THEN content' = Append(content, m) /\ returned' = <<"Ok", m>>
    ELSE content' = content /\ returned' = <<"OutOfMem", <<>>>>

\* A message that is larger than its destination stays where it is.
Read(size) ==
    IF content = <<>> THEN content' = content /\ returned' = <<"NoReadableData", <<>>>>
    ELSE IF Len(Head(content)) > size THEN content' = content /\ returned' = <<"ReadsizeTooSmall", <<>>>>
    ELSE content' = Tail(content) /\ returned' = <<"Ok", Head(content)>>

Reset == content' = <<>> /\ returned' = <<"Ok", <<>>>>

Next == (\E m \in Message : Write(m)) \/ (\E size \in ReadSize : Read(size)) \/ Reset \/ Nothing

Spec == Init /\ [][Next]_vars
=============================================================================

----------------------------- MODULE PipeBuffer -----------------------------
(***************************************************************************)
(* The ring buffer of one pipe: src/kernel/src/process.rs, struct Pipe and *)
(* its users pipe_create, pipe_read and pipe_write.  Which descriptors     *)
(* reach the buffer is the subject of Processes.                           *)
(***************************************************************************)
EXTENDS Integers, Sequences

CONSTANTS
    Byte,       \* the values of a byte
    Zero,       \* the one a new buffer is filled with
    Capacity,   \* PIPE_CAPACITY
    Chunk,      \* what programs offer to a write
    Count       \* what they ask of a read

ASSUME BufferAssumption ==
    /\ Zero \in Byte
    /\ Capacity \in Nat \ {0}
    /\ Chunk \subseteq Seq(Byte) /\ Count \subseteq Nat

VARIABLES
    buffer, readPos, writePos, len,
    asked,   \* how many bytes the last call asked to move
    result   \* the bytes it accepted or returned

vars == <<buffer, readPos, writePos, len, asked, result>>

Cells == 0 .. Capacity - 1

Smaller(a, b) == IF a < b THEN a ELSE b

\* The cell i bytes past a position.
Cell(pos, i) == (pos + i) % Capacity

\* How far cell c is past a position.
Offset(pos, c) == (c + Capacity - pos) % Capacity

\* (Definitions marked "Mutant" are wrong on purpose: substituted for the one
\* that follows, each breaks a property below.)
\* Mutant: one byte more than there is room for.
RoomPlusOne == Capacity - len + 1

\* Mutant: only the room up to the end of the array.
RoomToEnd == Smaller(Capacity - len, Capacity - writePos)

Room == Capacity - len

Init ==
    /\ buffer = [c \in Cells |-> Zero]
    /\ readPos = 0 /\ writePos = 0 /\ len = 0
    /\ asked = 0 /\ result = <<>>

Create ==
    /\ buffer' = [c \in Cells |-> Zero]
    /\ readPos' = 0 /\ writePos' = 0 /\ len' = 0
    /\ asked' = 0 /\ result' = <<>>

\* Mutant: the position moves by what was offered.
WriteAllOffered(data) ==
    LET n == Smaller(Len(data), Room)
    IN /\ buffer' = [c \in Cells |-> IF Offset(writePos, c) < n
                                     THEN data[Offset(writePos, c) + 1]
                                     ELSE buffer[c]]
       /\ writePos' = Cell(writePos, Len(data))
       /\ len' = len + n
       /\ asked' = Len(data) /\ result' = SubSeq(data, 1, n)
       /\ UNCHANGED readPos

Write(data) ==
    LET n == Smaller(Len(data), Room)
    IN /\ buffer' = [c \in Cells |-> IF Offset(writePos, c) < n
                                     THEN data[Offset(writePos, c) + 1]
                                     ELSE buffer[c]]
       /\ writePos' = Cell(writePos, n)
       /\ len' = len + n
       /\ asked' = Len(data) /\ result' = SubSeq(data, 1, n)
       /\ UNCHANGED readPos

Read(k) ==
    LET n == Smaller(k, len)
    IN /\ result' = [i \in 1 .. n |-> buffer[Cell(readPos, i - 1)]]
       /\ readPos' = Cell(readPos, n)
       /\ len' = len - n
       /\ asked' = k
       /\ UNCHANGED <<buffer, writePos>>

Next ==
    \/ \E data \in Chunk : Write(data)
    \/ \E k \in Count : Read(k)
    \/ Create

Spec == Init /\ [][Next]_vars

-----------------------------------------------------------------------------

TypeOK ==
    /\ buffer \in [Cells -> Byte]
    /\ readPos \in Cells /\ writePos \in Cells
    /\ len \in 0 .. Capacity
    /\ asked \in Nat /\ result \in Seq(Byte)

\* The two positions and the length, which pipe_read and pipe_write advance
\* apart from each other, always say the same thing: the write position is len
\* cells past the read position, also when the buffer is full or empty and both
\* positions are the same.
PositionsAgree == writePos = Cell(readPos, len)

\* The refinement mapping: the unread bytes, oldest first.
Unread == [i \in 1 .. len |-> buffer[Cell(readPos, i - 1)]]

Queue == INSTANCE PipeQueue WITH queue <- Unread

\* The ring is a queue: every byte accepted is returned once, in order, and a
\* call moves fewer bytes than asked for only when the pipe is full or empty.
ImplementsQueue == Queue!Spec
=============================================================================

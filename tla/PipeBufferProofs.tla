-------------------------- MODULE PipeBufferProofs --------------------------
(***************************************************************************)
(* Proofs about PipeBuffer, for every capacity: the positions agree and    *)
(* the ring buffer implements the queue.                                   *)
(***************************************************************************)
EXTENDS PipeBuffer, SequenceTheorems, TLAPS

\* All that % is used for here: a sum of two positions wraps at most once.
LEMMA WrapOnce ==
    ASSUME NEW a \in 0 .. 2 * Capacity - 1
    PROVE  a % Capacity = IF a < Capacity THEN a ELSE a - Capacity
<1> USE BufferAssumption
<1>1. CASE a < Capacity
  BY <1>1
<1>2. CASE a >= Capacity
  <2>1. (a - Capacity) \in 0 .. Capacity - 1
    BY <1>2
  <2>2. QED
    BY <1>2, <2>1
<1>3. QED
  BY <1>1, <1>2

LEMMA CellAndOffset ==
    ASSUME NEW pos \in Cells, NEW i \in 0 .. Capacity, NEW c \in Cells
    PROVE  /\ Cell(pos, i) = IF pos + i < Capacity THEN pos + i ELSE pos + i - Capacity
           /\ Offset(pos, c) = IF c < pos THEN c + Capacity - pos ELSE c - pos
           /\ Cell(pos, i) \in Cells
           /\ Offset(pos, c) \in Cells
<1> USE BufferAssumption DEF Cells
<1>1. pos + i \in 0 .. 2 * Capacity - 1 /\ c + Capacity - pos \in 0 .. 2 * Capacity - 1
  OBVIOUS
<1>2. (pos + i) % Capacity = IF pos + i < Capacity THEN pos + i ELSE pos + i - Capacity
  <2> DEFINE a == pos + i
  <2>1. a \in 0 .. 2 * Capacity - 1
    BY <1>1
  <2> HIDE DEF a
  <2>2. a % Capacity = IF a < Capacity THEN a ELSE a - Capacity
    BY <2>1, WrapOnce
  <2>3. QED
    BY <2>2 DEF a
<1>3. (c + Capacity - pos) % Capacity = IF c < pos THEN c + Capacity - pos ELSE c - pos
  <2> DEFINE a == c + Capacity - pos
  <2>1. a \in 0 .. 2 * Capacity - 1
    BY <1>1
  <2>2. /\ a < Capacity <=> c < pos
        /\ a - Capacity = c - pos
    OBVIOUS
  <2> HIDE DEF a
  <2>3. a % Capacity = IF a < Capacity THEN a ELSE a - Capacity
    BY <2>1, WrapOnce
  <2>4. a % Capacity = IF c < pos THEN a ELSE c - pos
    BY <2>2, <2>3
  <2>5. QED
    BY <2>4 DEF a
<1>4. /\ (pos + i) % Capacity \in Cells
      /\ (c + Capacity - pos) % Capacity \in Cells
  BY <1>1, <1>2, <1>3
<1>5. QED
  BY <1>2, <1>3, <1>4 DEF Cell, Offset

\* Moving on twice is moving on by the sum.
LEMMA CellOfCell ==
    ASSUME NEW pos \in Cells, NEW i \in Nat, NEW j \in Nat, i + j <= Capacity
    PROVE  Cell(Cell(pos, i), j) = Cell(pos, i + j)
<1> USE BufferAssumption DEF Cells
<1>1. i \in 0 .. Capacity /\ j \in 0 .. Capacity /\ i + j \in 0 .. Capacity
  OBVIOUS
<1>2. /\ Cell(pos, i) \in Cells
      /\ Cell(pos, i) = IF pos + i < Capacity THEN pos + i ELSE pos + i - Capacity
      /\ Cell(pos, i + j) = IF pos + (i + j) < Capacity THEN pos + (i + j)
                                                       ELSE pos + (i + j) - Capacity
  BY <1>1, CellAndOffset
<1> DEFINE p == Cell(pos, i)
<1>3. Cell(p, j) = IF p + j < Capacity THEN p + j ELSE p + j - Capacity
  BY <1>1, <1>2, CellAndOffset
<1> HIDE DEF p
<1>4. p \in Int /\ p = IF pos + i < Capacity THEN pos + i ELSE pos + i - Capacity
  BY <1>2 DEF p
<1>5. CASE p + j < Capacity
  BY <1>1, <1>2, <1>3, <1>4, <1>5 DEF p
<1>6. CASE ~(p + j < Capacity)
  BY <1>1, <1>2, <1>3, <1>4, <1>6 DEF p
<1>7. QED
  BY <1>5, <1>6

\* How far the cell b past a position is from the one a past it.
LEMMA OffsetOfCell ==
    ASSUME NEW pos \in Cells, NEW a \in 0 .. Capacity, NEW b \in Cells
    PROVE  Offset(Cell(pos, a), Cell(pos, b)) = IF b < a THEN b + Capacity - a ELSE b - a
<1> USE BufferAssumption DEF Cells
<1> DEFINE x == Cell(pos, a)
           y == Cell(pos, b)
<1>1. b \in 0 .. Capacity
  OBVIOUS
<1>2. /\ x \in Cells /\ y \in Cells
      /\ x = IF pos + a < Capacity THEN pos + a ELSE pos + a - Capacity
      /\ y = IF pos + b < Capacity THEN pos + b ELSE pos + b - Capacity
  BY <1>1, CellAndOffset
<1> HIDE DEF x, y
<1>3. Offset(x, y) = IF y < x THEN y + Capacity - x ELSE y - x
  <2>1. x \in Cells /\ y \in Cells /\ 0 \in 0 .. Capacity
    BY <1>2
  <2>2. QED
    BY <2>1, CellAndOffset
<1>4. Offset(x, y) = IF b < a THEN b + Capacity - a ELSE b - a
  BY <1>1, <1>2, <1>3
<1>5. QED
  BY <1>4 DEF x, y

LEMMA SmallerIsSmaller ==
    ASSUME NEW a \in Nat, NEW b \in Nat
    PROVE  Smaller(a, b) \in 0 .. a /\ Smaller(a, b) \in 0 .. b
BY DEF Smaller

-----------------------------------------------------------------------------

IInv == TypeOK /\ PositionsAgree

\* What IInv says, in the form the arithmetic below needs.
LEMMA RingFacts ==
    ASSUME IInv
    PROVE  /\ len \in Nat /\ len <= Capacity /\ Capacity \in Nat /\ Capacity > 0
           /\ len \in 0 .. Capacity /\ Room \in Nat /\ Room = Capacity - len
           /\ readPos \in Cells /\ writePos \in Cells
           /\ writePos = Cell(readPos, len)
           /\ buffer \in [Cells -> Byte]
BY BufferAssumption DEF IInv, TypeOK, PositionsAgree, Room

LEMMA InitIInv == Init => IInv
<1> SUFFICES ASSUME Init PROVE IInv
  OBVIOUS
<1>1. 0 \in Cells /\ Cell(0, 0) = 0
  BY CellAndOffset, BufferAssumption DEF Cells
<1>2. QED
  BY <1>1, BufferAssumption DEF Init, IInv, TypeOK, PositionsAgree

\* What the three operations do to a ring in a consistent state.
LEMMA WriteKeepsIInv ==
    ASSUME IInv, NEW data \in Chunk, Write(data)
    PROVE  IInv'
<1> DEFINE n == Smaller(Len(data), Room)
<1>1. /\ data \in Seq(Byte) /\ Len(data) \in Nat
      /\ n \in 0 .. Len(data) /\ n \in 0 .. Capacity /\ n <= Capacity - len /\ n \in Nat
  <2>1. data \in Seq(Byte) /\ Len(data) \in Nat
    BY BufferAssumption
  <2>2. n \in 0 .. Len(data) /\ n \in 0 .. Room
    BY <2>1, RingFacts, SmallerIsSmaller
  <2> HIDE DEF n
  <2>3. QED
    BY <2>1, <2>2, RingFacts
<1>2. /\ buffer' = [c \in Cells |-> IF Offset(writePos, c) < n
                                  THEN data[Offset(writePos, c) + 1] ELSE buffer[c]]
      /\ writePos' = Cell(writePos, n) /\ len' = len + n
      /\ result' = SubSeq(data, 1, n) /\ readPos' = readPos
      /\ asked' = Len(data)
  BY DEF Write
<1> HIDE DEF n
<1>3. ASSUME NEW c \in Cells, Offset(writePos, c) < n
      PROVE  data[Offset(writePos, c) + 1] \in Byte
  <2>1. Offset(writePos, c) + 1 \in 1 .. Len(data)
    <3>1. Offset(writePos, c) \in Nat
      <4>1. 0 \in 0 .. Capacity
        BY RingFacts
      <4>2. Offset(writePos, c) \in Cells
        BY <4>1, RingFacts, CellAndOffset
      <4>3. QED
        BY <4>2, RingFacts DEF Cells
    <3>2. QED
      BY <1>1, <1>3, <3>1
  <2>2. QED
    BY <1>1, <2>1
<1>4. buffer' \in [Cells -> Byte]
  BY <1>2, <1>3 DEF IInv, TypeOK
<1>5. SubSeq(data, 1, n) \in Seq(Byte)
  BY <1>1
<1>6. TypeOK'
  <2>1. Cell(writePos, n) \in Cells
    BY <1>1, RingFacts, CellAndOffset
  <2>2. len + n \in 0 .. Capacity
    BY <1>1, RingFacts
  <2>3. QED
    BY <1>1, <1>2, <1>4, <1>5, <2>1, <2>2 DEF IInv, TypeOK
<1>7. PositionsAgree'
  <2>1. Cell(writePos, n) = Cell(readPos, len + n)
    BY <1>1, RingFacts, CellOfCell
  <2>2. QED
    BY <1>2, <2>1 DEF PositionsAgree, Cell
<1>8. QED
  BY <1>6, <1>7 DEF IInv

LEMMA ReadKeepsIInv ==
    ASSUME IInv, NEW k \in Count, Read(k)
    PROVE  IInv'
<1> DEFINE n == Smaller(k, len)
<1>1. n \in 0 .. len /\ n \in 0 .. Capacity /\ n \in Nat
  <2>1. k \in Nat
    BY BufferAssumption
  <2>2. n \in 0 .. len
    BY <2>1, RingFacts, SmallerIsSmaller
  <2> HIDE DEF n
  <2>3. QED
    BY <2>2, RingFacts
<1>2. /\ result' = [i \in 1 .. n |-> buffer[Cell(readPos, i - 1)]]
      /\ readPos' = Cell(readPos, n) /\ len' = len - n
      /\ buffer' = buffer /\ writePos' = writePos /\ asked' = k
  BY DEF Read
<1> HIDE DEF n
<1>3. ASSUME NEW i \in 1 .. n PROVE buffer[Cell(readPos, i - 1)] \in Byte
  <2>1. i - 1 \in 0 .. Capacity
    BY <1>1, RingFacts
  <2>2. QED
    BY <2>1, RingFacts, CellAndOffset
<1>4. [i \in 1 .. n |-> buffer[Cell(readPos, i - 1)]] \in Seq(Byte)
  BY <1>1, <1>3
<1>5. TypeOK'
  <2>1. Cell(readPos, n) \in Cells
    BY <1>1, RingFacts, CellAndOffset
  <2>2. len - n \in 0 .. Capacity
    BY <1>1, RingFacts
  <2>3. QED
    BY <1>2, <1>4, <2>1, <2>2, BufferAssumption DEF IInv, TypeOK
<1>6. PositionsAgree'
  <2>1. len - n \in Nat /\ n + (len - n) = len
    BY <1>1, RingFacts
  <2>2. Cell(Cell(readPos, n), len - n) = Cell(readPos, len)
    BY <1>1, <2>1, RingFacts, CellOfCell
  <2>3. QED
    BY <1>2, <2>2, RingFacts DEF PositionsAgree, Cell
<1>7. QED
  BY <1>5, <1>6 DEF IInv

LEMMA StepKeepsIInv == IInv /\ [Next]_vars => IInv'
<1> SUFFICES ASSUME IInv, [Next]_vars PROVE IInv'
  OBVIOUS
<1>1. CASE Create
  <2>1. 0 \in Cells /\ Cell(0, 0) = 0
    BY CellAndOffset, BufferAssumption DEF Cells
  <2>2. QED
    BY <1>1, <2>1, BufferAssumption DEF Create, IInv, TypeOK, PositionsAgree
<1>2. CASE UNCHANGED vars
  BY <1>2 DEF vars, IInv, TypeOK, PositionsAgree, Cell
<1>3. QED
  BY <1>1, <1>2, WriteKeepsIInv, ReadKeepsIInv DEF Next

\* The positions and the length agree for every capacity and every request.
THEOREM RingIsConsistent == Spec => [](TypeOK /\ PositionsAgree)
<1>1. IInv => TypeOK /\ PositionsAgree
  BY DEF IInv
<1>2. QED
  BY <1>1, InitIInv, StepKeepsIInv, PTL DEF Spec

\* No write or read takes a position or the length out of its range, for any request.
THEOREM BufferTypeCorrect == Spec => []TypeOK
BY RingIsConsistent, PTL

-----------------------------------------------------------------------------
(* The refinement.                                                         *)

LEMMA RingIsASequence ==
    ASSUME NEW b \in [Cells -> Byte], NEW r \in Cells, NEW l \in 0 .. Capacity
    PROVE  /\ [i \in 1 .. l |-> b[Cell(r, i - 1)]] \in Seq(Byte)
           /\ Len([i \in 1 .. l |-> b[Cell(r, i - 1)]]) = l
           /\ l \in Nat
<1>1. ASSUME NEW i \in 1 .. l PROVE b[Cell(r, i - 1)] \in Byte
  BY CellAndOffset, BufferAssumption
<1>2. l \in Nat
  BY BufferAssumption
<1>3. QED
  BY <1>1, <1>2

LEMMA UnreadIsASequence ==
    ASSUME IInv
    PROVE  Unread \in Seq(Byte) /\ Len(Unread) = len /\ len \in Nat
BY RingIsASequence DEF Unread, IInv, TypeOK

LEMMA WriteIsPut ==
    ASSUME IInv, IInv', NEW data \in Chunk, Write(data)
    PROVE  Queue!Put(data)
<1> DEFINE n == Smaller(Len(data), Room)
<1>1. /\ data \in Seq(Byte) /\ Len(data) \in Nat
      /\ n \in 0 .. Len(data) /\ n \in 0 .. Capacity /\ n <= Capacity - len /\ n \in Nat
  <2>1. data \in Seq(Byte) /\ Len(data) \in Nat
    BY BufferAssumption
  <2>2. n \in 0 .. Len(data) /\ n \in 0 .. Room
    BY <2>1, RingFacts, SmallerIsSmaller
  <2> HIDE DEF n
  <2>3. QED
    BY <2>1, <2>2, RingFacts
<1>2. /\ buffer' = [c \in Cells |-> IF Offset(writePos, c) < n
                                  THEN data[Offset(writePos, c) + 1] ELSE buffer[c]]
      /\ len' = len + n /\ result' = SubSeq(data, 1, n) /\ readPos' = readPos
  BY DEF Write
<1>3. n = Queue!Smaller(Len(data), Capacity - Len(Unread))
  BY UnreadIsASequence DEF Smaller, Queue!Smaller, Room
<1> HIDE DEF n
<1>4. ASSUME NEW i \in 1 .. len + n
      PROVE  Unread'[i] = IF i <= len THEN Unread[i] ELSE SubSeq(data, 1, n)[i - len]
  <2>1. i \in Nat /\ i - 1 \in Cells /\ i - 1 \in 0 .. Capacity
    BY <1>1, RingFacts DEF Cells
  <2>2. Cell(readPos, i - 1) \in Cells
    BY <2>1, RingFacts, CellAndOffset
  <2> DEFINE d == Offset(writePos, Cell(readPos, i - 1))
  <2>3. d = IF i - 1 < len THEN i - 1 + Capacity - len ELSE i - 1 - len
    BY <2>1, RingFacts, OffsetOfCell
  <2>4. Unread'[i] = IF d < n THEN data[d + 1] ELSE buffer[Cell(readPos, i - 1)]
    <3>1. Unread'[i] = buffer'[Cell(readPos, i - 1)]
      BY <1>2 DEF Unread, Cell
    <3>2. QED
      BY <1>2, <2>2, <3>1
  <2> HIDE DEF d
  <2>5. CASE i <= len
    <3>1. ~(d < n) /\ i \in 1 .. len
      BY <1>1, <2>1, <2>3, <2>5, RingFacts
    <3>2. QED
      BY <2>4, <2>5, <3>1 DEF Unread
  <2>6. CASE ~(i <= len)
    <3>1. d < n /\ d + 1 = i - len /\ i - len \in 1 .. n
      BY <1>1, <2>1, <2>3, <2>6, RingFacts
    <3>2. SubSeq(data, 1, n)[i - len] = data[i - len]
      BY <1>1, <3>1
    <3>3. QED
      BY <2>4, <2>6, <3>1, <3>2
  <2>7. QED
    BY <2>5, <2>6
<1>5. Unread \in Seq(Byte) /\ Len(Unread) = len
  BY UnreadIsASequence
<1>6. /\ SubSeq(data, 1, n) \in Seq(Byte) /\ Len(SubSeq(data, 1, n)) = n
  BY <1>1
<1>7. Unread' = Unread \o SubSeq(data, 1, n)
  <2>1. Unread' = [i \in 1 .. len' |-> buffer'[Cell(readPos', i - 1)]]
    BY DEF Unread, Cell
  <2>2. Unread' \in Seq(Byte) /\ Len(Unread') = len + n
    <3>1. buffer' \in [Cells -> Byte] /\ readPos' \in Cells /\ len' \in 0 .. Capacity
      BY DEF IInv, TypeOK
    <3>2. Unread' \in Seq(Byte) /\ Len(Unread') = len'
      BY <2>1, <3>1, RingIsASequence
    <3>3. QED
      BY <1>2, <3>2
  <2>3. /\ Unread \o SubSeq(data, 1, n) \in Seq(Byte)
        /\ Len(Unread \o SubSeq(data, 1, n)) = len + n
    BY <1>1, <1>5, <1>6, RingFacts
  <2>4. ASSUME NEW i \in 1 .. len + n
        PROVE  (Unread \o SubSeq(data, 1, n))[i] =
                 IF i <= len THEN Unread[i] ELSE SubSeq(data, 1, n)[i - len]
    BY <1>1, <1>5, <1>6, RingFacts
  <2>5. QED
    BY <1>1, <1>4, <2>2, <2>3, <2>4, RingFacts, SeqEqual
<1>8. QED
  BY <1>2, <1>3, <1>7 DEF Queue!Put, Write

LEMMA ReadIsTake ==
    ASSUME IInv, IInv', NEW k \in Count, Read(k)
    PROVE  Queue!Take(k)
<1> DEFINE n == Smaller(k, len)
<1>1. n \in 0 .. len /\ n \in Nat
  <2>1. k \in Nat
    BY BufferAssumption
  <2>2. n \in 0 .. len
    BY <2>1, RingFacts, SmallerIsSmaller
  <2> HIDE DEF n
  <2>3. QED
    BY <2>2, RingFacts
<1>2. /\ result' = [i \in 1 .. n |-> buffer[Cell(readPos, i - 1)]]
      /\ readPos' = Cell(readPos, n) /\ len' = len - n /\ buffer' = buffer
  BY DEF Read
<1>3. n = Queue!Smaller(k, Len(Unread))
  BY UnreadIsASequence DEF Smaller, Queue!Smaller
<1>4. Unread \in Seq(Byte) /\ Len(Unread) = len
  BY UnreadIsASequence
<1> HIDE DEF n
<1>5. result' = SubSeq(Unread, 1, n)
  <2>1. n \in 0 .. Capacity
    BY <1>1, RingFacts
  <2>2. result' \in Seq(Byte) /\ Len(result') = n
    BY <1>2, <2>1, RingFacts, RingIsASequence
  <2>3. SubSeq(Unread, 1, n) \in Seq(Byte) /\ Len(SubSeq(Unread, 1, n)) = n
    BY <1>1, <1>4, RingFacts
  <2>4. ASSUME NEW i \in 1 .. n PROVE result'[i] = SubSeq(Unread, 1, n)[i]
    <3>1. i \in 1 .. len
      BY <1>1, RingFacts
    <3>2. SubSeq(Unread, 1, n)[i] = Unread[i]
      BY <1>1, <1>4, RingFacts
    <3>3. QED
      BY <1>2, <3>1, <3>2 DEF Unread
  <2>5. QED
    BY <2>2, <2>3, <2>4, SeqEqual
<1>6. Unread' = SubSeq(Unread, n + 1, len)
  <2>1. Unread' = [i \in 1 .. len' |-> buffer'[Cell(readPos', i - 1)]]
    BY DEF Unread, Cell
  <2>2. Unread' \in Seq(Byte) /\ Len(Unread') = len - n
    <3>1. buffer' \in [Cells -> Byte] /\ readPos' \in Cells /\ len' \in 0 .. Capacity
      BY DEF IInv, TypeOK
    <3>2. Unread' \in Seq(Byte) /\ Len(Unread') = len'
      BY <2>1, <3>1, RingIsASequence
    <3>3. QED
      BY <1>2, <3>2
  <2>3. SubSeq(Unread, n + 1, len) \in Seq(Byte) /\ Len(SubSeq(Unread, n + 1, len)) = len - n
    BY <1>1, <1>4, RingFacts
  <2>4. ASSUME NEW i \in 1 .. len - n PROVE Unread'[i] = SubSeq(Unread, n + 1, len)[i]
    <3>1. i - 1 \in Nat /\ n + (i - 1) = n + i - 1 /\ n + (i - 1) <= Capacity
          /\ n + i \in 1 .. len
      BY <1>1, RingFacts
    <3>2. Cell(Cell(readPos, n), i - 1) = Cell(readPos, n + i - 1)
      BY <1>1, <3>1, RingFacts, CellOfCell
    <3>3. Unread'[i] = buffer[Cell(readPos, n + i - 1)]
      BY <1>2, <2>1, <3>2
    <3>4. SubSeq(Unread, n + 1, len)[i] = Unread[n + i]
      BY <1>1, <1>4, <3>1, RingFacts
    <3>5. Unread[n + i] = buffer[Cell(readPos, n + i - 1)]
      BY <1>1, <3>1, RingFacts DEF Unread
    <3>6. QED
      BY <1>1, <3>3, <3>4, <3>5, RingFacts
  <2>5. QED
    BY <2>2, <2>3, <2>4, SeqEqual
<1>7. QED
  BY <1>3, <1>4, <1>5, <1>6 DEF Queue!Take, Read

LEMMA EmptyRing ==
    ASSUME len' = 0
    PROVE  Unread' = <<>>
BY DEF Unread

LEMMA StepIsQueueStep ==
    ASSUME IInv, IInv', [Next]_vars
    PROVE  [Queue!Next]_(Queue!vars)
<1>1. ASSUME NEW data \in Chunk, Write(data) PROVE Queue!Next
  BY <1>1, WriteIsPut DEF Queue!Next
<1>2. ASSUME NEW k \in Count, Read(k) PROVE Queue!Next
  BY <1>2, ReadIsTake DEF Queue!Next
<1>3. CASE Create
  BY <1>3, EmptyRing DEF Create, Queue!Next, Queue!Reset
<1>4. CASE UNCHANGED vars
  BY <1>4 DEF vars, Queue!vars, Unread, Cell
<1>5. QED
  BY <1>1, <1>2, <1>3, <1>4 DEF Next

\* For every capacity, pipe_write and pipe_read on the ring are put and take on
\* a bounded queue: no byte is lost, repeated or reordered by the wrap-around.
THEOREM RefinesQueue == Spec => ImplementsQueue
<1>1. Init => Queue!Init
  BY DEF Init, Queue!Init, Unread
<1>2. IInv /\ IInv' /\ [Next]_vars => [Queue!Next]_(Queue!vars)
  BY StepIsQueueStep
<1>3. QED
  BY <1>1, <1>2, InitIInv, StepKeepsIInv, PTL DEF Spec, ImplementsQueue, Queue!Spec
=============================================================================

----------------------------- MODULE PipeQueue -----------------------------
(***************************************************************************)
(* What a pipe promises its two ends: a bounded queue of bytes.  A write   *)
(* appends as long a prefix of its data as there is room for, a read takes *)
(* as many of the oldest bytes as it asked for or there are.               *)
(* src/kernel/src/process.rs, the doc comments of pipe_read and pipe_write.*)
(***************************************************************************)
EXTENDS Integers, Sequences

CONSTANTS
    Chunk,     \* what may be offered to a write
    Count,     \* what may be asked of a read
    Capacity

VARIABLES
    queue,    \* the bytes written and not yet read, oldest first
    asked,    \* how many bytes the last call asked to move
    result    \* the bytes it accepted or returned

vars == <<queue, asked, result>>

Smaller(a, b) == IF a < b THEN a ELSE b

Init == queue = <<>> /\ asked = 0 /\ result = <<>>

Put(data) ==
    /\ asked' = Len(data)
    /\ result' = SubSeq(data, 1, Smaller(Len(data), Capacity - Len(queue)))
    /\ queue' = queue \o result'

Take(n) ==
    /\ asked' = n
    /\ result' = SubSeq(queue, 1, Smaller(n, Len(queue)))
    /\ queue' = SubSeq(queue, Smaller(n, Len(queue)) + 1, Len(queue))

\* The pipe is freed and its slot handed to a new one.
Reset == queue' = <<>> /\ asked' = 0 /\ result' = <<>>

Next ==
    \/ \E data \in Chunk : Put(data)
    \/ \E n \in Count : Take(n)
    \/ Reset

Spec == Init /\ [][Next]_vars
=============================================================================

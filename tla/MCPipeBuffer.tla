---------------------------- MODULE MCPipeBuffer ----------------------------
(* A small instance of PipeBuffer for TLC: requests up to one byte more than *)
(* the buffer holds, so that it wraps, fills, and refuses.                   *)
EXTENDS PipeBuffer

MCByte  == {0, 1}
MCCount == 0 .. 4
MCChunk == UNION {[1 .. n -> MCByte] : n \in MCCount}
=============================================================================

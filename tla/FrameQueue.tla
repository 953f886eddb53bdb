---------------------------- MODULE FrameQueue ----------------------------
(***************************************************************************)
(* What recv_packet promises its caller (nic.rs:26-31, 560-575): frames    *)
(* come out in the order in which they arrived, each once, a frame the     *)
(* hardware flagged as bad as an error, and a frame is lost only while     *)
(* all Capacity buffers are full.                                          *)
(***************************************************************************)
EXTENDS Naturals, Sequences

CONSTANTS Capacity, ArrivingFrames, NoFrame

VARIABLES waiting,   \* the frames that have arrived and were not taken
          taken,     \* what the last successful call returned, NoFrame for an error
          missed     \* the frames that found no buffer

FrameQueueInit == waiting = <<>> /\ taken = NoFrame /\ missed = {}

FrameArrives(f) ==
  \/ /\ Len(waiting) < Capacity
     /\ waiting' = Append(waiting, f)
     /\ UNCHANGED <<taken, missed>>
  \/ /\ Len(waiting) = Capacity
     /\ missed' = missed \union {f.frame}
     /\ UNCHANGED <<waiting, taken>>

TakeFrame ==
  /\ waiting # <<>>
  /\ waiting' = Tail(waiting)
  /\ taken' = IF Head(waiting).good THEN Head(waiting).frame ELSE NoFrame
  /\ UNCHANGED missed

FrameQueueNext == TakeFrame \/ \E f \in ArrivingFrames : FrameArrives(f)

FrameQueueSpec == FrameQueueInit /\ [][FrameQueueNext]_<<waiting, taken, missed>>
============================================================================

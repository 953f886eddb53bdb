---------------------------- MODULE MousePackets ----------------------------
(***************************************************************************)
(* The mouse driver (mouse.rs): the three-byte packets of the PS/2 mouse,  *)
(* one interrupt per byte, and the drawing mode they steer.  The mouse is  *)
(* the second actor; a byte it sends may be lost before it is read.  An    *)
(* interrupt handler runs to its end, so a byte is one step, with the      *)
(* packet it may complete and the pixel or line this may draw.             *)
(***************************************************************************)
EXTENDS Integers

CONSTANTS Packets,          \* what the mouse may report: [left, right : BOOLEAN, dx, dy : Int]
          Width, Height,    \* console::dimensions
          MaxPackets, MaxLost  \* bounds: packets sent, bytes lost

ASSUME MouseAssumption ==
  /\ Packets \subseteq [left : BOOLEAN, right : BOOLEAN, dx : -255..255, dy : -255..255]
  /\ {Width, Height} \subseteq Nat \ {0} /\ {MaxPackets, MaxLost} \subseteq Nat

VARIABLES
  sending,      \* the packet the mouse is sending, or sent last
  sendPhase,    \* how many of its bytes have left the mouse, modulo 3
  sentPackets, lostBytes,  \* counters, for the bounds
  packet,       \* PACKET, the status byte at 0
  packetIndex,  \* PACKET_INDEX
  mouse,        \* MOUSE
  drawing,      \* DRAWING_ENABLED
  drawLast,     \* DRAW_LAST, <<>> for None
  prevRight,    \* PREV_RIGHT
  calm          \* history: bytes read since the last loss or misleading byte, up to 7

mouseVars == <<sending, sendPhase, sentPackets, lostBytes, packet, packetIndex, mouse, drawing,
               drawLast, prevRight, calm>>

\* byte & mask # 0, for the mask of one bit.
Bit(byte, mask) == (byte \div mask) % 2 = 1

\* The bytes the mouse sends for a packet (external): buttons, bit 3, signs; then the two moves.
PacketByte(p, i) ==
  CASE i = 0 -> (IF p.left THEN 1 ELSE 0) + (IF p.right THEN 2 ELSE 0) + 8
                + (IF p.dx < 0 THEN 16 ELSE 0) + (IF p.dy < 0 THEN 32 ELSE 0)
    [] i = 1 -> p.dx % 256
    [] i = 2 -> p.dy % 256

Still == [x |-> 0, y |-> 0, left |-> FALSE, right |-> FALSE]

MouseInit ==
  /\ sending \in Packets /\ sendPhase = 0 /\ sentPackets = 0 /\ lostBytes = 0
  /\ packet = [i \in 0..2 |-> 0] /\ packetIndex = 0
  /\ mouse = Still
  /\ drawing = FALSE /\ drawLast = <<>> /\ prevRight = FALSE
  /\ calm = 7

----------------------------------------------------------------------------
(* The mouse.                                                              *)

\* The next byte leaves the mouse: the next of this packet or the first of another.
Sends ==
  /\ sentPackets < MaxPackets
  /\ sendPhase' = (sendPhase + 1) % 3
  /\ IF sendPhase = 0 THEN sending' \in Packets ELSE sending' = sending
  /\ sentPackets' = IF sendPhase = 2 THEN sentPackets + 1 ELSE sentPackets

ByteLost ==
  /\ Sends /\ lostBytes < MaxLost
  /\ lostBytes' = lostBytes + 1 /\ calm' = 0
  /\ UNCHANGED <<packet, packetIndex, mouse, drawing, drawLast, prevRight>>

----------------------------------------------------------------------------
(* on_interrupt.                                                           *)

\* A move with its sign, 0x10 or 0x20 of the status byte.
SignedMove(bytes, i) == IF Bit(bytes[0], 16 * i) THEN bytes[i] - 256 ELSE bytes[i]

MouseAfter(bytes) ==
  [x |-> mouse.x + SignedMove(bytes, 1), y |-> mouse.y - SignedMove(bytes, 2),
   left |-> Bit(bytes[0], 1), right |-> Bit(bytes[0], 2)]

Clamped(v, limit) == IF v < 0 THEN 0 ELSE IF v > limit - 1 THEN limit - 1 ELSE v
OnScreen(m) == <<Clamped(m.x, Width), Clamped(m.y, Height)>>

\* Mutant: the last position survives the release of the button.
PenWhileHeld(m) == drawLast' = IF m.left THEN OnScreen(m) ELSE drawLast

\* A line from the last position, a dot if there is none; no button, no position.
Pen(m) == drawLast' = IF m.left THEN OnScreen(m) ELSE <<>>

\* handle_draw_mode: the press of the right button ends the mode.
HandleDrawMode(m) ==
  IF ~drawing THEN UNCHANGED <<drawing, drawLast, prevRight>>
  ELSE /\ prevRight' = m.right
       /\ IF m.right /\ ~prevRight
          THEN drawing' = FALSE /\ drawLast' = <<>>
          ELSE UNCHANGED drawing /\ Pen(m)

\* Mutant: any byte is taken for a first byte.
InStepAny(byte) == TRUE

\* A byte without bit 3 is no first byte and is dropped.
InStep(byte) == packetIndex # 0 \/ Bit(byte, 8)

ByteRead ==
  /\ Sends
  /\ LET byte == PacketByte(sending', sendPhase)
         bytes == [packet EXCEPT ![packetIndex] = byte]
         misleads == sendPhase # 0 /\ Bit(byte, 8)
     IN /\ calm' = IF misleads THEN 0 ELSE IF calm = 7 THEN 7 ELSE calm + 1
        /\ IF ~InStep(byte)
           THEN UNCHANGED <<packet, packetIndex, mouse, drawing, drawLast, prevRight>>
           ELSE /\ packet' = bytes /\ packetIndex' = (packetIndex + 1) % 3
                /\ IF packetIndex = 2
                   THEN mouse' = MouseAfter(bytes) /\ HandleDrawMode(mouse')
                   ELSE UNCHANGED <<mouse, drawing, drawLast, prevRight>>
  /\ UNCHANGED lostBytes

----------------------------------------------------------------------------
(* The shell's `draw` and `stopdraw`, while no packet is being handled.    *)

EnterDrawMode ==
  /\ drawing' = TRUE /\ drawLast' = <<>> /\ prevRight' = FALSE
  /\ UNCHANGED <<sending, sendPhase, sentPackets, lostBytes, packet, packetIndex, mouse, calm>>

ExitDrawMode ==
  /\ drawing /\ drawing' = FALSE /\ drawLast' = <<>>
  /\ UNCHANGED <<sending, sendPhase, sentPackets, lostBytes, packet, packetIndex, mouse,
                 prevRight, calm>>

MouseNext == ByteRead \/ ByteLost \/ EnterDrawMode \/ ExitDrawMode

MouseSpec == MouseInit /\ [][MouseNext]_mouseVars

----------------------------------------------------------------------------
MouseTypeOK ==
  /\ sending \in Packets /\ sendPhase \in 0..2
  /\ sentPackets \in 0..MaxPackets /\ lostBytes \in 0..MaxLost
  /\ packet \in [0..2 -> 0..255] /\ packetIndex \in 0..2
  /\ mouse \in [x : Int, y : Int, left : BOOLEAN, right : BOOLEAN]
  /\ {drawing, prevRight} \subseteq BOOLEAN
  /\ drawLast \in {<<>>} \cup ((0..Width - 1) \X (0..Height - 1))
  /\ calm \in 0..7

\* Resynchronisation (the comment at mouse.rs:94-96): wherever a byte was lost, seven bytes later
\* at most, none of them a move with bit 3 set, the driver is back at the mouse's packet boundary
\* and the packet that ends there moves the pointer and sets the buttons as the mouse reported.
\* Moves with bit 3 set can keep it out of step for as long as they come.
DecodesWhatWasSent ==
  [][(ByteRead /\ calm' = 7 /\ sendPhase = 2) =>
       /\ packetIndex' = 0
       /\ mouse' = [x |-> mouse.x + sending.dx, y |-> mouse.y - sending.dy,
                    left |-> sending.left, right |-> sending.right]]_mouseVars

\* "so a fresh click doesn't snap a stray line in" (mouse.rs:171-173): a line starts only where
\* the pointer was in the packet before, with the left button down and within one drawing session.
PenFollowsMouse ==
  drawLast # <<>> => drawing /\ mouse.left /\ drawLast = OnScreen(mouse)
=============================================================================

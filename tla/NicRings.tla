----------------------------- MODULE NicRings -----------------------------
(***************************************************************************)
(* The driver of the e1000 network card (nic.rs): the two descriptor rings *)
(* it shares with the card, the initialisation, send_test_packet and       *)
(* recv_packet.  The card is a second actor: it moves the head of a ring   *)
(* whenever head and tail differ.  The driver is one: the shell calls it   *)
(* under the lock NIC, in the keyboard handler.                            *)
(* Frames are numbered in the order in which they come into being; what is *)
(* in them is left out.                                                    *)
(***************************************************************************)
EXTENDS Naturals, Sequences

CONSTANTS NumDesc,      \* NUM_TX_DESC and NUM_RX_DESC, 8 in the code
          MaxFrames     \* bound: frames sent and arriving from outside

ASSUME NumDescAssumption == NumDesc \in Nat /\ NumDesc >= 2
ASSUME MaxFramesAssumption == MaxFrames \in Nat

VARIABLES
  nicPhase,    \* how far init has come: "off", "reset", "sending", "receiving", "ready", "failed"
  txRing,      \* DMA_REGION: per slot the frame in its buffer and the DD bit
  tdh, tdt,    \* the card's registers TDH and TDT
  txTail,      \* NicState.tx_tail
  txFetched,   \* the frame the card has read from slot TDH, NoFrameId before it reads
  rxRing,      \* RX_DESC_REGION and RX_BUFFERS: frame, DD bit, whether length and errors are good
  rdh, rdt,    \* the card's registers RDH and RDT
  rxNext,      \* NicState.rx_next
  nicCall,     \* the call of the driver in progress: "none", "polling", "copied"
  frames,      \* how many frames have come into being
  queuedTx,    \* history: the frames send_test_packet was called for
  sentTx,      \* history: the frames the card has put on the wire
  confirmedTx, \* history: the frames for which Ok(true) was returned
  overrun,     \* history: a send has made TDT equal to TDH with frames in the ring
  takenRx,     \* the frame the last successful recv_packet returned
  missedRx     \* history: the frames the card dropped

rxVars == <<rxRing, rdh, rdt, rxNext, takenRx, missedRx>>
txVars == <<txRing, tdh, tdt, txTail, txFetched, queuedTx, sentTx, confirmedTx, overrun>>
nicVars == <<nicPhase, nicCall, frames, rxVars, txVars>>

NoFrameId == 0
FrameId == 1..MaxFrames
RingSlots == 0..NumDesc - 1
NextSlot(i) == (i + 1) % NumDesc

\* The number of slots from head up to, not including, tail.
Distance(head, tail) == (tail + NumDesc - head) % NumDesc

\* The slots that belong to the card: from the head register up to the tail register.
CardSlots(head, tail) == {i \in RingSlots : Distance(head, i) < Distance(head, tail)}

EmptyRxSlot == [frame |-> NoFrameId, dd |-> FALSE, good |-> TRUE]

NicInit ==
  /\ nicPhase = "off" /\ nicCall = "none" /\ frames = 0
  /\ txRing = [i \in RingSlots |-> [frame |-> NoFrameId, dd |-> FALSE]]
  /\ rxRing = [i \in RingSlots |-> EmptyRxSlot]
  /\ tdh = 0 /\ tdt = 0 /\ txTail = 0 /\ txFetched = NoFrameId
  /\ rdh = 0 /\ rdt = 0 /\ rxNext = 0
  /\ queuedTx = {} /\ sentTx = {} /\ confirmedTx = {} /\ overrun = FALSE
  /\ takenRx = NoFrameId /\ missedRx = {}

----------------------------------------------------------------------------
(* init: one action per stage; every stage may return an error instead.    *)

InitStage(from, to) ==
  /\ nicPhase = from /\ nicPhase' = to
  /\ UNCHANGED <<nicCall, frames>>

\* No card, a card of another maker, a port BAR, a reset that never ends, an address that cannot
\* be translated, an MDIC write that fails.
InitFails ==
  /\ nicPhase \in {"off", "reset", "sending", "receiving"}
  /\ InitStage(nicPhase, "failed")
  /\ UNCHANGED <<rxVars, txVars>>

ResetCard == InitStage("off", "reset") /\ UNCHANGED <<rxVars, txVars>>

SetUpTxRing ==
  /\ InitStage("reset", "sending")
  /\ tdh' = 0 /\ tdt' = 0
  /\ UNCHANGED <<rxVars, txRing, txTail, txFetched, queuedTx, sentTx, confirmedTx, overrun>>

\* Mutant: the receive tail is one slot further, on the head.
SetUpRxRingFull ==
  /\ InitStage("sending", "receiving")
  /\ rxRing' = [i \in RingSlots |-> EmptyRxSlot]
  /\ rdh' = 0 /\ rdt' = 0
  /\ UNCHANGED <<txVars, rxNext, takenRx, missedRx>>

\* RCTL.EN is the last write of the stage: from here on frames may arrive.
SetUpRxRing ==
  /\ InitStage("sending", "receiving")
  /\ rxRing' = [i \in RingSlots |-> EmptyRxSlot]
  /\ rdh' = 0 /\ rdt' = NumDesc - 1
  /\ UNCHANGED <<txVars, rxNext, takenRx, missedRx>>

\* mdic_write has set the PHY's loopback bit; NIC becomes Some.
SetUpLoopback ==
  /\ InitStage("receiving", "ready")
  /\ txTail' = 0 /\ rxNext' = 0
  /\ UNCHANGED <<txRing, tdh, tdt, txFetched, queuedTx, sentTx, confirmedTx, overrun,
                 rxRing, rdh, rdt, takenRx, missedRx>>

----------------------------------------------------------------------------
(* The card (external, as nic.rs uses it).                                 *)

Listening == nicPhase \in {"receiving", "ready"} \/ (nicPhase = "failed" /\ rdt # rdh)

\* A frame goes into the slot at RDH, or nowhere when RDH has caught up with RDT.
Receive(f, isGood) ==
  IF rdh # rdt
  THEN /\ rxRing' = [rxRing EXCEPT ![rdh] = [frame |-> f, dd |-> TRUE, good |-> isGood]]
       /\ rdh' = NextSlot(rdh)
       /\ UNCHANGED <<rdt, rxNext, takenRx, missedRx>>
  ELSE /\ missedRx' = missedRx \union {f}
       /\ UNCHANGED <<rxRing, rdh, rdt, rxNext, takenRx>>

\* A frame from outside, possibly with an error or shorter than a header.
FrameFromOutside ==
  /\ Listening /\ frames < MaxFrames
  /\ frames' = frames + 1
  /\ \E isGood \in BOOLEAN : Receive(frames', isGood)
  /\ UNCHANGED <<nicPhase, nicCall, txVars>>

CardFetches ==
  /\ tdh # tdt /\ txFetched = NoFrameId
  /\ txFetched' = txRing[tdh].frame
  /\ UNCHANGED <<nicPhase, nicCall, frames, rxVars, txRing, tdh, tdt, txTail, queuedTx, sentTx,
                 confirmedTx, overrun>>

\* The frame is on the wire and, looped back, in the receive ring; DD is written to the slot.
CardTransmits ==
  /\ txFetched # NoFrameId
  /\ sentTx' = sentTx \union {txFetched}
  /\ txRing' = [txRing EXCEPT ![tdh].dd = TRUE]
  /\ tdh' = NextSlot(tdh) /\ txFetched' = NoFrameId
  /\ Receive(txFetched, TRUE)
  /\ UNCHANGED <<nicPhase, nicCall, frames, tdt, txTail, queuedTx, confirmedTx, overrun>>

----------------------------------------------------------------------------
(* send_test_packet.                                                       *)

\* Buffer and descriptor of the slot at the tail are overwritten, whoever owns them.
QueueFrame ==
  /\ nicPhase = "ready" /\ nicCall = "none" /\ frames < MaxFrames
  /\ nicCall' = "polling" /\ frames' = frames + 1
  /\ txRing' = [txRing EXCEPT ![txTail] = [frame |-> frames', dd |-> FALSE]]
  /\ tdt' = NextSlot(txTail)
  /\ queuedTx' = queuedTx \union {frames'}
  /\ overrun' = (overrun \/ NextSlot(txTail) = tdh)
  /\ UNCHANGED <<nicPhase, rxVars, tdh, txTail, txFetched, sentTx, confirmedTx>>

\* Mutant: the slot after that of the frame.
PolledSlotNext == NextSlot(txTail)

\* The slot whose status byte the loop reads.
PolledSlot == txTail

SendReturns(isConfirmed) ==
  /\ nicCall = "polling"
  /\ nicCall' = "none" /\ txTail' = NextSlot(txTail)
  /\ confirmedTx' = IF isConfirmed THEN confirmedTx \union {txRing[txTail].frame} ELSE confirmedTx
  /\ UNCHANGED <<nicPhase, frames, rxVars, txRing, tdh, tdt, txFetched, queuedTx, sentTx, overrun>>

\* DD is set in the slot of the frame.
SendConfirmed == txRing[PolledSlot].dd /\ SendReturns(TRUE)

\* The last of the polls has still not seen DD.
SendUnconfirmed == ~txRing[PolledSlot].dd /\ SendReturns(FALSE)

----------------------------------------------------------------------------
(* recv_packet.  A call that sees no DD bit changes nothing.               *)

CopyFrame ==
  /\ nicPhase = "ready" /\ nicCall = "none" /\ rxRing[rxNext].dd
  /\ nicCall' = "copied"
  /\ UNCHANGED <<nicPhase, frames, txVars, rxVars>>

\* Mutant: the tail register is set to the slot after the recycled one.
RecycleNext ==
  /\ nicCall = "copied" /\ nicCall' = "none"
  /\ rxRing' = [rxRing EXCEPT ![rxNext].dd = FALSE]
  /\ rdt' = NextSlot(rxNext) /\ rxNext' = NextSlot(rxNext)
  /\ takenRx' = IF rxRing[rxNext].good THEN rxRing[rxNext].frame ELSE NoFrameId
  /\ UNCHANGED <<nicPhase, frames, txVars, rdh, missedRx>>

\* The slot goes back to the card, for a bad frame too, and the call returns.
Recycle ==
  /\ nicCall = "copied" /\ nicCall' = "none"
  /\ rxRing' = [rxRing EXCEPT ![rxNext].dd = FALSE]
  /\ rdt' = rxNext /\ rxNext' = NextSlot(rxNext)
  /\ takenRx' = IF rxRing[rxNext].good THEN rxRing[rxNext].frame ELSE NoFrameId
  /\ UNCHANGED <<nicPhase, frames, txVars, rdh, missedRx>>

----------------------------------------------------------------------------
NicDone ==   \* the bound on frames is reached and nothing is in flight
  /\ \/ nicPhase = "failed" /\ (~Listening \/ frames = MaxFrames)
     \/ /\ nicPhase = "ready" /\ nicCall = "none" /\ frames = MaxFrames
        /\ tdh = tdt /\ ~rxRing[rxNext].dd
  /\ UNCHANGED nicVars

NicNext ==
  \/ InitFails \/ ResetCard \/ SetUpTxRing \/ SetUpRxRing \/ SetUpLoopback
  \/ FrameFromOutside \/ CardFetches \/ CardTransmits
  \/ QueueFrame \/ SendConfirmed \/ SendUnconfirmed
  \/ CopyFrame \/ Recycle \/ NicDone

NicSpec == NicInit /\ [][NicNext]_nicVars

----------------------------------------------------------------------------
NicTypeOK ==
  /\ nicPhase \in {"off", "reset", "sending", "receiving", "ready", "failed"}
  /\ nicCall \in {"none", "polling", "copied"}
  /\ frames \in 0..MaxFrames
  /\ txRing \in [RingSlots -> [frame : 0..MaxFrames, dd : BOOLEAN]]
  /\ rxRing \in [RingSlots -> [frame : 0..MaxFrames, dd : BOOLEAN, good : BOOLEAN]]
  /\ tdh \in RingSlots /\ tdt \in RingSlots /\ txTail \in RingSlots
  /\ rdh \in RingSlots /\ rdt \in RingSlots /\ rxNext \in RingSlots
  /\ txFetched \in 0..MaxFrames /\ takenRx \in 0..MaxFrames
  /\ queuedTx \subseteq FrameId /\ sentTx \subseteq FrameId
  /\ confirmedTx \subseteq FrameId /\ missedRx \subseteq FrameId
  /\ overrun \in BOOLEAN

\* A slot of the receive ring belongs to the card or to the driver, never to both: those the card
\* may fill carry no DD bit, those with a DD bit are exactly the ones from rx_next to RDH, and the
\* slot a call is copying from is one of them (recv_packet's copy and its write of RDT).
RxSlotsHaveOneOwner ==
  nicPhase = "ready" =>
    /\ {i \in RingSlots : rxRing[i].dd} = CardSlots(rxNext, rdh)
    /\ \A i \in CardSlots(rdh, rdt) : ~rxRing[i].dd
    /\ nicCall = "copied" => rxRing[rxNext].dd

\* "the frame WAS queued" (nic.rs:505-506), and a confirmation is the card's own: as long as TDT
\* has not caught up with TDH, a frame that was accepted is on the wire or in a slot of the card,
\* and a confirmed one is on the wire.  With NumDesc frames unconfirmed neither holds any more.
QueuedFramesSurvive ==
  ~overrun =>
    /\ \A f \in queuedTx : f \in sentTx \/ \E i \in CardSlots(tdh, tdt) : txRing[i].frame = f
    /\ confirmedTx \subseteq sentTx

\* The receive ring is a queue of NumDesc - 1 frames that loses a frame only when it is full.
WaitingFrames ==
  [k \in 1..Distance(rxNext, rdh) |->
     [frame |-> rxRing[(rxNext + k - 1) % NumDesc].frame,
      good |-> rxRing[(rxNext + k - 1) % NumDesc].good]]

Incoming == INSTANCE FrameQueue WITH
  Capacity <- NumDesc - 1, ArrivingFrames <- [frame : FrameId, good : BOOLEAN],
  NoFrame <- NoFrameId, waiting <- WaitingFrames, taken <- takenRx, missed <- missedRx

\* recv_packet over the ring, the card filling it at any moment, implements FrameQueue.
ImplementsFrameQueue == Incoming!FrameQueueSpec
============================================================================

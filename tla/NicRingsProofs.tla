-------------------------- MODULE NicRingsProofs --------------------------
(***************************************************************************)
(* Proofs about NicRings, for every number of descriptors: the slots of    *)
(* the receive ring have one owner each, frames queued for sending survive *)
(* as long as the ring is not overrun, and recv_packet over the receive    *)
(* ring implements the queue of frames.                                    *)
(***************************************************************************)
EXTENDS NicRings, SequenceTheorems, TLAPS

(* Arithmetic on slots: every sum of a slot and a distance wraps at most once. *)

LEMMA SlotWraps ==
    ASSUME NEW a \in 0 .. 2 * NumDesc - 1
    PROVE  a % NumDesc = IF a < NumDesc THEN a ELSE a - NumDesc
<1> USE NumDescAssumption
<1>1. CASE a < NumDesc
  BY <1>1
<1>2. CASE a >= NumDesc
  <2>1. (a - NumDesc) \in 0 .. NumDesc - 1
    BY <1>2
  <2>2. QED
    BY <1>2, <2>1
<1>3. QED
  BY <1>1, <1>2

LEMMA NextSlotValue ==
    ASSUME NEW i \in RingSlots
    PROVE  /\ NextSlot(i) = IF i = NumDesc - 1 THEN 0 ELSE i + 1
           /\ NextSlot(i) \in RingSlots
<1>1. i + 1 \in 0 .. 2 * NumDesc - 1
  BY NumDescAssumption DEF RingSlots
<1> DEFINE s == i + 1
<1>2. s % NumDesc = IF s < NumDesc THEN s ELSE s - NumDesc
  <2> HIDE DEF s
  <2>1. QED
    BY <1>1, SlotWraps DEF s
<1>3. QED
  BY <1>2, NumDescAssumption DEF NextSlot, RingSlots

LEMMA DistanceValue ==
    ASSUME NEW a \in RingSlots, NEW b \in RingSlots
    PROVE  /\ Distance(a, b) = IF a <= b THEN b - a ELSE b - a + NumDesc
           /\ Distance(a, b) \in 0 .. NumDesc - 1
           /\ Distance(a, b) \in Nat
<1> DEFINE s == b + NumDesc - a
<1>1. s \in 0 .. 2 * NumDesc - 1 /\ s - NumDesc = b - a /\ (s < NumDesc <=> ~(a <= b))
      /\ s = b - a + NumDesc
  BY NumDescAssumption DEF RingSlots
<1> HIDE DEF s
<1>2. s % NumDesc = IF s < NumDesc THEN s ELSE s - NumDesc
  BY <1>1, SlotWraps
<1>3. s % NumDesc = IF a <= b THEN b - a ELSE b - a + NumDesc
  BY <1>1, <1>2
<1>4. Distance(a, b) = s % NumDesc
  BY DEF Distance, s
<1>5. QED
  BY <1>3, <1>4, NumDescAssumption DEF RingSlots

LEMMA NextSlotIsInjective ==
    ASSUME NEW a \in RingSlots, NEW b \in RingSlots, NextSlot(a) = NextSlot(b)
    PROVE  a = b
BY NextSlotValue, NumDescAssumption DEF RingSlots

LEMMA DistanceIsInjective ==
    ASSUME NEW h \in RingSlots, NEW i \in RingSlots, NEW j \in RingSlots
    PROVE  Distance(h, i) = Distance(h, j) <=> i = j
<1>1. Distance(h, i) = IF h <= i THEN i - h ELSE i - h + NumDesc
  BY DistanceValue
<1>2. Distance(h, j) = IF h <= j THEN j - h ELSE j - h + NumDesc
  BY DistanceValue
<1>3. QED
  BY <1>1, <1>2, NumDescAssumption DEF RingSlots

\* The slots from h to t, after t or h has moved on.
LEMMA SlotsGrow ==
    ASSUME NEW h \in RingSlots, NEW t \in RingSlots, NextSlot(t) # h
    PROVE  /\ Distance(h, NextSlot(t)) = Distance(h, t) + 1
           /\ \A i \in RingSlots : Distance(h, i) < Distance(h, NextSlot(t))
                                   <=> i = t \/ Distance(h, i) < Distance(h, t)
<1>1. /\ NextSlot(t) \in RingSlots
      /\ NextSlot(t) = IF t = NumDesc - 1 THEN 0 ELSE t + 1
  BY NextSlotValue
<1>2. Distance(h, NextSlot(t)) = Distance(h, t) + 1
  <2> DEFINE n == NextSlot(t)
  <2>1. Distance(h, n) = IF h <= n THEN n - h ELSE n - h + NumDesc
    BY <1>1, DistanceValue
  <2>2. Distance(h, t) = IF h <= t THEN t - h ELSE t - h + NumDesc
    BY DistanceValue
  <2>3. n \in RingSlots /\ n # h /\ n = IF t = NumDesc - 1 THEN 0 ELSE t + 1
    BY <1>1
  <2> HIDE DEF n
  <2>4. Distance(h, n) = Distance(h, t) + 1
    BY <2>1, <2>2, <2>3, NumDescAssumption DEF RingSlots
  <2>5. QED
    BY <2>4 DEF n
<1>3. ASSUME NEW i \in RingSlots PROVE Distance(h, i) = Distance(h, t) <=> i = t
  BY DistanceIsInjective
<1>4. QED
  BY <1>2, <1>3, DistanceValue

LEMMA SlotsShrink ==
    ASSUME NEW h \in RingSlots, NEW t \in RingSlots, h # t
    PROVE  /\ Distance(NextSlot(h), t) = Distance(h, t) - 1
           /\ \A i \in RingSlots : Distance(NextSlot(h), i) < Distance(NextSlot(h), t)
                                   <=> i # h /\ Distance(h, i) < Distance(h, t)
<1>1. /\ NextSlot(h) \in RingSlots
      /\ NextSlot(h) = IF h = NumDesc - 1 THEN 0 ELSE h + 1
  BY NextSlotValue
<1>2. ASSUME NEW i \in RingSlots
      PROVE  Distance(NextSlot(h), i) = IF i = h THEN NumDesc - 1 ELSE Distance(h, i) - 1
  <2> DEFINE n == NextSlot(h)
  <2>1. Distance(n, i) = IF n <= i THEN i - n ELSE i - n + NumDesc
    BY <1>1, DistanceValue
  <2>2. Distance(h, i) = IF h <= i THEN i - h ELSE i - h + NumDesc
    BY DistanceValue
  <2>3. n \in RingSlots /\ n = IF h = NumDesc - 1 THEN 0 ELSE h + 1
    BY <1>1
  <2> HIDE DEF n
  <2>4. Distance(n, i) = IF i = h THEN NumDesc - 1 ELSE Distance(h, i) - 1
    BY <2>1, <2>2, <2>3, NumDescAssumption DEF RingSlots
  <2>5. QED
    BY <2>4 DEF n
<1>3. Distance(h, t) \in 0 .. NumDesc - 1
  BY DistanceValue
<1>4. ASSUME NEW i \in RingSlots
      PROVE  Distance(NextSlot(h), i) < Distance(NextSlot(h), t)
               <=> i # h /\ Distance(h, i) < Distance(h, t)
  <2>1. Distance(NextSlot(h), i) = IF i = h THEN NumDesc - 1 ELSE Distance(h, i) - 1
    BY <1>2
  <2>2. Distance(NextSlot(h), t) = Distance(h, t) - 1
    BY <1>2
  <2>3. Distance(h, i) \in Nat
    BY DistanceValue
  <2>4. QED
    BY <1>3, <2>1, <2>2, <2>3, NumDescAssumption
<1>5. QED
  BY <1>2, <1>4

\* The ring has one slot less than it has room for: from n to h and from h to t, if n follows t.
LEMMA SlotsAreShared ==
    ASSUME NEW n \in RingSlots, NEW h \in RingSlots, NEW t \in RingSlots, NextSlot(t) = n
    PROVE  /\ h = t <=> Distance(n, h) = NumDesc - 1
           /\ \A i \in RingSlots :
                Distance(h, i) < Distance(h, t) => Distance(n, i) >= Distance(n, h)
<1>1. n = IF t = NumDesc - 1 THEN 0 ELSE t + 1
  BY NextSlotValue
<1>2. Distance(n, h) = IF n <= h THEN h - n ELSE h - n + NumDesc
  BY DistanceValue
<1>3. h = t <=> Distance(n, h) = NumDesc - 1
  BY <1>1, <1>2, NumDescAssumption DEF RingSlots
<1>4. ASSUME NEW i \in RingSlots, Distance(h, i) < Distance(h, t)
      PROVE  Distance(n, i) >= Distance(n, h)
  <2>1. Distance(n, i) = IF n <= i THEN i - n ELSE i - n + NumDesc
    BY DistanceValue
  <2>2. Distance(h, i) = IF h <= i THEN i - h ELSE i - h + NumDesc
    BY DistanceValue
  <2>3. Distance(h, t) = IF h <= t THEN t - h ELSE t - h + NumDesc
    BY DistanceValue
  <2>4. QED
    BY <1>1, <1>2, <1>4, <2>1, <2>2, <2>3, NumDescAssumption DEF RingSlots
<1>5. QED
  BY <1>3, <1>4

-----------------------------------------------------------------------------
(* Types.                                                                  *)

TxSlot == [frame : 0 .. MaxFrames, dd : BOOLEAN]
RxSlot == [frame : 0 .. MaxFrames, dd : BOOLEAN, good : BOOLEAN]

\* What a step of the card does to the receive ring keeps its types.
LEMMA ReceiveKeepsTypes ==
    ASSUME NicTypeOK, NEW f \in FrameId, NEW isGood \in BOOLEAN, Receive(f, isGood)
    PROVE  /\ rxRing' \in [RingSlots -> RxSlot]
           /\ rdh' \in RingSlots /\ rdt' \in RingSlots /\ rxNext' \in RingSlots
           /\ takenRx' \in 0 .. MaxFrames /\ missedRx' \subseteq FrameId
<1>1. rdh \in RingSlots /\ rxRing \in [RingSlots -> RxSlot]
  BY DEF NicTypeOK, RxSlot
<1>2. CASE rdh # rdt
  <2>1. [frame |-> f, dd |-> TRUE, good |-> isGood] \in RxSlot
    BY MaxFramesAssumption DEF RxSlot, FrameId
  <2>2. rxRing' \in [RingSlots -> RxSlot]
    BY <1>1, <1>2, <2>1 DEF Receive
  <2>3. QED
    BY <1>1, <1>2, <2>2, NextSlotValue DEF Receive, NicTypeOK
<1>3. CASE rdh = rdt
  BY <1>1, <1>3 DEF Receive, NicTypeOK
<1>4. QED
  BY <1>2, <1>3

\* Calls are made of a card that is ready, and a frame that is being polled for has a number, so
\* that a confirmed one does.
TypeInv ==
  /\ NicTypeOK
  /\ nicCall # "none" => nicPhase = "ready"
  /\ nicCall = "polling" => txRing[txTail].frame \in FrameId

LEMMA InitTypes == NicInit => TypeInv
<1> SUFFICES ASSUME NicInit PROVE TypeInv
  OBVIOUS
<1>1. 0 \in RingSlots /\ 0 \in 0 .. MaxFrames
  BY NumDescAssumption, MaxFramesAssumption DEF RingSlots
<1>2. /\ txRing \in [RingSlots -> [frame : 0 .. MaxFrames, dd : BOOLEAN]]
      /\ rxRing \in [RingSlots -> [frame : 0 .. MaxFrames, dd : BOOLEAN, good : BOOLEAN]]
  BY <1>1 DEF NicInit, EmptyRxSlot, NoFrameId
<1>3. QED
  BY <1>1, <1>2 DEF NicInit, TypeInv, NicTypeOK, NoFrameId

LEMMA StepKeepsTypes ==
    ASSUME TypeInv, [NicNext]_nicVars
    PROVE  TypeInv'
<1> USE NumDescAssumption, MaxFramesAssumption DEF TypeInv, NicTypeOK, rxVars, txVars
<1>1. CASE InitFails
  BY <1>1 DEF InitFails, InitStage
<1>2. CASE ResetCard
  BY <1>2 DEF ResetCard, InitStage
<1>3. CASE SetUpTxRing
  BY <1>3 DEF SetUpTxRing, InitStage, RingSlots
<1>4. CASE SetUpRxRing
  <2>1. rxRing' \in [RingSlots -> [frame : 0 .. MaxFrames, dd : BOOLEAN, good : BOOLEAN]]
    BY <1>4 DEF SetUpRxRing, EmptyRxSlot, NoFrameId
  <2>2. 0 \in RingSlots /\ NumDesc - 1 \in RingSlots
    BY DEF RingSlots
  <2>3. QED
    BY <1>4, <2>1, <2>2 DEF SetUpRxRing, InitStage
<1>5. CASE SetUpLoopback
  BY <1>5 DEF SetUpLoopback, InitStage, RingSlots
<1>6. CASE FrameFromOutside
  <2>1. frames' \in FrameId /\ frames' \in 0 .. MaxFrames
    BY <1>6 DEF FrameFromOutside, FrameId
  <2>2. PICK isGood \in BOOLEAN : Receive(frames', isGood)
    BY <1>6 DEF FrameFromOutside
  <2>3. QED
    BY <1>6, <2>1, <2>2, ReceiveKeepsTypes DEF FrameFromOutside, RxSlot
<1>7. CASE CardFetches
  BY <1>7 DEF CardFetches
<1>8. CASE CardTransmits
  <2>1. txFetched \in FrameId
    BY <1>8 DEF CardTransmits, FrameId, NoFrameId
  <2>2. /\ rxRing' \in [RingSlots -> [frame : 0 .. MaxFrames, dd : BOOLEAN, good : BOOLEAN]]
        /\ rdh' \in RingSlots /\ rdt' \in RingSlots /\ rxNext' \in RingSlots
        /\ takenRx' \in 0 .. MaxFrames /\ missedRx' \subseteq FrameId
    BY <1>8, <2>1, ReceiveKeepsTypes DEF CardTransmits, RxSlot
  <2>3. tdh' \in RingSlots
    BY <1>8, NextSlotValue DEF CardTransmits
  <2>4. /\ txRing' \in [RingSlots -> [frame : 0 .. MaxFrames, dd : BOOLEAN]]
        /\ \A i \in RingSlots : txRing'[i].frame = txRing[i].frame
    BY <1>8 DEF CardTransmits
  <2>5. sentTx' \subseteq FrameId /\ txFetched' \in 0 .. MaxFrames
    BY <1>8, <2>1 DEF CardTransmits, NoFrameId
  <2>6. QED
    BY <1>8, <2>2, <2>3, <2>4, <2>5 DEF CardTransmits
<1>9. CASE QueueFrame
  <2>1. frames' \in FrameId /\ frames' \in 0 .. MaxFrames
    BY <1>9 DEF QueueFrame, FrameId
  <2>2. NextSlot(txTail) \in RingSlots
    BY NextSlotValue
  <2>3. overrun' \in BOOLEAN
    BY <1>9 DEF QueueFrame
  <2>4. txRing' \in [RingSlots -> [frame : 0 .. MaxFrames, dd : BOOLEAN]]
        /\ txRing'[txTail].frame = frames'
    BY <1>9, <2>1 DEF QueueFrame
  <2>5. QED
    BY <1>9, <2>1, <2>2, <2>3, <2>4 DEF QueueFrame
<1>10. ASSUME NEW c \in BOOLEAN, SendReturns(c) PROVE TypeInv'
  <2>1. NextSlot(txTail) \in RingSlots
    BY NextSlotValue
  <2>2. txRing[txTail].frame \in FrameId /\ nicCall' = "none"
    BY <1>10 DEF SendReturns
  <2>3. confirmedTx' \subseteq FrameId
    BY <1>10, <2>2 DEF SendReturns
  <2>4. QED
    BY <1>10, <2>1, <2>2, <2>3 DEF SendReturns
<1>11. CASE CopyFrame
  BY <1>11 DEF CopyFrame
<1>12. CASE Recycle
  <2>1. NextSlot(rxNext) \in RingSlots
    BY NextSlotValue
  <2>2. rxRing[rxNext] \in [frame : 0 .. MaxFrames, dd : BOOLEAN, good : BOOLEAN]
    OBVIOUS
  <2>3. rxRing' \in [RingSlots -> [frame : 0 .. MaxFrames, dd : BOOLEAN, good : BOOLEAN]]
    BY <1>12, <2>2 DEF Recycle
  <2>4. takenRx' \in 0 .. MaxFrames
    BY <1>12, <2>2 DEF Recycle, NoFrameId
  <2>5. QED
    BY <1>12, <2>1, <2>3, <2>4 DEF Recycle
<1>13. CASE UNCHANGED nicVars
  BY <1>13 DEF nicVars
<1>14. QED
  BY <1>1, <1>2, <1>3, <1>4, <1>5, <1>6, <1>7, <1>8, <1>9, <1>10, <1>11, <1>12, <1>13
     DEF NicNext, SendConfirmed, SendUnconfirmed, NicDone

LEMMA TypesHold == NicSpec => []TypeInv
BY InitTypes, StepKeepsTypes, PTL DEF NicSpec

\* The type invariant of the card's rings, for every number of descriptors and of frames.
THEOREM NicTypeCorrect == NicSpec => []NicTypeOK
<1>1. TypeInv => NicTypeOK
  BY DEF TypeInv
<1>2. QED
  BY <1>1, TypesHold, PTL

-----------------------------------------------------------------------------
(* The receive ring.                                                       *)

Unused ==
  /\ nicPhase \in {"off", "reset", "sending", "failed"}
  /\ rdh = 0 /\ rdt = 0 /\ rxNext = 0
  /\ \A i \in RingSlots : ~rxRing[i].dd

InUse ==
  /\ nicPhase \in {"receiving", "ready", "failed"}
  /\ nicPhase = "receiving" => rxNext = 0
  /\ NextSlot(rdt) = rxNext
  /\ \A i \in RingSlots : rxRing[i].dd <=> Distance(rxNext, i) < Distance(rxNext, rdh)

\* The receive tail is the slot before rx_next, and the slots with a DD bit lie between rx_next
\* and RDH.
RxInv == (Unused \/ InUse) /\ (nicCall = "copied" => rxRing[rxNext].dd)

LEMMA ReceiveKeepsRxInv ==
    ASSUME TypeInv, RxInv, NEW f, NEW isGood, Receive(f, isGood), UNCHANGED <<nicPhase, nicCall>>
    PROVE  RxInv'
<1>1. /\ rdh \in RingSlots /\ rdt \in RingSlots /\ rxNext \in RingSlots
      /\ rxRing \in [RingSlots -> [frame : 0 .. MaxFrames, dd : BOOLEAN, good : BOOLEAN]]
  BY DEF TypeInv, NicTypeOK
<1>2. CASE rdh = rdt
  BY <1>2 DEF Receive, RxInv, Unused, InUse
<1>3. CASE rdh # rdt
  <2>1. InUse
    BY <1>3 DEF RxInv, Unused
  <2>2. /\ rdh' = NextSlot(rdh) /\ rdt' = rdt /\ rxNext' = rxNext
        /\ rxRing' = [rxRing EXCEPT ![rdh] = [frame |-> f, dd |-> TRUE, good |-> isGood]]
    BY <1>3 DEF Receive
  <2>3. NextSlot(rdh) # rxNext
    BY <1>1, <1>3, <2>1, NextSlotIsInjective DEF InUse
  <2>4. ASSUME NEW i \in RingSlots
        PROVE  rxRing'[i].dd <=> Distance(rxNext, i) < Distance(rxNext, rdh')
    <3>1. Distance(rxNext, i) < Distance(rxNext, rdh')
            <=> i = rdh \/ Distance(rxNext, i) < Distance(rxNext, rdh)
      BY <1>1, <2>2, <2>3, SlotsGrow
    <3>2. CASE i = rdh
      BY <1>1, <2>2, <3>1, <3>2
    <3>3. CASE i # rdh
      BY <1>1, <2>1, <2>2, <3>1, <3>3 DEF InUse
    <3>4. QED
      BY <3>2, <3>3
  <2>5. InUse'
    BY <2>1, <2>2, <2>4 DEF InUse
  <2>6. QED
    BY <1>1, <2>2, <2>5 DEF RxInv
<1>4. QED
  BY <1>2, <1>3

LEMMA InitRxInv == NicInit => RxInv
BY DEF NicInit, RxInv, Unused, EmptyRxSlot

LEMMA StepKeepsRxInv ==
    ASSUME TypeInv, TypeInv', RxInv, [NicNext]_nicVars
    PROVE  RxInv'
<1> USE DEF rxVars
<1>1. CASE InitFails
  BY <1>1 DEF InitFails, InitStage, RxInv, Unused, InUse, TypeInv
<1>2. CASE ResetCard
  BY <1>2 DEF ResetCard, InitStage, RxInv, Unused, InUse
<1>3. CASE SetUpTxRing
  BY <1>3 DEF SetUpTxRing, InitStage, RxInv, Unused, InUse
<1>4. CASE SetUpRxRing
  <2>1. Unused /\ nicCall = "none" /\ nicCall' = "none"
    BY <1>4 DEF SetUpRxRing, InitStage, RxInv, InUse, TypeInv
  <2>2. /\ nicPhase' = "receiving" /\ rdh' = 0 /\ rdt' = NumDesc - 1 /\ rxNext' = 0
        /\ \A i \in RingSlots : ~rxRing'[i].dd
    BY <1>4, <2>1 DEF SetUpRxRing, InitStage, Unused, EmptyRxSlot
  <2>3. 0 \in RingSlots /\ NumDesc - 1 \in RingSlots /\ NextSlot(NumDesc - 1) = 0
    BY NextSlotValue, NumDescAssumption DEF RingSlots
  <2>4. \A i \in RingSlots : ~(Distance(0, i) < Distance(0, 0))
    BY <2>3, DistanceValue
  <2>5. QED
    BY <2>1, <2>2, <2>3, <2>4 DEF RxInv, InUse
<1>5. CASE SetUpLoopback
  BY <1>5 DEF SetUpLoopback, InitStage, RxInv, Unused, InUse, TypeInv
<1>6. CASE FrameFromOutside
  BY <1>6, ReceiveKeepsRxInv DEF FrameFromOutside
<1>7. CASE CardTransmits
  BY <1>7, ReceiveKeepsRxInv DEF CardTransmits
<1>8. CASE CardFetches \/ QueueFrame \/ (\E c \in BOOLEAN : SendReturns(c)) \/ UNCHANGED nicVars
  BY <1>8 DEF CardFetches, QueueFrame, SendReturns, nicVars, RxInv, Unused, InUse
<1>9. CASE CopyFrame
  BY <1>9 DEF CopyFrame, RxInv, Unused, InUse
<1>10. CASE Recycle
  <2>1. /\ rdh \in RingSlots /\ rxNext \in RingSlots
        /\ rxRing \in [RingSlots -> [frame : 0 .. MaxFrames, dd : BOOLEAN, good : BOOLEAN]]
    BY DEF TypeInv, NicTypeOK
  <2>2. InUse /\ rxRing[rxNext].dd /\ nicPhase = "ready"
    BY <1>10, <2>1 DEF Recycle, RxInv, Unused, TypeInv
  <2>3. rxNext # rdh
    BY <2>1, <2>2, DistanceValue DEF InUse
  <2>4. /\ rxNext' = NextSlot(rxNext) /\ rdt' = rxNext /\ rdh' = rdh /\ nicPhase' = nicPhase
        /\ nicCall' = "none"
        /\ \A i \in RingSlots : rxRing'[i].dd = (rxRing[i].dd /\ i # rxNext)
    BY <1>10, <2>1 DEF Recycle
  <2>5. \A i \in RingSlots : rxRing'[i].dd <=> Distance(rxNext', i) < Distance(rxNext', rdh)
    BY <2>1, <2>2, <2>3, <2>4, SlotsShrink DEF InUse
  <2>6. QED
    BY <2>2, <2>4, <2>5 DEF RxInv, InUse
<1>11. QED
  BY <1>1, <1>2, <1>3, <1>4, <1>5, <1>6, <1>7, <1>8, <1>9, <1>10
     DEF NicNext, SendConfirmed, SendUnconfirmed, NicDone

LEMMA RxInvHolds == NicSpec => [](TypeInv /\ RxInv)
BY TypesHold, InitRxInv, StepKeepsRxInv, PTL DEF NicSpec

LEMMA RxInvMeansOneOwner == TypeInv /\ RxInv => RxSlotsHaveOneOwner
<1> SUFFICES ASSUME TypeInv, RxInv, nicPhase = "ready" PROVE RxSlotsHaveOneOwner
  BY DEF RxSlotsHaveOneOwner
<1>1. rdh \in RingSlots /\ rdt \in RingSlots /\ rxNext \in RingSlots
  BY DEF TypeInv, NicTypeOK
<1>2. InUse
  BY DEF RxInv, Unused
<1>3. \A i \in CardSlots(rdh, rdt) : ~rxRing[i].dd
  <2> SUFFICES ASSUME NEW i \in RingSlots, Distance(rdh, i) < Distance(rdh, rdt)
               PROVE  ~rxRing[i].dd
    BY DEF CardSlots
  <2>1. Distance(rxNext, i) >= Distance(rxNext, rdh)
    BY <1>1, <1>2, SlotsAreShared DEF InUse
  <2>2. QED
    BY <1>1, <1>2, <2>1, DistanceValue DEF InUse
<1>4. {i \in RingSlots : rxRing[i].dd} = CardSlots(rxNext, rdh)
  BY <1>2 DEF InUse, CardSlots
<1>5. QED
  BY <1>3, <1>4 DEF RxInv, RxSlotsHaveOneOwner

\* For every number of descriptors, no slot of the receive ring belongs to the card and to the
\* driver at once, whatever the card does while recv_packet runs.
THEOREM RxRingIsShared == NicSpec => []RxSlotsHaveOneOwner
BY RxInvHolds, RxInvMeansOneOwner, PTL

-----------------------------------------------------------------------------
(* The transmit ring.                                                      *)

Idle ==
  /\ tdh = 0 /\ tdt = 0 /\ txFetched = NoFrameId /\ queuedTx = {} /\ confirmedTx = {}
  /\ \A i \in RingSlots : ~txRing[i].dd

\* What the card has read is what the slot holds, and a DD bit means that the frame was sent.
NotOverwritten ==
  /\ txFetched # NoFrameId => tdh # tdt /\ txFetched = txRing[tdh].frame
  /\ \A f \in queuedTx : f \in sentTx \/ \E i \in CardSlots(tdh, tdt) : txRing[i].frame = f
  /\ \A i \in RingSlots : txRing[i].dd => txRing[i].frame \in sentTx
  /\ confirmedTx \subseteq sentTx

TxInv ==
  /\ nicPhase # "ready" => Idle
  /\ nicPhase = "ready" => tdt = IF nicCall = "polling" THEN NextSlot(txTail) ELSE txTail
  /\ ~overrun => NotOverwritten

LEMMA InitTxInv == NicInit => TxInv
BY DEF NicInit, TxInv, Idle, NotOverwritten

LEMMA QueueKeepsTxInv ==
    ASSUME TypeInv, TxInv, QueueFrame
    PROVE  TxInv'
<1>1. /\ tdh \in RingSlots /\ tdt \in RingSlots /\ txTail \in RingSlots
      /\ txRing \in [RingSlots -> [frame : 0 .. MaxFrames, dd : BOOLEAN]]
  BY DEF TypeInv, NicTypeOK
<1>2. /\ tdt = txTail /\ tdt' = NextSlot(tdt) /\ txTail' = txTail /\ nicCall' = "polling"
      /\ nicPhase' = "ready" /\ tdh' = tdh /\ txFetched' = txFetched /\ sentTx' = sentTx
      /\ confirmedTx' = confirmedTx /\ queuedTx' = queuedTx \union {frames'}
      /\ txRing' = [txRing EXCEPT ![tdt] = [frame |-> frames', dd |-> FALSE]]
  BY DEF QueueFrame, TxInv
<1>3. ASSUME ~overrun' PROVE NotOverwritten'
  <2>1. NotOverwritten /\ NextSlot(tdt) # tdh
    BY <1>2, <1>3 DEF QueueFrame, TxInv
  <2>2. txFetched' # NoFrameId => tdh' # tdt' /\ txFetched' = txRing'[tdh'].frame
    BY <1>1, <1>2, <2>1 DEF NotOverwritten
  <2>3. ASSUME NEW f \in queuedTx'
        PROVE  f \in sentTx' \/ \E i \in CardSlots(tdh', tdt') : txRing'[i].frame = f
    <3>1. CASE f = frames'
      <4>1. tdt \in CardSlots(tdh, NextSlot(tdt))
        BY <1>1, <2>1, SlotsGrow DEF CardSlots
      <4>2. txRing'[tdt].frame = f
        BY <1>1, <1>2, <3>1
      <4>3. QED
        BY <1>2, <4>1, <4>2
    <3>2. CASE f \in queuedTx /\ f \notin sentTx
      <4>1. PICK i \in CardSlots(tdh, tdt) : txRing[i].frame = f
        BY <2>1, <3>2 DEF NotOverwritten
      <4>2. i \in RingSlots /\ Distance(tdh, i) < Distance(tdh, tdt)
        BY <4>1 DEF CardSlots
      <4>3. i # tdt
        BY <1>1, <4>2, DistanceValue
      <4>4. i \in CardSlots(tdh, NextSlot(tdt))
        BY <1>1, <2>1, <4>2, SlotsGrow DEF CardSlots
      <4>5. txRing'[i].frame = f
        BY <1>1, <1>2, <4>1, <4>2, <4>3
      <4>6. QED
        BY <1>2, <4>4, <4>5
    <3>3. QED
      BY <1>2, <2>3, <3>1, <3>2
  <2>4. ASSUME NEW i \in RingSlots, txRing'[i].dd PROVE txRing'[i].frame \in sentTx'
    BY <1>1, <1>2, <2>1, <2>4 DEF NotOverwritten
  <2>5. QED
    BY <1>2, <2>1, <2>2, <2>3, <2>4 DEF NotOverwritten
<1>4. QED
  BY <1>2, <1>3 DEF TxInv

LEMMA TransmitKeepsTxInv ==
    ASSUME TypeInv, TxInv, CardTransmits
    PROVE  TxInv'
<1>1. /\ tdh \in RingSlots /\ tdt \in RingSlots
      /\ txRing \in [RingSlots -> [frame : 0 .. MaxFrames, dd : BOOLEAN]]
  BY DEF TypeInv, NicTypeOK
<1>2. /\ tdt' = tdt /\ txTail' = txTail /\ nicCall' = nicCall /\ nicPhase' = nicPhase
      /\ overrun' = overrun /\ queuedTx' = queuedTx /\ confirmedTx' = confirmedTx
      /\ tdh' = NextSlot(tdh) /\ txFetched # NoFrameId /\ txFetched' = NoFrameId
      /\ sentTx' = sentTx \union {txFetched}
      /\ txRing' = [txRing EXCEPT ![tdh].dd = TRUE]
  BY DEF CardTransmits
<1>3. nicPhase = "ready"
  BY <1>2 DEF TxInv, Idle
<1>4. ASSUME ~overrun PROVE NotOverwritten'
  <2>1. NotOverwritten /\ tdh # tdt /\ txFetched = txRing[tdh].frame
    BY <1>2, <1>4 DEF TxInv, NotOverwritten
  <2>2. ASSUME NEW i \in RingSlots
        PROVE  /\ txRing'[i].frame = txRing[i].frame
               /\ txRing'[i].dd = IF i = tdh THEN TRUE ELSE txRing[i].dd
    BY <1>1, <1>2
  <2>3. ASSUME NEW f \in queuedTx, f \notin sentTx'
        PROVE  \E i \in CardSlots(tdh', tdt) : txRing'[i].frame = f
    <3>1. PICK i \in CardSlots(tdh, tdt) : txRing[i].frame = f
      BY <1>2, <2>1, <2>3 DEF NotOverwritten
    <3>2. i \in RingSlots /\ Distance(tdh, i) < Distance(tdh, tdt)
      BY <3>1 DEF CardSlots
    <3>3. i # tdh
      BY <1>2, <2>1, <2>3, <3>1
    <3>4. i \in CardSlots(NextSlot(tdh), tdt)
      BY <1>1, <2>1, <3>2, <3>3, SlotsShrink DEF CardSlots
    <3>5. QED
      BY <1>2, <2>2, <3>1, <3>2, <3>4
  <2>4. ASSUME NEW i \in RingSlots, txRing'[i].dd PROVE txRing'[i].frame \in sentTx'
    BY <1>2, <2>1, <2>2, <2>4 DEF NotOverwritten
  <2>5. QED
    BY <1>2, <2>1, <2>3, <2>4 DEF NotOverwritten
<1>5. QED
  BY <1>2, <1>3, <1>4 DEF TxInv

LEMMA ReturnKeepsTxInv ==
    ASSUME TypeInv, TxInv, NEW c \in BOOLEAN, SendReturns(c), c => txRing[PolledSlot].dd
    PROVE  TxInv'
<1>1. txTail \in RingSlots
  BY DEF TypeInv, NicTypeOK
<1>2. /\ nicPhase = "ready" /\ tdt = NextSlot(txTail) /\ txTail' = NextSlot(txTail)
      /\ nicCall' = "none" /\ nicPhase' = nicPhase /\ tdt' = tdt /\ tdh' = tdh
      /\ txRing' = txRing /\ txFetched' = txFetched /\ queuedTx' = queuedTx
      /\ sentTx' = sentTx /\ overrun' = overrun
  BY DEF SendReturns, TxInv, TypeInv
<1>3. ASSUME NotOverwritten PROVE NotOverwritten'
  <2>1. confirmedTx' \subseteq sentTx
    BY <1>1, <1>3 DEF SendReturns, NotOverwritten, PolledSlot
  <2>2. QED
    BY <1>2, <1>3, <2>1 DEF NotOverwritten, CardSlots
<1>4. QED
  BY <1>2, <1>3 DEF TxInv

LEMMA StepKeepsTxInv ==
    ASSUME TypeInv, TxInv, [NicNext]_nicVars
    PROVE  TxInv'
<1> USE DEF TxInv, txVars
<1>1. CASE InitFails \/ ResetCard \/ SetUpRxRing
  BY <1>1 DEF InitFails, ResetCard, SetUpRxRing, InitStage, Idle, NotOverwritten, CardSlots, TypeInv
<1>2. CASE SetUpTxRing
  BY <1>2 DEF SetUpTxRing, InitStage, Idle, NotOverwritten
<1>3. CASE SetUpLoopback
  BY <1>3 DEF SetUpLoopback, InitStage, Idle, NotOverwritten, TypeInv
<1>4. CASE CardFetches
  <2>1. nicPhase = "ready"
    BY <1>4 DEF CardFetches, Idle
  <2>2. NotOverwritten => NotOverwritten'
    BY <1>4 DEF CardFetches, NotOverwritten, CardSlots
  <2>3. QED
    BY <1>4, <2>1, <2>2 DEF CardFetches
<1>5. CASE FrameFromOutside \/ UNCHANGED nicVars \/ NicDone
  BY <1>5 DEF FrameFromOutside, nicVars, NicDone, Idle, NotOverwritten, CardSlots
<1>6. CASE CopyFrame \/ Recycle
  BY <1>6 DEF CopyFrame, Recycle, Idle, NotOverwritten, CardSlots
<1>7. CASE SendConfirmed \/ SendUnconfirmed
  BY <1>7, ReturnKeepsTxInv DEF SendConfirmed, SendUnconfirmed
<1>8. QED
  BY <1>1, <1>2, <1>3, <1>4, <1>5, <1>6, <1>7, QueueKeepsTxInv, TransmitKeepsTxInv DEF NicNext

\* For every number of descriptors: as long as TDT has not caught up with TDH, a frame that was
\* queued is on the wire or waits in a slot of the card, and a confirmed one is on the wire.
THEOREM QueuedAreKept == NicSpec => []QueuedFramesSurvive
<1>1. TxInv => QueuedFramesSurvive
  BY DEF TxInv, NotOverwritten, QueuedFramesSurvive
<1>2. QED
  BY <1>1, TypesHold, InitTxInv, StepKeepsTxInv, PTL DEF NicSpec

-----------------------------------------------------------------------------
(* The receive ring implements the queue of frames.                        *)

Entry == [frame : 0 .. MaxFrames, good : BOOLEAN]

\* The slot of the k-th waiting frame when the driver stands at slot n.
SlotAt(n, k) == (n + k - 1) % NumDesc

QueueFrom(ring, n, h) ==
  [k \in 1 .. Distance(n, h) |->
     [frame |-> ring[SlotAt(n, k)].frame, good |-> ring[SlotAt(n, k)].good]]

LEMMA SlotAtValue ==
    ASSUME NEW n \in RingSlots, NEW k \in 1 .. NumDesc
    PROVE  /\ SlotAt(n, k) = IF n + k <= NumDesc THEN n + k - 1 ELSE n + k - 1 - NumDesc
           /\ SlotAt(n, k) \in RingSlots
           /\ Distance(n, SlotAt(n, k)) = k - 1
<1> DEFINE s == n + k - 1
<1>1. s \in 0 .. 2 * NumDesc - 1 /\ s - NumDesc = n + k - 1 - NumDesc
      /\ (s < NumDesc <=> n + k <= NumDesc) /\ s = n + k - 1
  BY NumDescAssumption DEF RingSlots
<1> HIDE DEF s
<1>2. s % NumDesc = IF s < NumDesc THEN s ELSE s - NumDesc
  BY <1>1, SlotWraps
<1>3. SlotAt(n, k) = s % NumDesc
  BY DEF SlotAt, s
<1> DEFINE a == SlotAt(n, k)
<1>4. a = IF n + k <= NumDesc THEN n + k - 1 ELSE n + k - 1 - NumDesc
  BY <1>1, <1>2, <1>3
<1> HIDE DEF a
<1>5. a \in RingSlots
  BY <1>4, NumDescAssumption DEF RingSlots
<1>6. Distance(n, a) = IF n <= a THEN a - n ELSE a - n + NumDesc
  BY <1>5, DistanceValue
<1>7. Distance(n, a) = k - 1
  BY <1>4, <1>6, NumDescAssumption DEF RingSlots
<1>8. QED
  BY <1>4, <1>5, <1>7 DEF a

LEMMA SlotAtMoves ==
    ASSUME NEW n \in RingSlots, NEW k \in 1 .. NumDesc - 1
    PROVE  SlotAt(NextSlot(n), k) = SlotAt(n, k + 1)
<1> DEFINE m == NextSlot(n)
           j == k + 1
<1>1. m \in RingSlots /\ m = IF n = NumDesc - 1 THEN 0 ELSE n + 1
  BY NextSlotValue
<1>2. k \in 1 .. NumDesc /\ j \in 1 .. NumDesc
  BY NumDescAssumption
<1> HIDE DEF m
<1>3. SlotAt(m, k) = IF m + k <= NumDesc THEN m + k - 1 ELSE m + k - 1 - NumDesc
  BY <1>1, <1>2, SlotAtValue
<1>4. SlotAt(n, j) = IF n + j <= NumDesc THEN n + j - 1 ELSE n + j - 1 - NumDesc
  <2> HIDE DEF j
  <2>1. QED
    BY <1>2, SlotAtValue
<1>5. SlotAt(m, k) = SlotAt(n, j)
  BY <1>1, <1>3, <1>4, NumDescAssumption DEF RingSlots
<1>6. QED
  BY <1>5 DEF m

\* What the queue is made of: the slots from n up to h.
LEMMA QueueFacts ==
    ASSUME NEW ring \in [RingSlots -> RxSlot], NEW n \in RingSlots, NEW h \in RingSlots
    PROVE  /\ QueueFrom(ring, n, h) \in Seq(Entry)
           /\ Len(QueueFrom(ring, n, h)) = Distance(n, h)
           /\ \A k \in 1 .. Distance(n, h) :
                /\ SlotAt(n, k) \in RingSlots
                /\ SlotAt(n, k) # h
                /\ QueueFrom(ring, n, h)[k]
                     = [frame |-> ring[SlotAt(n, k)].frame, good |-> ring[SlotAt(n, k)].good]
<1> DEFINE d == Distance(n, h)
<1>1. d \in 0 .. NumDesc - 1 /\ d \in Nat
  BY DistanceValue
<1> HIDE DEF d
<1>2. ASSUME NEW k \in 1 .. d
      PROVE  /\ SlotAt(n, k) \in RingSlots
             /\ SlotAt(n, k) # h
  <2>1. k \in 1 .. NumDesc /\ k - 1 # d
    BY <1>1, NumDescAssumption
  <2>2. QED
    BY <2>1, SlotAtValue DEF d
<1>3. QueueFrom(ring, n, h) \in [1 .. d -> Entry]
  <2>1. ASSUME NEW k \in 1 .. d
        PROVE  [frame |-> ring[SlotAt(n, k)].frame, good |-> ring[SlotAt(n, k)].good] \in Entry
    <3>1. ring[SlotAt(n, k)] \in RxSlot
      BY <1>2
    <3>2. QED
      BY <3>1 DEF RxSlot, Entry
  <2>2. QED
    BY <2>1 DEF QueueFrom, d
<1>4. QueueFrom(ring, n, h) \in Seq(Entry) /\ Len(QueueFrom(ring, n, h)) = d
  BY <1>1, <1>3
<1>5. \A k \in 1 .. d : QueueFrom(ring, n, h)[k]
                          = [frame |-> ring[SlotAt(n, k)].frame, good |-> ring[SlotAt(n, k)].good]
  BY DEF QueueFrom, d
<1>6. QED
  BY <1>2, <1>4, <1>5 DEF d

\* The same of a queue by its name.
QueueIs(q, ring, n, h) ==
    /\ q \in Seq(Entry) /\ Len(q) = Distance(n, h)
    /\ \A k \in 1 .. Distance(n, h) :
         q[k] = [frame |-> ring[SlotAt(n, k)].frame, good |-> ring[SlotAt(n, k)].good]

LEMMA QueueOf ==
    ASSUME NEW ring \in [RingSlots -> RxSlot], NEW n \in RingSlots, NEW h \in RingSlots
    PROVE  QueueIs(QueueFrom(ring, n, h), ring, n, h)
BY QueueFacts DEF QueueIs

\* The card fills the slot at h.
LEMMA QueueGrows ==
    ASSUME NEW ring \in [RingSlots -> RxSlot], NEW n \in RingSlots, NEW h \in RingSlots,
           NEW f \in FrameId, NEW isGood \in BOOLEAN, NextSlot(h) # n
    PROVE  QueueFrom([ring EXCEPT ![h] = [frame |-> f, dd |-> TRUE, good |-> isGood]],
                     n, NextSlot(h))
             = Append(QueueFrom(ring, n, h), [frame |-> f, good |-> isGood])
<1> DEFINE e == [frame |-> f, good |-> isGood]
           newRing == [ring EXCEPT ![h] = [frame |-> f, dd |-> TRUE, good |-> isGood]]
           before == QueueFrom(ring, n, h)
           after == QueueFrom(newRing, n, NextSlot(h))
           d == Distance(n, h)
<1>1. NextSlot(h) \in RingSlots /\ Distance(n, NextSlot(h)) = d + 1
  BY NextSlotValue, SlotsGrow
<1>2. d \in 0 .. NumDesc - 1 /\ d \in Nat /\ Distance(n, NextSlot(h)) \in 0 .. NumDesc - 1
  BY <1>1, DistanceValue
<1>3. newRing \in [RingSlots -> RxSlot]
  <2>1. [frame |-> f, dd |-> TRUE, good |-> isGood] \in RxSlot
    BY MaxFramesAssumption DEF RxSlot, FrameId
  <2>2. QED
    BY <2>1
<1>4. e \in Entry
  BY MaxFramesAssumption DEF Entry, FrameId
<1>5. /\ before \in Seq(Entry) /\ Len(before) = d
      /\ \A k \in 1 .. d :
           /\ SlotAt(n, k) \in RingSlots /\ SlotAt(n, k) # h
           /\ before[k] = [frame |-> ring[SlotAt(n, k)].frame, good |-> ring[SlotAt(n, k)].good]
  BY QueueFacts
<1>6. /\ after \in Seq(Entry) /\ Len(after) = d + 1
      /\ \A k \in 1 .. d + 1 :
           after[k] = [frame |-> newRing[SlotAt(n, k)].frame, good |-> newRing[SlotAt(n, k)].good]
  <2> DEFINE m == NextSlot(h)
             q == QueueFrom(newRing, n, m)
  <2>1. newRing \in [RingSlots -> RxSlot] /\ m \in RingSlots
    BY <1>1, <1>3
  <2> HIDE DEF newRing, m
  <2>2. /\ q \in Seq(Entry) /\ Len(q) = Distance(n, m)
        /\ \A k \in 1 .. Distance(n, m) :
             q[k] = [frame |-> newRing[SlotAt(n, k)].frame, good |-> newRing[SlotAt(n, k)].good]
    <3>1. QueueIs(q, newRing, n, m)
      BY <2>1, QueueOf
    <3>2. QED
      BY <3>1 DEF QueueIs
  <2> HIDE DEF q
  <2>3. after = q /\ Distance(n, m) = d + 1
    BY <1>1 DEF after, m, q
  <2> HIDE DEF after, d
  <2>4. QED
    BY <2>2, <2>3
<1>7. /\ \A i \in RingSlots \ {h} : newRing[i] = ring[i]
      /\ newRing[h].frame = f /\ newRing[h].good = isGood
  OBVIOUS
<1>8. SlotAt(n, d + 1) = h
  <2> DEFINE j == d + 1
  <2>1. j \in 1 .. NumDesc /\ j - 1 = d
    BY <1>2, NumDescAssumption
  <2> HIDE DEF j
  <2>2. SlotAt(n, j) \in RingSlots /\ Distance(n, SlotAt(n, j)) = j - 1
    BY <2>1, SlotAtValue
  <2>3. SlotAt(n, j) = h
    BY <2>1, <2>2, DistanceIsInjective
  <2>4. QED
    BY <2>3 DEF j
<1> HIDE DEF e, newRing, before, after, d
<1>9. /\ Append(before, e) \in Seq(Entry) /\ Len(Append(before, e)) = d + 1
      /\ \A k \in 1 .. d : Append(before, e)[k] = before[k]
      /\ Append(before, e)[d + 1] = e
  BY <1>4, <1>5, AppendProperties
<1>10. ASSUME NEW k \in 1 .. d + 1 PROVE after[k] = Append(before, e)[k]
  <2>1. CASE k = d + 1
    <3>1. k \in 1 .. d + 1 /\ SlotAt(n, k) = h
      BY <1>2, <1>8, <2>1
    <3>2. after[k] = [frame |-> newRing[h].frame, good |-> newRing[h].good]
      BY <1>6, <3>1
    <3>3. after[k] = e
      BY <1>7, <3>2 DEF e
    <3>4. Append(before, e)[k] = e
      BY <1>9, <2>1
    <3>5. QED
      BY <3>3, <3>4
  <2>2. CASE k \in 1 .. d
    <3>1. SlotAt(n, k) \in RingSlots \ {h} /\ newRing[SlotAt(n, k)] = ring[SlotAt(n, k)]
      BY <1>5, <1>7, <2>2
    <3>2. QED
      BY <1>5, <1>6, <1>9, <2>2, <3>1
  <2>3. k = d + 1 \/ k \in 1 .. d
    BY <1>2
  <2>4. QED
    BY <2>1, <2>2, <2>3
<1>11. after = Append(before, e)
  BY <1>6, <1>9, <1>10, SeqEqual
<1>12. QED
  BY <1>11 DEF e, newRing, before, after

\* The driver takes the frame in slot n.
LEMMA QueueShrinks ==
    ASSUME NEW ring \in [RingSlots -> RxSlot], NEW n \in RingSlots, NEW h \in RingSlots, n # h
    PROVE  /\ QueueFrom(ring, n, h) # <<>>
           /\ Head(QueueFrom(ring, n, h)) = [frame |-> ring[n].frame, good |-> ring[n].good]
           /\ QueueFrom([ring EXCEPT ![n].dd = FALSE], NextSlot(n), h)
                = Tail(QueueFrom(ring, n, h))
<1> DEFINE newRing == [ring EXCEPT ![n].dd = FALSE]
           before == QueueFrom(ring, n, h)
           after == QueueFrom(newRing, NextSlot(n), h)
           d == Distance(n, h)
<1>1. NextSlot(n) \in RingSlots /\ Distance(NextSlot(n), h) = d - 1
  BY NextSlotValue, SlotsShrink
<1>2. d \in 1 .. NumDesc - 1
  <2>1. d \in 0 .. NumDesc - 1 /\ Distance(NextSlot(n), h) \in 0 .. NumDesc - 1
    BY <1>1, DistanceValue
  <2>2. d # 0
    <3> HIDE DEF d
    <3>1. QED
      BY <1>1, <2>1, NumDescAssumption
  <2>3. QED
    BY <2>1, <2>2, NumDescAssumption
<1>3. /\ newRing \in [RingSlots -> RxSlot]
      /\ \A i \in RingSlots : newRing[i].frame = ring[i].frame /\ newRing[i].good = ring[i].good
  <2>1. ring[n] \in RxSlot
    OBVIOUS
  <2>2. [ring[n] EXCEPT !.dd = FALSE] \in RxSlot
    BY <2>1 DEF RxSlot
  <2>3. newRing \in [RingSlots -> RxSlot]
    BY <2>2
  <2>4. QED
    BY <2>3 DEF RxSlot
<1>4. /\ before \in Seq(Entry) /\ Len(before) = d
      /\ \A k \in 1 .. d :
           /\ SlotAt(n, k) \in RingSlots
           /\ before[k] = [frame |-> ring[SlotAt(n, k)].frame, good |-> ring[SlotAt(n, k)].good]
  BY QueueFacts
<1>5. /\ after \in Seq(Entry) /\ Len(after) = d - 1
      /\ \A k \in 1 .. d - 1 :
           after[k] = [frame |-> newRing[SlotAt(NextSlot(n), k)].frame,
                       good |-> newRing[SlotAt(NextSlot(n), k)].good]
  <2> DEFINE m == NextSlot(n)
             q == QueueFrom(newRing, m, h)
  <2>1. newRing \in [RingSlots -> RxSlot] /\ m \in RingSlots
    BY <1>1, <1>3
  <2> HIDE DEF newRing, m
  <2>2. /\ q \in Seq(Entry) /\ Len(q) = Distance(m, h)
        /\ \A k \in 1 .. Distance(m, h) :
             q[k] = [frame |-> newRing[SlotAt(m, k)].frame, good |-> newRing[SlotAt(m, k)].good]
    <3>1. QueueIs(q, newRing, m, h)
      BY <2>1, QueueOf
    <3>2. QED
      BY <3>1 DEF QueueIs
  <2> HIDE DEF q
  <2>3. after = q /\ Distance(m, h) = d - 1 /\ m = NextSlot(n)
    BY <1>1 DEF after, m, q
  <2> HIDE DEF after, d
  <2>4. QED
    BY <2>2, <2>3
<1>6. SlotAt(n, 1) = n
  <2>1. 1 \in 1 .. NumDesc
    BY NumDescAssumption
  <2>2. QED
    BY <2>1, SlotAtValue, NumDescAssumption DEF RingSlots
<1>7. ASSUME NEW k \in 1 .. d - 1 PROVE SlotAt(NextSlot(n), k) = SlotAt(n, k + 1)
  <2> HIDE DEF d
  <2>1. k \in 1 .. NumDesc - 1
    BY <1>2, NumDescAssumption
  <2>2. QED
    BY <2>1, SlotAtMoves
<1> HIDE DEF newRing, before, after, d
<1>8. before # <<>>
  BY <1>2, <1>4
<1>9. Tail(before) \in Seq(Entry) /\ Len(Tail(before)) = d - 1 /\ Head(before) = before[1]
      /\ \A k \in 1 .. d - 1 : Tail(before)[k] = before[k + 1]
  BY <1>2, <1>4, <1>8
<1>10. ASSUME NEW k \in 1 .. d - 1 PROVE after[k] = Tail(before)[k]
  <2>1. k + 1 \in 1 .. d
    BY <1>2
  <2>2. before[k + 1] = [frame |-> ring[SlotAt(n, k + 1)].frame,
                         good |-> ring[SlotAt(n, k + 1)].good]
    BY <1>4, <2>1
  <2>3. QED
    BY <1>3, <1>4, <1>5, <1>7, <1>9, <2>1, <2>2
<1>11. after = Tail(before)
  BY <1>5, <1>9, <1>10, SeqEqual
<1>12. Head(before) = [frame |-> ring[n].frame, good |-> ring[n].good]
  BY <1>2, <1>4, <1>6, <1>9
<1>13. QED
  BY <1>8, <1>11, <1>12 DEF newRing, before, after

LEMMA WaitingIsQueue == WaitingFrames = QueueFrom(rxRing, rxNext, rdh)
BY DEF WaitingFrames, QueueFrom, SlotAt

LEMMA EmptyQueue ==
    ASSUME NEW ring, NEW n \in RingSlots
    PROVE  QueueFrom(ring, n, n) = <<>>
<1>1. Distance(n, n) = 0
  BY DistanceValue, NumDescAssumption DEF RingSlots
<1>2. 1 .. 0 = {}
  OBVIOUS
<1>3. QED
  BY <1>1, <1>2 DEF QueueFrom

queueVars == <<WaitingFrames, takenRx, missedRx>>

LEMMA ReceiveIsArrival ==
    ASSUME TypeInv, RxInv, NEW f \in FrameId, NEW isGood \in BOOLEAN, Receive(f, isGood),
           rdh # rdt \/ InUse
    PROVE  Incoming!FrameArrives([frame |-> f, good |-> isGood])
<1> DEFINE e == [frame |-> f, good |-> isGood]
<1>1. /\ rdh \in RingSlots /\ rdt \in RingSlots /\ rxNext \in RingSlots
      /\ rxRing \in [RingSlots -> RxSlot]
  BY DEF TypeInv, NicTypeOK, RxSlot
<1>2. InUse
  BY DEF RxInv, Unused
<1>3. Len(WaitingFrames) = Distance(rxNext, rdh)
  BY <1>1, WaitingIsQueue, QueueFacts
<1>4. /\ rdh = rdt <=> Distance(rxNext, rdh) = NumDesc - 1
      /\ Distance(rxNext, rdh) \in 0 .. NumDesc - 1
  BY <1>1, <1>2, SlotsAreShared, DistanceValue DEF InUse
<1>5. CASE rdh # rdt
  <2>1. NextSlot(rdh) # rxNext
    BY <1>1, <1>2, <1>5, NextSlotIsInjective DEF InUse
  <2>2. /\ rxRing' = [rxRing EXCEPT ![rdh] = [frame |-> f, dd |-> TRUE, good |-> isGood]]
        /\ rdh' = NextSlot(rdh) /\ rxNext' = rxNext /\ takenRx' = takenRx
        /\ missedRx' = missedRx
    BY <1>5 DEF Receive
  <2>3. WaitingFrames' = QueueFrom(rxRing', rxNext', rdh')
    BY DEF WaitingFrames, QueueFrom, SlotAt
  <2>4. WaitingFrames' = Append(WaitingFrames, e)
    BY <1>1, <2>1, <2>2, <2>3, QueueGrows, WaitingIsQueue
  <2>5. Len(WaitingFrames) < NumDesc - 1
    BY <1>3, <1>4, <1>5, NumDescAssumption
  <2>6. QED
    BY <2>2, <2>4, <2>5 DEF Incoming!FrameArrives
<1>6. CASE rdh = rdt
  <2>1. /\ rxRing' = rxRing /\ rdh' = rdh /\ rxNext' = rxNext /\ takenRx' = takenRx
        /\ missedRx' = missedRx \union {f}
    BY <1>6 DEF Receive
  <2>2. WaitingFrames' = WaitingFrames
    BY <2>1 DEF WaitingFrames
  <2>3. QED
    BY <1>3, <1>4, <1>6, <2>1, <2>2 DEF Incoming!FrameArrives
<1>7. QED
  BY <1>5, <1>6

LEMMA RecycleIsTake ==
    ASSUME TypeInv, RxInv, Recycle
    PROVE  Incoming!TakeFrame
<1>1. /\ rdh \in RingSlots /\ rxNext \in RingSlots /\ rxRing \in [RingSlots -> RxSlot]
  BY DEF TypeInv, NicTypeOK, RxSlot
<1>2. InUse /\ rxRing[rxNext].dd
  BY <1>1 DEF Recycle, RxInv, Unused
<1>3. rxNext # rdh
  BY <1>1, <1>2, DistanceValue DEF InUse
<1>4. /\ rxNext' = NextSlot(rxNext) /\ rdh' = rdh /\ missedRx' = missedRx
      /\ rxRing' = [rxRing EXCEPT ![rxNext].dd = FALSE]
      /\ takenRx' = IF rxRing[rxNext].good THEN rxRing[rxNext].frame ELSE NoFrameId
  BY DEF Recycle
<1>5. WaitingFrames' = QueueFrom(rxRing', rxNext', rdh')
  BY DEF WaitingFrames, QueueFrom, SlotAt
<1>6. /\ WaitingFrames # <<>>
      /\ Head(WaitingFrames) = [frame |-> rxRing[rxNext].frame, good |-> rxRing[rxNext].good]
      /\ WaitingFrames' = Tail(WaitingFrames)
  BY <1>1, <1>3, <1>4, <1>5, QueueShrinks, WaitingIsQueue
<1>7. QED
  BY <1>4, <1>6 DEF Incoming!TakeFrame

LEMMA StepIsQueueStep ==
    ASSUME TypeInv, TypeInv', RxInv, TxInv, [NicNext]_nicVars
    PROVE  [Incoming!FrameQueueNext]_queueVars
<1> USE DEF rxVars, queueVars
<1>1. CASE \/ InitFails \/ ResetCard \/ SetUpTxRing \/ CardFetches \/ QueueFrame
           \/ (\E c \in BOOLEAN : SendReturns(c)) \/ CopyFrame \/ UNCHANGED nicVars
  BY <1>1 DEF InitFails, ResetCard, SetUpTxRing, InitStage, CardFetches, QueueFrame, SendReturns,
              CopyFrame, nicVars, WaitingFrames
<1>2. CASE SetUpRxRing
  <2>1. Unused
    BY <1>2 DEF SetUpRxRing, InitStage, RxInv, InUse
  <2>2. /\ rdh' = 0 /\ rdh = 0 /\ rxNext' = 0 /\ rxNext = 0 /\ UNCHANGED <<takenRx, missedRx>>
    BY <1>2, <2>1 DEF SetUpRxRing, Unused
  <2>3. 0 \in RingSlots
    BY NumDescAssumption DEF RingSlots
  <2>4. WaitingFrames = <<>> /\ WaitingFrames' = <<>>
    <3>1. WaitingFrames = QueueFrom(rxRing, 0, 0) /\ WaitingFrames' = QueueFrom(rxRing', 0, 0)
      BY <2>2 DEF WaitingFrames, QueueFrom, SlotAt
    <3>2. QED
      BY <2>3, <3>1, EmptyQueue
  <2>5. QED
    BY <2>2, <2>4
<1>3. CASE SetUpLoopback
  <2>1. rxNext' = rxNext
    BY <1>3 DEF SetUpLoopback, InitStage, RxInv, Unused, InUse
  <2>2. QED
    BY <1>3, <2>1 DEF SetUpLoopback, WaitingFrames
<1>4. ASSUME NEW f \in FrameId, NEW isGood \in BOOLEAN, Receive(f, isGood),
             rdh # rdt \/ InUse
      PROVE  Incoming!FrameQueueNext
  <2>1. Incoming!FrameArrives([frame |-> f, good |-> isGood])
    BY <1>4, ReceiveIsArrival
  <2>2. [frame |-> f, good |-> isGood] \in [frame : FrameId, good : BOOLEAN]
    OBVIOUS
  <2>3. QED
    BY <2>1, <2>2 DEF Incoming!FrameQueueNext
<1>5. CASE FrameFromOutside
  <2>1. frames' \in FrameId
    BY <1>5 DEF FrameFromOutside, FrameId, TypeInv, NicTypeOK
  <2>2. PICK isGood \in BOOLEAN : Receive(frames', isGood)
    BY <1>5 DEF FrameFromOutside
  <2>3. rdh # rdt \/ InUse
    BY <1>5 DEF FrameFromOutside, Listening, RxInv, Unused
  <2>4. QED
    BY <1>4, <2>1, <2>2, <2>3
<1>6. CASE CardTransmits
  <2>1. txFetched \in FrameId
    BY <1>6 DEF CardTransmits, FrameId, NoFrameId, TypeInv, NicTypeOK
  <2>2. Receive(txFetched, TRUE)
    BY <1>6 DEF CardTransmits
  <2>3. InUse
    BY <1>6 DEF CardTransmits, TxInv, Idle, RxInv, Unused
  <2>4. QED
    BY <1>4, <2>1, <2>2, <2>3
<1>7. CASE Recycle
  BY <1>7, RecycleIsTake DEF Incoming!FrameQueueNext
<1>8. QED
  BY <1>1, <1>2, <1>3, <1>5, <1>6, <1>7 DEF NicNext, SendConfirmed, SendUnconfirmed, NicDone

LEMMA InitIsEmptyQueue == NicInit => Incoming!FrameQueueInit
<1> SUFFICES ASSUME NicInit PROVE Incoming!FrameQueueInit
  OBVIOUS
<1>1. 0 \in RingSlots /\ WaitingFrames = QueueFrom(rxRing, 0, 0)
  BY NumDescAssumption DEF RingSlots, NicInit, WaitingFrames, QueueFrom, SlotAt
<1>2. WaitingFrames = <<>>
  BY <1>1, EmptyQueue
<1>3. QED
  BY <1>2 DEF NicInit, Incoming!FrameQueueInit, NoFrameId

\* For every number of descriptors, recv_packet over the ring, the card filling it at any moment,
\* implements the queue of NumDesc - 1 frames: in order, each once, none lost but when it is full.
THEOREM RefinesFrameQueue == NicSpec => ImplementsFrameQueue
<1>1. [NicNext]_nicVars /\ TypeInv /\ TypeInv' /\ RxInv /\ TxInv
        => [Incoming!FrameQueueNext]_<<WaitingFrames, takenRx, missedRx>>
  BY StepIsQueueStep DEF queueVars
<1>2. NicSpec => []TxInv
  BY TypesHold, InitTxInv, StepKeepsTxInv, PTL DEF NicSpec
<1>3. QED
  BY <1>1, <1>2, RxInvHolds, InitIsEmptyQueue, PTL
     DEF NicSpec, ImplementsFrameQueue, Incoming!FrameQueueSpec
=============================================================================

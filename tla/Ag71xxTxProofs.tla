--------------------------- MODULE Ag71xxTxProofs ---------------------------
(* Theorems about the transmit ring of the ag71xx driver, for every ring    *)
(* size, every number of packets and every kind of MAC.                     *)
EXTENDS Ag71xxTxWindow, FiniteSetTheorems, TLAPS

(* Ring arithmetic stays within the ring and within the counters.           *)
LEMMA RingRange ==
    /\ \A c \in Int : Slot(c) \in Slots
    /\ \A c, n \in Int : Plus(c, n) \in 0 .. Wrap - 1
    /\ \A s \in Slots : NextSlot(s) \in Slots
BY SizeAssumption DEF Slot, Slots, Plus, Wrap, NextSlot

(* What resets write is within the types.                                   *)
LEMMA ZeroRange == 0 \in Slots /\ 0 \in 0 .. Wrap - 1 /\ 0 \in 0 .. Wrap /\ 0 \in Int
BY SizeAssumption DEF Slots, Wrap

(* Used is a number of descriptors.                                         *)
LEMMA UsedRange == TypeOK => Used \in 0 .. Wrap - 1
BY SizeAssumption DEF TypeOK, Used, Wrap

(* Every set of slots is finite, so counting its packets gives a number.    *)
LEMMA SlotCount == ASSUME NEW S \in SUBSET Slots PROVE Cardinality(S) \in Nat
<1>1. IsFiniteSet(Slots)
  BY FS_Interval, SizeAssumption DEF Slots
<1> QED BY <1>1, FS_Subset, FS_CardinalityType

(* Offsets from dirty name slots.                                           *)
LEMMA OffRange == TypeOK => \A k \in Int : Off(k) \in Slots
<1> SUFFICES ASSUME TypeOK, NEW k \in Int PROVE Off(k) \in Slots
  OBVIOUS
<1>1. dirty + k \in Int
  BY SizeAssumption DEF TypeOK, Wrap
<1> QED BY <1>1, RingRange DEF Off

(* The initial state is well typed.                                         *)
LEMMA TypeInit == Init => TypeOK
<1> SUFFICES ASSUME Init PROVE TypeOK
  OBVIOUS
<1>1. xmit \in [pc : {"idle", "filled", "posted"}, n : 0 .. MaxSeg]
  BY SizeAssumption DEF Init
<1> QED BY <1>1, ZeroRange DEF Init, TypeOK, WorkSteps

(* A walk of the ring keeps its variables well typed.                       *)
LEMMA TypeReclaim ==
    ASSUME TypeOK, NEW n \in 0 .. Used, Reclaim(n)
    PROVE  /\ buf' \in [Slots -> Skb \union {NoSkb}]
           /\ held' \in SUBSET Skb
           /\ dirty' \in 0 .. Wrap - 1
           /\ bql' \in Int
           /\ stopped' \in BOOLEAN
           /\ Acked(n) \in 0 .. Wrap
<1>0. n \in Int /\ n >= 0 /\ dirty \in Int
  BY UsedRange, SizeAssumption DEF TypeOK, Wrap
<1>1. buf' \in [Slots -> Skb \union {NoSkb}]
  BY DEF TypeOK, Reclaim
<1>2. held' \in SUBSET Skb
  BY DEF TypeOK, Reclaim
<1>3. dirty' \in 0 .. Wrap - 1
  BY <1>0, RingRange DEF Reclaim
<1>4. bql' \in Int
  <2>1. Completed(n) \in SUBSET Slots
    BY <1>0, OffRange DEF Completed, Reclaimed
  <2>2. Cardinality(Completed(n)) \in Nat
    BY <2>1, SlotCount
  <2> QED BY <2>2 DEF TypeOK, Reclaim
<1>5. stopped' \in BOOLEAN
  BY DEF Reclaim, TypeOK
<1>6. Acked(n) \in 0 .. Wrap
  BY <1>0, SizeAssumption DEF Acked, TypeOK, Wrap
<1> QED BY <1>1, <1>2, <1>3, <1>4, <1>5, <1>6

(* Every step of the driver, the engine and the stack keeps the types.      *)
LEMMA TypeNext == TypeOK /\ [Next]_vars => TypeOK'
<1> SUFFICES ASSUME TypeOK, [Next]_vars PROVE TypeOK'
  OBVIOUS
<1>1. ASSUME NEW skb \in Skb, NEW n \in Segments, XmitFill(skb, n)
      PROVE  TypeOK'
  <2>1. n \in 0 .. MaxSeg /\ n \in Int
    BY SizeAssumption DEF Segments, Split
  <2>2. curr + n - 1 \in Int
    BY <2>1, SizeAssumption DEF TypeOK, Wrap
  <2>3. xmit' \in [pc : {"idle", "filled", "posted"}, n : 0 .. MaxSeg]
    BY <1>1, <2>1 DEF XmitFill
  <2>4. own' \in [Slots -> BOOLEAN] /\ data' \in [Slots -> Skb \union {NoSkb}]
    BY <1>1 DEF XmitFill, TypeOK
  <2>5. buf' \in [Slots -> Skb \union {NoSkb}]
    BY <1>1, <2>2, RingRange DEF XmitFill, TypeOK
  <2>6. held' \in SUBSET Skb /\ bql' \in Int /\ overlap' \in BOOLEAN
    BY <1>1 DEF XmitFill, TypeOK
  <2> QED BY <1>1, <2>3, <2>4, <2>5, <2>6 DEF XmitFill, TypeOK, hwVars, workVars
<1>2. ASSUME NEW skb \in Skb, NEW n \in Segments, NEW f \in 0 .. n - 1,
             XmitDrop(skb, n, f)
      PROVE  TypeOK'
  BY <1>2 DEF XmitDrop, TypeOK, hwVars, netVars, workVars, histVars
<1>3. CASE XmitPost
  <2>1. curr \in Int /\ xmit.n \in Int /\ xmit.n \in 0 .. MaxSeg
    BY SizeAssumption DEF TypeOK, Wrap
  <2> QED BY <1>3, <2>1, RingRange, ZenonT(60) DEF XmitPost, TypeOK, hwVars, workVars, histVars
<1>4. CASE XmitKick
  <2>1. xmit' \in [pc : {"idle", "filled", "posted"}, n : 0 .. MaxSeg]
    BY <1>4, SizeAssumption DEF XmitKick
  <2>2. stopped' \in BOOLEAN
    BY <1>4 DEF XmitKick, TypeOK
  <2> QED BY <1>4, <2>1, <2>2 DEF XmitKick, TypeOK, ringVars, workVars, histVars
<1>5. CASE XmitFreedRing
  BY <1>5 DEF XmitFreedRing, TypeOK, ringVars, hwVars, netVars, workVars
<1>6. CASE EngineSend
  <2>1. fetch \in Slots
    BY <1>6 DEF EngineSend, TypeOK
  <2>2. fetch' \in Slots
    BY <1>6, <2>1, RingRange DEF EngineSend
  <2>3. ps' \in 0 .. Wrap
    BY <1>6, SizeAssumption DEF EngineSend, TypeOK, Wrap
  <2> QED BY <1>6, <2>2, <2>3 DEF EngineSend, TypeOK, netVars, workVars, histVars
<1>7. CASE EngineIdle
  BY <1>7 DEF EngineIdle, TypeOK, ringVars, netVars, workVars, histVars
<1>8. CASE Poll
  <2>1. PICK m \in 0 .. Used, n \in 0 .. Used, stuck \in BOOLEAN :
           Reclaim(n) /\ ps' = Acked(n) /\ pending' = (stuck \/ (pending /\ n = 0))
    BY <1>8 DEF Poll
  <2>2. pending' \in BOOLEAN
    BY <2>1
  <2> QED BY <1>8, <2>1, <2>2, TypeReclaim DEF Poll, TypeOK
<1>9. CASE LinkUp
  <2>1. CASE HasFastReset
    <3>1. FastReset
      BY <1>9, <2>1 DEF LinkUp
    <3>2. pending' \in BOOLEAN
      BY <3>1 DEF FastReset, TypeOK
    <3>3. overlap' \in BOOLEAN
      BY <1>9 DEF LinkUp, TypeOK
    <3> QED BY <1>9, <3>1, <3>2, <3>3, ZeroRange DEF LinkUp, FastReset, TypeOK
  <2>2. CASE ~HasFastReset
    BY <1>9, <2>2 DEF LinkUp, TypeOK, ringVars, hwVars
  <2> QED BY <2>1, <2>2
<1>10. CASE LinkDown
  BY <1>10 DEF LinkDown, TypeOK, ringVars, netVars, workVars, histVars
<1>11. CASE LinkWatch
  BY <1>11 DEF LinkWatch, TypeOK, ringVars, hwVars, workVars, histVars
<1>12. CASE TxTimeout
  BY <1>12 DEF TxTimeout, TypeOK, ringVars, hwVars, netVars, histVars
<1>13. CASE Work
  <2> USE DEF TypeOK, WorkSteps
  <2>1. CASE WorkStop
    BY <2>1, ZeroRange DEF WorkStop, ringVars, histVars
  <2>2. CASE WorkNapiDisabled
    BY <2>2, ZenonT(60) DEF WorkNapiDisabled, ringVars, hwVars, netVars, histVars
  <2>3. CASE WorkClean
    <3>1. Cardinality({s \in Window : buf[s] # NoSkb}) \in Nat
      <4>1. {s \in Window : buf[s] # NoSkb} \in SUBSET Slots
        BY UsedRange, OffRange DEF Window
      <4> QED BY <4>1, SlotCount
    <3> QED BY <2>3, <3>1 DEF WorkClean, hwVars
  <2>4. CASE WorkFree
    BY <2>4, ZeroRange, ZenonT(60) DEF WorkFree, ringVars, hwVars, histVars
  <2>5. CASE WorkEnable
    BY <2>5, ZeroRange DEF WorkEnable, FreshRing, histVars
  <2>6. CASE WorkEnableFails
    <3>1. CASE FreshRing
      BY <2>6, <3>1, ZeroRange DEF WorkEnableFails, FreshRing, hwVars, histVars
    <3>2. CASE UNCHANGED <<ringVars, bql, rings>>
      BY <2>6, <3>2 DEF WorkEnableFails, ringVars, hwVars, histVars
    <3> QED BY <2>6, <3>1, <3>2 DEF WorkEnableFails
  <2>7. CASE WorkAdjust
    BY <2>7 DEF WorkAdjust, ringVars, hwVars, netVars, histVars
  <2>8. CASE WorkFlush
    <3>1. PICK n \in 0 .. Used : Flush(n) /\ ps' = Acked(n)
      BY <2>8 DEF WorkFlush
    <3>2. pending' \in BOOLEAN
      BY <3>1 DEF Flush
    <3>3. own' \in [Slots -> BOOLEAN]
      BY <3>1 DEF Flush
    <3>4. Reclaim(n)
      BY <3>1 DEF Flush
    <3> QED BY <2>8, <3>1, <3>2, <3>3, <3>4, TypeReclaim DEF WorkFlush
  <2>9. CASE WorkDmaReset
    BY <2>9, ZeroRange DEF WorkDmaReset, ringVars, netVars, histVars
  <2>10. CASE WorkZero
    BY <2>10, ZeroRange DEF WorkZero, hwVars, histVars
  <2>11. CASE WorkBase
    BY <2>11, ZeroRange DEF WorkBase, ringVars, netVars, histVars
  <2>12. CASE WorkStart
    BY <2>12, ZenonT(60) DEF WorkStart, ringVars, hwVars, histVars
  <2> QED BY <1>13, <2>1, <2>2, <2>3, <2>4, <2>5, <2>6, <2>7, <2>8, <2>9, <2>10,
             <2>11, <2>12 DEF Work
<1>14. CASE FlushFreedRing
  BY <1>14 DEF FlushFreedRing, TypeOK, ringVars, hwVars, netVars, workVars
<1>15. CASE UNCHANGED vars
  BY <1>15 DEF TypeOK, vars, ringVars, hwVars, netVars, workVars, histVars
<1> QED BY <1>1, <1>2, <1>3, <1>4, <1>5, <1>6, <1>7, <1>8, <1>9, <1>10, <1>11,
           <1>12, <1>13, <1>14, <1>15 DEF Next, Xmit

(* The driver's variables always have their types, whatever the ring size,  *)
(* the MAC and the interleaving: counters wrap, the engine's pointer stays  *)
(* in the ring and the packet-sent counter within its range.                *)
THEOREM TypeCorrect == Spec => []TypeOK
<1>1. Init => TypeOK
  BY TypeInit
<1>2. TypeOK /\ [Next]_vars => TypeOK'
  BY TypeNext
<1> QED BY <1>1, <1>2, PTL DEF Spec

----------------------------------------------------------------------------
(* Ownership: the invariant behind NoUseAfterFree, on the MACs that send a  *)
(* packet in one descriptor.                                                *)

(* Without desc_split a packet takes one descriptor, and fill_dma_desc      *)
(* marks none but the first.                                                *)
LEMMA OneSegment ==
    ASSUME ~Split
    PROVE  /\ Segments = {1}
           /\ TypeOK => SegSlots(1) = {Slot(curr)} /\ TailSlots(1) = {}
           /\ TailSlots(0) = {} /\ SegSlots(0) = {}
<1>1. Segments = {1}
  BY DEF Segments
<1>2. ASSUME TypeOK PROVE SegSlots(1) = {Slot(curr)}
  <2>1. curr + 0 = curr
    BY <1>2, SizeAssumption DEF TypeOK, Wrap
  <2>2. SegSlots(1) = {Slot(curr + k) : k \in {0}}
    BY DEF SegSlots
  <2> QED BY <2>1, <2>2
<1>3. TailSlots(1) = {}
  BY DEF TailSlots
<1>4. TailSlots(0) = {} /\ SegSlots(0) = {}
  BY DEF TailSlots, SegSlots
<1> QED BY <1>1, <1>2, <1>3, <1>4

(* The poll takes the packet only from descriptors the engine gave back,    *)
(* and a flush takes the descriptor along with the packet.                  *)
LEMMA WalkedIsFree ==
    ASSUME TypeOK, NEW m \in 0 .. Used, NEW n \in 0 .. Used,
           Walked(m), Reclaims(m, n)
    PROVE  \A s \in Reclaimed(n) : ~own[s]
<1>1. n \in Int /\ m \in Int /\ n <= m
  BY UsedRange, SizeAssumption DEF Wrap, Reclaims
<1> QED BY <1>1 DEF Walked, Reclaimed

LEMMA ReclaimedInWindow ==
    ASSUME TypeOK, NEW n \in 0 .. Used PROVE Reclaimed(n) \subseteq Window
<1>1. n \in Int /\ Used \in Int /\ n <= Used
  BY UsedRange, SizeAssumption DEF Wrap
<1> QED BY <1>1 DEF Reclaimed, Window

LEMMA OwnershipInit == Init => OwnershipInv
<1> SUFFICES ASSUME Init PROVE OwnershipInv
  OBVIOUS
<1>1. OwnedHasPacket
  BY DEF Init, OwnedHasPacket
<1>2. FilledHasPacket
  BY DEF Init, FilledHasPacket
<1>3. EngineParked
  BY DEF Init, EngineParked
<1> QED BY <1>1, <1>2, <1>3 DEF OwnershipInv

(* The transmit call: the packet is attached before its descriptor is       *)
(* handed over.                                                             *)
LEMMA OwnershipXmit ==
    ASSUME ~Split, TypeOK, OwnershipInv,
           \/ Xmit \/ XmitPost \/ XmitKick \/ XmitFreedRing
    PROVE  OwnershipInv'
<1> USE DEF OwnershipInv
<1>0. Slot(curr) \in Slots
  BY RingRange, SizeAssumption DEF TypeOK, Wrap
<1>1. ASSUME NEW skb \in Skb, NEW n \in Segments, XmitFill(skb, n)
      PROVE  OwnershipInv'
  <2>1. n = 1 /\ SegSlots(n) = {Slot(curr)} /\ TailSlots(n) = {}
    BY OneSegment
  <2>2. Slot(curr + n - 1) = Slot(curr)
    BY <2>1, SizeAssumption DEF TypeOK, Wrap
  <2>3. ~own[Slot(curr)] /\ rings
    BY <1>1, <2>1 DEF XmitFill, Fits
  <2>4. own' = own /\ curr' = curr /\ rings' = rings /\ work' = work
    BY <1>1, <2>1 DEF XmitFill, workVars, TypeOK
  <2>5. \A s \in Slots :
           s # Slot(curr) => data'[s] = data[s] /\ buf'[s] = buf[s]
    BY <1>1, <2>1, <2>2 DEF XmitFill, TypeOK
  <2>6. data'[Slot(curr)] = skb /\ buf'[Slot(curr)] = skb
    BY <1>0, <1>1, <2>1, <2>2 DEF XmitFill, TypeOK
  <2>7. OwnedHasPacket'
    <3>1. SUFFICES ASSUME rings, work # "free", NEW s \in Slots, own[s]
                   PROVE  data'[s] \in Skb /\ buf'[s] = data'[s]
      BY <2>4 DEF OwnedHasPacket
    <3>2. s # Slot(curr)
      BY <2>3, <3>1
    <3>3. data[s] \in Skb /\ buf[s] = data[s]
      BY <3>1 DEF OwnedHasPacket
    <3> QED BY <2>5, <3>2, <3>3
  <2>8. FilledHasPacket'
    <3>1. xmit'.n = 1
      BY <1>1, <2>1 DEF XmitFill
    <3>2. Slot(curr)' = Slot(curr)
      BY <2>4 DEF Slot
    <3> QED BY <2>3, <2>4, <2>6, <3>1, <3>2 DEF FilledHasPacket
  <2>9. EngineParked'
    BY <1>1, <2>3 DEF XmitFill, EngineParked, hwVars, workVars
  <2> QED BY <2>7, <2>8, <2>9
<1>2. ASSUME NEW skb \in Skb, NEW n \in Segments, NEW f \in 0 .. n - 1,
             XmitDrop(skb, n, f)
      PROVE  OwnershipInv'
  <2>1. f = 0
    BY OneSegment
  <2>2. own' = own /\ data' = data /\ UNCHANGED <<buf, curr, hwVars, netVars, workVars, histVars>>
    BY <1>2, <2>1, OneSegment DEF XmitDrop, TypeOK
  <2>3. OwnedHasPacket'
    BY <2>2 DEF OwnedHasPacket, workVars
  <2>4. FilledHasPacket'
    BY <2>2 DEF FilledHasPacket, Slot, netVars, workVars
  <2>5. EngineParked'
    BY <2>2 DEF EngineParked, hwVars, workVars, histVars
  <2> QED BY <2>3, <2>4, <2>5
<1>3. CASE XmitPost
  <2>1. rings /\ data[Slot(curr)] \in Skb /\ buf[Slot(curr)] = data[Slot(curr)]
    BY <1>3 DEF XmitPost, FilledHasPacket
  <2>2. OwnedHasPacket'
    <3>1. \A s \in Slots : own'[s] => own[s] \/ s = Slot(curr)
      BY <1>3 DEF XmitPost, TypeOK
    <3> QED BY <1>3, <2>1, <3>1 DEF XmitPost, OwnedHasPacket, workVars
  <2>3. FilledHasPacket'
    BY <1>3, <2>1 DEF XmitPost, FilledHasPacket, workVars
  <2>4. EngineParked'
    BY <1>3 DEF XmitPost, EngineParked, hwVars, workVars, histVars
  <2> QED BY <2>2, <2>3, <2>4
<1>4. CASE XmitKick
  <2>1. rings
    BY <1>4 DEF XmitKick, FilledHasPacket
  <2>2. OwnedHasPacket'
    BY <1>4 DEF XmitKick, OwnedHasPacket, ringVars, workVars
  <2>3. FilledHasPacket'
    BY <1>4 DEF XmitKick, FilledHasPacket
  <2>4. EngineParked'
    BY <1>4, <2>1 DEF XmitKick, EngineParked, workVars, histVars
  <2> QED BY <2>2, <2>3, <2>4
<1>5. CASE XmitFreedRing
  <2>1. OwnedHasPacket'
    BY <1>5 DEF XmitFreedRing, OwnedHasPacket, ringVars, workVars
  <2>2. FilledHasPacket'
    BY <1>5 DEF XmitFreedRing, FilledHasPacket, Slot, ringVars, netVars, workVars
  <2>3. EngineParked'
    BY <1>5 DEF XmitFreedRing, EngineParked, hwVars, workVars
  <2> QED BY <2>1, <2>2, <2>3
<1> QED BY <1>1, <1>2, <1>3, <1>4, <1>5 DEF Xmit

(* The engine only gives descriptors back, and stops.                       *)
LEMMA OwnershipEngine ==
    ASSUME TypeOK, OwnershipInv, EngineSend \/ EngineIdle
    PROVE  OwnershipInv'
<1> USE DEF OwnershipInv
<1>1. CASE EngineSend
  <2>1. \A s \in Slots : own'[s] => own[s]
    BY <1>1 DEF EngineSend, TypeOK
  <2>2. OwnedHasPacket'
    BY <1>1, <2>1 DEF EngineSend, OwnedHasPacket, workVars
  <2>3. FilledHasPacket'
    BY <1>1 DEF EngineSend, FilledHasPacket, Slot, netVars, workVars
  <2>4. EngineParked'
    BY <1>1 DEF EngineSend, EngineParked, workVars, histVars
  <2> QED BY <2>2, <2>3, <2>4
<1>2. CASE EngineIdle
  <2>1. OwnedHasPacket'
    BY <1>2 DEF EngineIdle, OwnedHasPacket, ringVars, workVars
  <2>2. FilledHasPacket'
    BY <1>2 DEF EngineIdle, FilledHasPacket, Slot, ringVars, netVars, workVars
  <2>3. EngineParked'
    BY <1>2 DEF EngineIdle, EngineParked, workVars, histVars
  <2> QED BY <2>1, <2>2, <2>3
<1> QED BY <1>1, <1>2

(* The poll frees packets of descriptors the engine has given back.         *)
LEMMA OwnershipPoll ==
    ASSUME TypeOK, OwnershipInv, Poll
    PROVE  OwnershipInv'
<1> USE DEF OwnershipInv
<1>1. PICK m \in 0 .. Used, n \in 0 .. Used :
         Walked(m) /\ Reclaims(m, n) /\ Reclaim(n)
  BY DEF Poll
<1>2. \A s \in Slots : own[s] => buf'[s] = buf[s]
  BY <1>1, WalkedIsFree DEF Reclaim
<1>3. OwnedHasPacket'
  BY <1>2 DEF Poll, OwnedHasPacket
<1>4. FilledHasPacket'
  BY DEF Poll, FilledHasPacket, CpuFree
<1>5. EngineParked'
  BY DEF Poll, EngineParked
<1> QED BY <1>3, <1>4, <1>5

(* Link changes: a fast reset takes back each descriptor whose packet it    *)
(* frees.                                                                   *)
LEMMA OwnershipLink ==
    ASSUME TypeOK, OwnershipInv, LinkUp \/ LinkDown \/ LinkWatch \/ TxTimeout
    PROVE  OwnershipInv'
<1> USE DEF OwnershipInv
<1>1. CASE LinkUp
  <2>1. FilledHasPacket'
    BY <1>1 DEF LinkUp, FilledHasPacket, MayReport, CpuFree
  <2>2. CASE HasFastReset
    <3>1. FastReset
      BY <1>1, <2>2 DEF LinkUp
    <3>2. \A s \in Slots : own'[s] => own[s] /\ buf'[s] = buf[s]
      BY <3>1 DEF FastReset
    <3>3. OwnedHasPacket'
      BY <1>1, <3>2 DEF LinkUp, OwnedHasPacket
    <3>4. ~txe'
      BY <3>1 DEF FastReset
    <3>5. EngineParked'
      BY <1>1, <3>4 DEF LinkUp, MayReport, EngineParked
    <3> QED BY <2>1, <3>3, <3>5
  <2>3. CASE ~HasFastReset
    <3>1. OwnedHasPacket'
      BY <1>1, <2>3 DEF LinkUp, OwnedHasPacket, ringVars
    <3>2. EngineParked'
      BY <1>1, <2>3 DEF LinkUp, MayReport, EngineParked, hwVars
    <3> QED BY <2>1, <3>1, <3>2
  <2> QED BY <2>2, <2>3
<1>2. CASE LinkDown
  <2>1. OwnedHasPacket'
    BY <1>2 DEF LinkDown, OwnedHasPacket, ringVars, workVars
  <2>2. FilledHasPacket'
    BY <1>2 DEF LinkDown, FilledHasPacket, Slot, ringVars, netVars, workVars
  <2>3. EngineParked'
    BY <1>2 DEF LinkDown, EngineParked, workVars, histVars
  <2> QED BY <2>1, <2>2, <2>3
<1>3. CASE LinkWatch
  <2>1. OwnedHasPacket'
    BY <1>3 DEF LinkWatch, OwnedHasPacket, ringVars, workVars
  <2>2. FilledHasPacket'
    BY <1>3 DEF LinkWatch, FilledHasPacket, Slot, ringVars, workVars
  <2>3. EngineParked'
    BY <1>3 DEF LinkWatch, EngineParked, hwVars, workVars, histVars
  <2> QED BY <2>1, <2>2, <2>3
<1>4. CASE TxTimeout
  <2>1. OwnedHasPacket'
    BY <1>4 DEF TxTimeout, OwnedHasPacket, ringVars
  <2>2. FilledHasPacket'
    BY <1>4 DEF TxTimeout, FilledHasPacket, Slot, ringVars, netVars
  <2>3. EngineParked'
    BY <1>4 DEF TxTimeout, EngineParked, hwVars, histVars
  <2> QED BY <2>1, <2>2, <2>3
<1> QED BY <1>1, <1>2, <1>3, <1>4

(* The restart work: rings are given up only with the engine parked, and a  *)
(* fresh ring has nothing for the engine.                                   *)
LEMMA OwnershipWork ==
    ASSUME TypeOK, OwnershipInv, Work \/ FlushFreedRing
    PROVE  OwnershipInv'
<1> USE DEF OwnershipInv
<1>1. FilledHasPacket'
  BY DEF Work, WorkStop, WorkNapiDisabled, WorkClean, WorkFree, WorkEnable,
         WorkEnableFails, WorkAdjust, WorkFlush, WorkDmaReset, WorkZero, WorkBase,
         WorkStart, FlushFreedRing, CpuFree, netVars, FilledHasPacket
<1>2. CASE WorkStop
  <2>1. OwnedHasPacket'
    BY <1>2 DEF WorkStop, OwnedHasPacket, ringVars
  <2>2. EngineParked'
    BY <1>2 DEF WorkStop, EngineParked, histVars
  <2> QED BY <1>1, <2>1, <2>2
<1>3. CASE WorkNapiDisabled
  <2>1. OwnedHasPacket'
    BY <1>3 DEF WorkNapiDisabled, OwnedHasPacket, ringVars
  <2>2. EngineParked'
    BY <1>3 DEF WorkNapiDisabled, EngineParked, hwVars, histVars
  <2> QED BY <1>1, <2>1, <2>2
<1>4. CASE WorkClean
  <2>1. OwnedHasPacket'
    BY <1>4 DEF WorkClean, OwnedHasPacket
  <2>2. EngineParked'
    BY <1>4 DEF WorkClean, EngineParked, hwVars
  <2> QED BY <1>1, <2>1, <2>2
<1>5. CASE WorkFree
  <2>1. OwnedHasPacket'
    BY <1>5 DEF WorkFree, OwnedHasPacket
  <2>2. EngineParked'
    BY <1>5 DEF WorkFree, EngineParked, hwVars, histVars
  <2> QED BY <1>1, <2>1, <2>2
<1>6. CASE WorkEnable
  <2>1. OwnedHasPacket'
    BY <1>6 DEF WorkEnable, OwnedHasPacket, FreshRing
  <2>2. EngineParked'
    BY <1>6 DEF WorkEnable, EngineParked, FreshRing, histVars
  <2> QED BY <1>1, <2>1, <2>2
<1>7. CASE WorkEnableFails
  <2>1. CASE FreshRing
    <3>1. OwnedHasPacket'
      BY <1>7, <2>1 DEF WorkEnableFails, FreshRing, OwnedHasPacket
    <3>2. EngineParked'
      BY <1>7, <2>1 DEF WorkEnableFails, FreshRing, EngineParked, hwVars, histVars
    <3> QED BY <1>1, <3>1, <3>2
  <2>2. CASE UNCHANGED <<ringVars, bql, rings>>
    <3>1. OwnedHasPacket'
      BY <1>7, <2>2 DEF WorkEnableFails, OwnedHasPacket, ringVars
    <3>2. EngineParked'
      BY <1>7, <2>2 DEF WorkEnableFails, EngineParked, hwVars, histVars
    <3> QED BY <1>1, <3>1, <3>2
  <2> QED BY <1>7, <2>1, <2>2 DEF WorkEnableFails
<1>8. CASE WorkAdjust
  <2>1. OwnedHasPacket'
    BY <1>8 DEF WorkAdjust, OwnedHasPacket, ringVars
  <2>2. EngineParked'
    BY <1>8 DEF WorkAdjust, EngineParked, hwVars, histVars
  <2> QED BY <1>1, <2>1, <2>2
<1>9. CASE WorkFlush
  <2>1. PICK n \in 0 .. Used : Flush(n)
    BY <1>9 DEF WorkFlush
  <2>2. \A s \in Slots : own'[s] => own[s] /\ buf'[s] = buf[s]
    <3>1. Reclaimed(n) \subseteq Window
      BY ReclaimedInWindow
    <3> QED BY <2>1, <3>1 DEF Flush, Reclaim
  <2>3. OwnedHasPacket'
    BY <1>9, <2>2 DEF WorkFlush, OwnedHasPacket
  <2>4. EngineParked'
    BY <1>9 DEF WorkFlush, EngineParked
  <2> QED BY <1>1, <2>3, <2>4
<1>10. CASE WorkDmaReset
  <2>1. OwnedHasPacket'
    BY <1>10 DEF WorkDmaReset, OwnedHasPacket, ringVars
  <2>2. EngineParked'
    BY <1>10 DEF WorkDmaReset, EngineParked, histVars
  <2> QED BY <1>1, <2>1, <2>2
<1>11. CASE WorkZero
  <2>1. OwnedHasPacket'
    BY <1>11 DEF WorkZero, OwnedHasPacket
  <2>2. EngineParked'
    BY <1>11 DEF WorkZero, EngineParked, hwVars, histVars
  <2> QED BY <1>1, <2>1, <2>2
<1>12. CASE WorkBase
  <2>1. OwnedHasPacket'
    BY <1>12 DEF WorkBase, OwnedHasPacket, ringVars
  <2>2. EngineParked'
    BY <1>12 DEF WorkBase, EngineParked, histVars
  <2> QED BY <1>1, <2>1, <2>2
<1>13. CASE WorkStart
  <2>1. OwnedHasPacket'
    BY <1>13 DEF WorkStart, OwnedHasPacket, ringVars
  <2>2. EngineParked'
    BY <1>13 DEF WorkStart, EngineParked, hwVars, histVars
  <2> QED BY <1>1, <2>1, <2>2
<1>14. CASE FlushFreedRing
  <2>1. OwnedHasPacket'
    BY <1>14 DEF FlushFreedRing, OwnedHasPacket, ringVars, workVars
  <2>2. EngineParked'
    BY <1>14 DEF FlushFreedRing, EngineParked, hwVars, workVars
  <2> QED BY <1>1, <2>1, <2>2
<1> QED BY <1>2, <1>3, <1>4, <1>5, <1>6, <1>7, <1>8, <1>9, <1>10, <1>11,
           <1>12, <1>13, <1>14 DEF Work

LEMMA OwnershipNext ==
    ~Split /\ TypeOK /\ OwnershipInv /\ [Next]_vars => OwnershipInv'
<1> SUFFICES ASSUME ~Split, TypeOK, OwnershipInv, [Next]_vars PROVE OwnershipInv'
  OBVIOUS
<1>1. CASE Next
  BY <1>1, OwnershipXmit, OwnershipEngine, OwnershipPoll, OwnershipLink,
     OwnershipWork DEF Next
<1>2. CASE UNCHANGED vars
  BY <1>2 DEF vars, ringVars, hwVars, netVars, workVars, histVars, OwnershipInv,
              OwnedHasPacket, FilledHasPacket, EngineParked, Slot
<1> QED BY <1>1, <1>2

LEMMA OwnershipImplies == TypeOK /\ OwnershipInv => NoUseAfterFree
<1> SUFFICES ASSUME TypeOK, OwnershipInv, ~overlap, fetch # StopDesc
             PROVE  IF rings
                      THEN \A s \in Slots : own[s] =>
                               \E t \in Slots : buf[t] = data[s] /\ buf[t] # NoSkb
                      ELSE ~txe
  BY DEF NoUseAfterFree
<1>1. CASE rings
  <2>1. work # "free"
    BY <1>1 DEF OwnershipInv, EngineParked
  <2>2. ASSUME NEW s \in Slots, own[s]
        PROVE  buf[s] = data[s] /\ buf[s] # NoSkb
    BY <1>1, <2>1, <2>2, SkbAssumption DEF OwnershipInv, OwnedHasPacket
  <2> QED BY <1>1, <2>2
<1>2. CASE ~rings
  BY <1>2 DEF OwnershipInv, EngineParked
<1> QED BY <1>1, <1>2

(* On the ar91xx and the ar724x the ownership invariant holds throughout:   *)
(* a descriptor the engine owns has its own packet attached to its slot,    *)
(* for every ring size, any number of packets and every interleaving of     *)
(* transmit, poll, link reports, restarts and failing allocations.          *)
THEOREM OwnershipHolds == ~Split => (Spec => []OwnershipInv)
<1> SUFFICES ASSUME ~Split PROVE Spec => []OwnershipInv
  OBVIOUS
<1>1. Init => TypeOK /\ OwnershipInv
  BY TypeInit, OwnershipInit
<1>2. (TypeOK /\ OwnershipInv) /\ [Next]_vars => (TypeOK /\ OwnershipInv)'
  BY TypeNext, OwnershipNext
<1> QED BY <1>1, <1>2, PTL DEF Spec

(* Hence, where no transmit ran inside an unlocked reset, the engine never  *)
(* reads a packet that was freed and never runs on a ring that is gone.     *)
THEOREM NeverUsesFreed == ~Split => (Spec => []NoUseAfterFree)
<1> SUFFICES ASSUME ~Split PROVE Spec => []NoUseAfterFree
  OBVIOUS
<1>1. Spec => []OwnershipInv
  BY OwnershipHolds
<1>2. Spec => []TypeOK
  BY TypeCorrect
<1>3. TypeOK /\ OwnershipInv => NoUseAfterFree
  BY OwnershipImplies
<1> QED BY <1>1, <1>2, <1>3, PTL

----------------------------------------------------------------------------
(* The window of the ring on the ar724x, for every ring of more than one    *)
(* descriptor and every number of packets.                                  *)

(* Arithmetic of the window: dirty and curr are remainders by Wrap, slots   *)
(* are remainders by Size, and Wrap is twice Size.                          *)
LEMMA WindowRange ==
    ASSUME TypeOK
    PROVE  /\ Used \in 0 .. Wrap - 1 /\ Used \in Int
           /\ Size \in Nat /\ Size > 0 /\ Wrap = 2 * Size
           /\ curr \in Int /\ dirty \in Int
BY UsedRange, SizeAssumption DEF TypeOK, Wrap

LEMMA OffInjective ==
    ASSUME TypeOK, NEW j \in 0 .. Size - 1, NEW k \in 0 .. Size - 1, Off(j) = Off(k)
    PROVE  j = k
BY SizeAssumption DEF TypeOK, Off, Slot, Wrap

LEMMA SlotOfCurr == ASSUME TypeOK PROVE Slot(curr) = Off(Used)
BY SizeAssumption DEF TypeOK, Off, Slot, Wrap, Used

LEMMA OffNext ==
    ASSUME TypeOK, NEW k \in 0 .. Size PROVE NextSlot(Off(k)) = Off(k + 1)
BY SizeAssumption DEF TypeOK, Off, Slot, Wrap, NextSlot

(* What a transmit, the reclaim and a reset do to the window.               *)
LEMMA WindowSame ==
    ASSUME curr' = curr, dirty' = dirty
    PROVE  /\ Used' = Used
           /\ \A k : Off(k)' = Off(k)
           /\ Slot(curr)' = Slot(curr)
BY DEF Used, Off, Slot

LEMMA WindowGrows ==
    ASSUME TypeOK, Used < Size, curr' = Plus(curr, 1), dirty' = dirty
    PROVE  /\ Used' = Used + 1
           /\ \A k : Off(k)' = Off(k)
<1>1. (Plus(curr, 1) - dirty) % Wrap = Used + 1
  BY SizeAssumption DEF TypeOK, Plus, Wrap, Used
<1>2. Used' = Used + 1
  BY <1>1 DEF Used, Wrap
<1> QED BY <1>2 DEF Off, Slot

LEMMA WindowShrinks ==
    ASSUME TypeOK, NEW n \in 0 .. Used, n <= Size, curr' = curr, dirty' = Plus(dirty, n)
    PROVE  /\ Used' = Used - n
           /\ \A k \in 0 .. Size : Off(k)' = Off(n + k)
<1>1. (curr - Plus(dirty, n)) % Wrap = Used - n
  BY SizeAssumption DEF TypeOK, Plus, Wrap, Used
<1>2. Used' = Used - n
  BY <1>1 DEF Used, Wrap
<1>3. ASSUME NEW k \in 0 .. Size PROVE Slot(Plus(dirty, n) + k) = Off(n + k)
  BY SizeAssumption DEF TypeOK, Plus, Wrap, Used, Off, Slot
<1> QED BY <1>2, <1>3 DEF Off, Slot

LEMMA WindowEmpties ==
    ASSUME TypeOK', curr' = dirty' PROVE Used' = 0
<1>1. dirty' \in 0 .. 2 * Size - 1
  BY DEF TypeOK, Wrap
<1>2. \A x \in 0 .. 2 * Size - 1 : (x - x) % (2 * Size) = 0
  BY SizeAssumption
<1> QED BY <1>1, <1>2 DEF Used, Wrap

(* The first descriptors of the window occupy as many slots.                *)
LEMMA SlotsCounted ==
    ASSUME TypeOK, NEW n \in 0 .. Size
    PROVE  Cardinality(Reclaimed(n)) = n
<1>0. n \in Nat /\ Size \in Nat /\ Size > 0
  BY SizeAssumption
<1> DEFINE f == [i \in 1 .. n |-> Off(i - 1)]
<1>1. \A i \in 1 .. n : i - 1 \in 0 .. n - 1 /\ i - 1 \in 0 .. Size - 1
  BY <1>0
<1>2. Reclaimed(n) = {f[i] : i \in 1 .. n}
  <2>1. \A k \in 0 .. n - 1 : k + 1 \in 1 .. n /\ (k + 1) - 1 = k
    BY <1>0
  <2>2. \A k \in 0 .. n - 1 : f[k + 1] = Off(k)
    BY <2>1
  <2>3. \A s \in Reclaimed(n) : \E i \in 1 .. n : s = f[i]
    BY <2>1, <2>2 DEF Reclaimed
  <2>4. \A i \in 1 .. n : f[i] \in Reclaimed(n)
    BY <1>1 DEF Reclaimed
  <2> HIDE DEF f
  <2> QED BY <2>3, <2>4
<1>3. f \in Bijection(1 .. n, Reclaimed(n))
  <2>1. \A i, j \in 1 .. n : f[i] = f[j] => i = j
    <3>1. SUFFICES ASSUME NEW i \in 1 .. n, NEW j \in 1 .. n, Off(i - 1) = Off(j - 1)
                   PROVE  i = j
      OBVIOUS
    <3>2. i - 1 = j - 1
      BY <1>1, <3>1, OffInjective
    <3> QED BY <1>0, <3>2
  <2>2. f \in [1 .. n -> Reclaimed(n)]
    BY <1>2
  <2>3. \A t \in Reclaimed(n) : \E i \in 1 .. n : f[i] = t
    BY <1>2
  <2> HIDE DEF f
  <2> QED BY <2>1, <2>2, <2>3 DEF Bijection, Injection, Surjection, IsInjective
<1>4. IsFiniteSet(1 .. n) /\ Cardinality(1 .. n) = n
  BY <1>0, FS_Interval
<1> QED BY <1>3, <1>4, FS_Bijection DEF ExistsBijection

(* Without desc_split the driver fills one descriptor at curr.              *)
LEMMA OneFilled ==
    ASSUME HasFastReset, TypeOK
    PROVE  /\ ~Split /\ Segments = {1}
           /\ SegSlots(1) = {Off(Used)} /\ TailSlots(1) = {}
           /\ SegSlots(0) = {} /\ TailSlots(0) = {}
           /\ Slot(curr + 1 - 1) = Off(Used)
<1>1. ~Split
  BY DEF HasFastReset, Split
<1>2. curr + 1 - 1 = curr
  BY WindowRange
<1> QED BY <1>1, <1>2, OneSegment, SlotOfCurr

(* Where every descriptor of the window carries a packet, the walk takes    *)
(* all it passes over, ...                                                  *)
LEMMA ReclaimsAll ==
    ASSUME TypeOK, Carried, NEW m \in 0 .. Used, NEW n, Reclaims(m, n)
    PROVE  n = m
<1>1. n \in 0 .. m /\ m \in Int /\ m <= Used
  BY WindowRange DEF Reclaims
<1>2. ASSUME n # m PROVE FALSE
  <2>1. n \in 0 .. Used - 1 /\ n \in n .. m - 1 /\ n < Size
    BY <1>1, <1>2, WindowRange DEF Carried
  <2>2. buf[Off(n)] # NoSkb
    BY <2>1 DEF Carried
  <2>3. ~Carries(n)
    BY <2>1 DEF Reclaims
  <2> QED BY <2>1, <2>2, <2>3 DEF Carries
<1> QED BY <1>2

(* ... and completes as many packets as descriptors.                        *)
LEMMA CompletedCount ==
    ASSUME TypeOK, Carried, NEW n \in 0 .. Used
    PROVE  Cardinality(Completed(n)) = n
<1>1. n \in 0 .. Size /\ n <= Used
  BY WindowRange DEF Carried
<1>2. \A k \in 0 .. n - 1 : k \in 0 .. Used - 1
  BY <1>1, WindowRange
<1>3. Completed(n) = Reclaimed(n)
  BY <1>2 DEF Completed, Reclaimed, Carried
<1> QED BY <1>1, <1>3, SlotsCounted

(* Slots further from dirty are not among the reclaimed ones.               *)
LEMMA BeyondReclaimed ==
    ASSUME TypeOK, NEW n \in 0 .. Size, NEW k \in n .. Size - 1
    PROVE  Off(k) \in Slots /\ Off(k) \notin Reclaimed(n)
<1>1. k \in 0 .. Size - 1 /\ k \in Int /\ n \in Int /\ Size \in Int
  BY WindowRange
<1>2. Off(k) \in Slots
  BY <1>1, OffRange
<1>3. ASSUME NEW j \in 0 .. n - 1, Off(k) = Off(j) PROVE FALSE
  <2>1. j \in 0 .. Size - 1 /\ j # k
    BY <1>1
  <2> QED BY <1>1, <1>3, <2>1, OffInjective
<1> QED BY <1>2, <1>3 DEF Reclaimed

----------------------------------------------------------------------------
(* Every descriptor of the window carries a packet.                         *)

LEMMA CarriedInit == Init => Carried
<1> SUFFICES ASSUME Init PROVE Carried
  OBVIOUS
<1>1. TypeOK
  BY TypeInit
<1>2. Used = 0
  BY SizeAssumption DEF Init, Used, Wrap
<1>3. xmit.pc # "filled" /\ bql = 0
  BY DEF Init
<1> QED BY <1>1, <1>2, <1>3, WindowRange DEF Carried

LEMMA CarriedSame ==
    ASSUME Carried, UNCHANGED <<buf, curr, dirty>>,
           xmit' = xmit \/ (xmit.pc = "posted" /\ xmit'.pc = "idle"),
           rings' => rings /\ bql' = bql
    PROVE  Carried'
<1>1. Used' = Used /\ \A k : Off(k)' = Off(k)
  BY WindowSame
<1>2. xmit'.pc = "filled" => xmit' = xmit
  OBVIOUS
<1>3. (IF xmit'.pc = "filled" THEN 1 ELSE 0) = (IF xmit.pc = "filled" THEN 1 ELSE 0)
  OBVIOUS
<1>4. rings' => bql' = Used + (IF xmit'.pc = "filled" THEN 1 ELSE 0)
  BY <1>3 DEF Carried
<1> QED BY <1>1, <1>2, <1>4 DEF Carried

LEMMA CarriedEmpty ==
    ASSUME TypeOK, TypeOK', curr' = dirty', xmit'.pc # "filled", rings' => bql' = 0
    PROVE  Carried'
<1>1. Used' = 0 /\ Size \in Nat
  BY WindowEmpties, WindowRange
<1> QED BY <1>1 DEF Carried

LEMMA CarriedReclaim ==
    ASSUME TypeOK, Carried, NEW n \in 0 .. Used, Reclaim(n),
           xmit.pc = "idle", UNCHANGED <<curr, xmit, rings>>
    PROVE  Carried'
<1>1. n \in 0 .. Size /\ n <= Size /\ n \in Int /\ n >= 0 /\ n <= Used
      /\ Used \in Int /\ Size \in Int /\ Used <= Size
  BY WindowRange DEF Carried
<1>2. Used' = Used - n /\ \A k \in 0 .. Size : Off(k)' = Off(n + k)
  BY <1>1, WindowShrinks DEF Reclaim
<1>3. ASSUME NEW k \in 0 .. Used - n - 1 PROVE buf'[Off(n + k)] # NoSkb
  <2>1. n + k \in n .. Size - 1 /\ n + k \in 0 .. Used - 1
    BY <1>1
  <2>2. Off(n + k) \in Slots /\ Off(n + k) \notin Reclaimed(n)
    BY <1>1, <2>1, BeyondReclaimed
  <2>3. buf'[Off(n + k)] = buf[Off(n + k)]
    BY <2>2 DEF Reclaim
  <2> QED BY <2>1, <2>3 DEF Carried
<1>4. \A k \in 0 .. Used' - 1 : k \in 0 .. Size /\ k \in 0 .. Used - n - 1
  BY <1>1, <1>2
<1>5. rings' => bql' = Used - n
  BY <1>1, CompletedCount DEF Reclaim, Carried, TypeOK
<1> QED BY <1>1, <1>2, <1>3, <1>4, <1>5 DEF Carried

LEMMA CarriedNext ==
    ASSUME HasFastReset, TypeOK, TypeOK', Carried, Room, [Next]_vars
    PROVE  Carried'
<1> USE DEF ringVars, hwVars, netVars, workVars, histVars
<1>1. ASSUME NEW skb \in Skb, NEW n \in Segments, XmitFill(skb, n)
      PROVE  Carried'
  <2>1. n = 1 /\ Slot(curr + n - 1) = Off(Used)
    BY OneFilled
  <2>2. Used \in Int /\ Off(Used) \in Slots
    BY WindowRange, OffRange
  <2>3. Used' = Used /\ \A k : Off(k)' = Off(k)
    BY <1>1, WindowSame DEF XmitFill
  <2>4. \A s \in Slots : buf'[s] = IF s = Off(Used) THEN skb ELSE buf[s]
    BY <1>1, <2>1, <2>2 DEF XmitFill, TypeOK
  <2>5. \A k \in Int : buf'[Off(k)] = IF Off(k) = Off(Used) THEN skb ELSE buf[Off(k)]
    BY <2>4, OffRange
  <2>6. skb # NoSkb
    BY SkbAssumption
  <2>7. \A k \in 0 .. Used' - 1 : buf'[Off(k)'] # NoSkb
    <3>1. \A k \in 0 .. Used - 1 : k \in Int /\ buf[Off(k)] # NoSkb
      BY <2>2 DEF Carried
    <3> QED BY <2>3, <2>5, <2>6, <3>1
  <2>8. buf'[Off(Used)'] # NoSkb
    BY <2>2, <2>3, <2>5, <2>6
  <2>9. xmit'.pc = "filled" /\ xmit'.n = 1
    BY <1>1, <2>1 DEF XmitFill
  <2>10. rings' => bql' = Used + 1
    BY <1>1, <2>2 DEF XmitFill, Carried, MayXmit, CpuFree
  <2> QED BY <2>3, <2>7, <2>8, <2>9, <2>10 DEF Carried
<1>2. ASSUME NEW skb \in Skb, NEW n \in Segments, NEW f \in 0 .. n - 1,
             XmitDrop(skb, n, f)
      PROVE  Carried'
  BY <1>2, CarriedSame DEF XmitDrop
<1>3. CASE XmitPost
  <2>1. Used < Size /\ Used \in Int /\ xmit.n = 1
    BY <1>3, WindowRange DEF XmitPost, Room, MaySend, Carried
  <2>2. Used' = Used + 1 /\ \A k : Off(k)' = Off(k)
    BY <1>3, <2>1, WindowGrows DEF XmitPost
  <2>3. \A k \in 0 .. Used' - 1 : k \in 0 .. Used - 1 \/ k = Used
    BY <2>1, <2>2
  <2>4. \A k \in 0 .. Used' - 1 : buf'[Off(k)'] # NoSkb
    BY <1>3, <2>2, <2>3 DEF XmitPost, Carried
  <2>5. xmit'.pc = "posted"
    BY <1>3 DEF XmitPost
  <2>6. rings' => bql' = Used + 1
    BY <1>3 DEF XmitPost, Carried
  <2>7. Used' <= Size /\ Used' + 0 = Used + 1
    BY <2>1, <2>2, WindowRange
  <2> QED BY <2>4, <2>5, <2>6, <2>7 DEF Carried
<1>4. CASE XmitKick
  BY <1>4, CarriedSame DEF XmitKick
<1>5. CASE XmitFreedRing
  BY <1>5, CarriedSame DEF XmitFreedRing
<1>6. CASE EngineSend \/ EngineIdle
  BY <1>6, CarriedSame DEF EngineSend, EngineIdle
<1>7. CASE Poll
  <2>1. PICK m \in 0 .. Used, n \in 0 .. Used : Reclaims(m, n) /\ Reclaim(n)
    BY <1>7 DEF Poll
  <2> QED BY <1>7, <2>1, CarriedReclaim DEF Poll, CpuFree
<1>8. CASE LinkUp
  BY <1>8, CarriedEmpty DEF LinkUp, FastReset, MayReport, CpuFree
<1>9. CASE LinkDown \/ LinkWatch \/ TxTimeout
  BY <1>9, CarriedSame DEF LinkDown, LinkWatch, TxTimeout
<1>10. CASE WorkClean
  <2>1. Completed(Used) = {s \in Window : buf[s] # NoSkb}
    BY DEF Completed, Reclaimed, Window
  <2>2. Cardinality({s \in Window : buf[s] # NoSkb}) = Used
    BY <2>1, CompletedCount, WindowRange
  <2>3. rings' => bql' = 0
    BY <1>10, <2>2, WindowRange DEF WorkClean, CpuFree, Carried
  <2> QED BY <1>10, <2>3, CarriedEmpty DEF WorkClean, CpuFree
<1>11. CASE WorkFlush
  <2>1. PICK n \in 0 .. Used : Flush(n)
    BY <1>11 DEF WorkFlush
  <2> QED BY <1>11, <2>1, CarriedReclaim DEF WorkFlush, Flush, CpuFree
<1>12. CASE WorkZero
  BY <1>12, CarriedEmpty DEF WorkZero, CpuFree
<1>13. CASE WorkEnable \/ WorkEnableFails
  <2>1. CASE FreshRing
    BY <1>13, <2>1, CarriedEmpty DEF WorkEnable, WorkEnableFails, FreshRing, CpuFree
  <2>2. CASE UNCHANGED <<ringVars, bql, rings>>
    BY <1>13, <2>2, CarriedSame DEF WorkEnable, WorkEnableFails
  <2> QED BY <1>13, <2>1, <2>2 DEF WorkEnable, WorkEnableFails
<1>14. CASE WorkStop \/ WorkNapiDisabled \/ WorkFree \/ WorkAdjust \/ WorkDmaReset
            \/ WorkBase \/ WorkStart \/ FlushFreedRing
  BY <1>14, CarriedSame DEF WorkStop, WorkNapiDisabled, WorkFree, WorkAdjust,
     WorkDmaReset, WorkBase, WorkStart, FlushFreedRing
<1>15. CASE UNCHANGED vars
  BY <1>15, CarriedSame DEF vars
<1> QED BY <1>1, <1>2, <1>3, <1>4, <1>5, <1>6, <1>7, <1>8, <1>9, <1>10, <1>11,
           <1>12, <1>13, <1>14, <1>15 DEF Next, Xmit, Work

----------------------------------------------------------------------------
(* An open queue has room.                                                  *)

LEMMA RoomEmpty == ASSUME Size > 1, Used' = 0 PROVE Room'
BY SizeAssumption DEF Room

LEMMA RoomSame ==
    ASSUME Room, Used' = Used, MaySend' => MaySend, work' = work
    PROVE  Room'
BY DEF Room

LEMMA RoomSameRing ==
    ASSUME Room, UNCHANGED <<curr, dirty>>, MaySend' => MaySend, work' = work
    PROVE  Room'
BY WindowSame, RoomSame

LEMMA RoomInit == Size > 1 /\ Init => Room
<1> SUFFICES ASSUME Size > 1, Init PROVE Room
  OBVIOUS
<1>1. Used = 0
  BY SizeAssumption DEF Init, Used, Wrap
<1> QED BY <1>1, SizeAssumption DEF Room

LEMMA RoomReclaim ==
    ASSUME Size > 1, TypeOK, Carried, Room, NEW n \in 0 .. Used, Reclaim(n),
           xmit.pc = "idle", UNCHANGED <<curr, xmit>>,
           work' \in {"base", "start"} => work \in {"base", "start"}
    PROVE  Room'
<1>1. n \in 0 .. Used /\ n <= Size /\ Used \in Int /\ Size \in Int /\ n \in Int
      /\ n >= 0 /\ n <= Used /\ Used <= Size
  BY WindowRange DEF Carried
<1>2. Used' = Used - n
  BY <1>1, WindowShrinks DEF Reclaim
<1>3. WakeBelow \in Int /\ WakeBelow <= Size - 1
  BY SizeAssumption DEF WakeBelow
<1>4. CASE stopped' = stopped
  <2>1. MaySend' => MaySend
    BY <1>4 DEF MaySend
  <2> QED BY <1>1, <1>2, <2>1 DEF Room
<1>5. CASE Used - n < WakeBelow
  BY <1>1, <1>2, <1>3, <1>5 DEF Room
<1>6. stopped' = stopped \/ Used - n < WakeBelow
  BY DEF Reclaim, TypeOK
<1> QED BY <1>4, <1>5, <1>6

LEMMA RoomNext ==
    ASSUME HasFastReset, Size > 1, TypeOK, TypeOK', Carried, Room, [Next]_vars
    PROVE  Room'
<1> USE DEF ringVars, hwVars, netVars, workVars, histVars
<1>1. ASSUME NEW skb \in Skb, NEW n \in Segments, XmitFill(skb, n)
      PROVE  Room'
  BY <1>1, RoomSameRing DEF XmitFill, MayXmit, CpuFree, MaySend
<1>2. ASSUME NEW skb \in Skb, NEW n \in Segments, NEW f \in 0 .. n - 1,
             XmitDrop(skb, n, f)
      PROVE  Room'
  BY <1>2, RoomSameRing DEF XmitDrop, MaySend
<1>3. CASE XmitPost
  <2>1. Used < Size /\ Used \in Int /\ xmit.n = 1 /\ MaySend
    BY <1>3, WindowRange DEF XmitPost, Room, MaySend, Carried
  <2>2. Used' = Used + 1 /\ work' = work /\ ~MaySend'
    BY <1>3, <2>1, WindowGrows DEF XmitPost, MaySend
  <2> QED BY <2>1, <2>2 DEF Room
<1>4. CASE XmitKick
  <2>1. Used' = Used /\ work' = work /\ Used \in Int /\ Size \in Int
    BY <1>4, WindowSame, WindowRange DEF XmitKick
  <2>2. RingMin = 2
    BY OneFilled DEF RingMin
  <2>3. MaySend' => ~Full
    BY <1>4 DEF XmitKick, MaySend
  <2>4. ~Full => Used < Size - 2
    BY <2>1, <2>2 DEF Full
  <2> QED BY <2>1, <2>3, <2>4 DEF Room
<1>5. CASE XmitFreedRing
  BY <1>5, RoomSameRing DEF XmitFreedRing, MaySend
<1>6. CASE EngineSend \/ EngineIdle
  BY <1>6, RoomSameRing DEF EngineSend, EngineIdle, MaySend
<1>7. CASE Poll
  <2>1. PICK m \in 0 .. Used, n \in 0 .. Used : Reclaims(m, n) /\ Reclaim(n)
    BY <1>7 DEF Poll
  <2> QED BY <1>7, <2>1, RoomReclaim DEF Poll, CpuFree
<1>8. CASE LinkUp
  BY <1>8, WindowEmpties, RoomEmpty DEF LinkUp, FastReset
<1>9. CASE LinkDown \/ LinkWatch \/ TxTimeout
  BY <1>9, RoomSameRing DEF LinkDown, LinkWatch, TxTimeout, MaySend
<1>10. CASE WorkClean
  BY <1>10, WindowEmpties, RoomEmpty DEF WorkClean
<1>11. CASE WorkFlush
  <2>1. PICK n \in 0 .. Used : Flush(n)
    BY <1>11 DEF WorkFlush
  <2> QED BY <1>11, <2>1, RoomReclaim DEF WorkFlush, Flush, CpuFree
<1>12. CASE WorkZero
  BY <1>12, WindowEmpties, RoomEmpty DEF WorkZero
<1>13. CASE WorkEnable
  BY <1>13, WindowEmpties, RoomEmpty DEF WorkEnable, FreshRing
<1>14. CASE WorkEnableFails
  <2>1. CASE FreshRing
    BY <2>1, WindowEmpties, RoomEmpty DEF FreshRing
  <2>2. CASE UNCHANGED <<ringVars, bql, rings>>
    <3>1. Used' = Used
      BY <2>2, WindowSame
    <3> QED BY <1>14, <3>1 DEF WorkEnableFails, Room, MaySend
  <2> QED BY <1>14, <2>1, <2>2 DEF WorkEnableFails
<1>15. CASE WorkStop \/ WorkNapiDisabled \/ WorkFree \/ WorkAdjust \/ WorkDmaReset
            \/ WorkBase
  <2>1. Used' = Used
    BY <1>15, WindowSame DEF WorkStop, WorkNapiDisabled, WorkFree, WorkAdjust,
       WorkDmaReset, WorkBase
  <2>2. MaySend' => MaySend
    BY <1>15 DEF WorkStop, WorkNapiDisabled, WorkFree, WorkAdjust,
       WorkDmaReset, WorkBase, MaySend
  <2>3. work' \in {"base", "start"} => work \in {"base", "start"}
    BY <1>15 DEF WorkStop, WorkNapiDisabled, WorkFree, WorkAdjust,
       WorkDmaReset, WorkBase
  <2> QED BY <2>1, <2>2, <2>3 DEF Room
<1>16. CASE WorkStart
  <2>1. Used' = Used
    BY <1>16, WindowSame DEF WorkStart
  <2> QED BY <1>16, <2>1 DEF WorkStart, Room
<1>17. CASE FlushFreedRing
  BY <1>17, RoomSameRing DEF FlushFreedRing, MaySend
<1>18. CASE UNCHANGED vars
  BY <1>18, RoomSameRing DEF vars, MaySend
<1> QED BY <1>1, <1>2, <1>3, <1>4, <1>5, <1>6, <1>7, <1>8, <1>9, <1>10, <1>11,
           <1>12, <1>13, <1>14, <1>15, <1>16, <1>17, <1>18 DEF Next, Xmit, Work

----------------------------------------------------------------------------
(* Packets are attached to the window, each one once.                       *)

(* A ring whose window is empty, with nothing attached and nothing held.    *)
LEMMA AttachedEmpty ==
    ASSUME Used' = 0, xmit'.pc = "idle", held' = {},
           \A s \in Slots : buf'[s] = NoSkb
    PROVE  Attached'
<1>1. Last' = -1
  BY DEF Last
<1>2. 0 .. Last' = {}
  BY <1>1
<1> QED BY <1>2 DEF Attached

LEMMA AttachedSame ==
    ASSUME Attached, UNCHANGED <<buf, curr, dirty, held>>,
           xmit' = xmit \/ (xmit.pc = "posted" /\ xmit'.pc = "idle"),
           Emptied' \/ ~rings' => Used = 0 /\ xmit'.pc = "idle"
    PROVE  Attached'
<1>1. Used' = Used /\ \A k : Off(k)' = Off(k)
  BY WindowSame
<1>2. Last' = Last
  BY <1>1 DEF Last
<1> QED BY <1>1, <1>2 DEF Attached

LEMMA AttachedInit == Init => Attached
<1> SUFFICES ASSUME Init PROVE Attached
  OBVIOUS
<1>1. Used = 0 /\ Last = -1
  BY SizeAssumption DEF Init, Used, Wrap, Last
<1>2. 0 .. Last = {}
  BY <1>1
<1> QED BY <1>1, <1>2 DEF Init, Attached

(* Where the window is empty and no transmit is under way, no packet is.    *)
LEMMA NothingAttached ==
    ASSUME Attached, Used = 0, xmit.pc # "filled"
    PROVE  held = {} /\ \A s \in Slots : buf[s] = NoSkb
<1>1. Last = -1
  BY DEF Last
<1>2. 0 .. Last = {}
  BY <1>1
<1> QED BY <1>2 DEF Attached

(* A reset that empties the window frees every packet.                      *)
LEMMA AttachedFreed ==
    ASSUME TypeOK, Attached, xmit.pc = "idle", xmit' = xmit, Used' = 0,
           buf' = [s \in Slots |-> IF s \in Window THEN NoSkb ELSE buf[s]],
           held' = held \ {buf[s] : s \in Window}
    PROVE  Attached'
<1>1. Last = Used - 1
  BY DEF Last
<1>2. \A s \in Slots : buf'[s] = NoSkb
  BY <1>1 DEF Attached, Window
<1>3. held' = {}
  BY <1>1 DEF Attached, Window
<1> QED BY <1>2, <1>3, AttachedEmpty

(* The reclaim of the first n descriptors takes their packets.              *)
LEMMA AttachedReclaim ==
    ASSUME TypeOK, Carried, Attached, NEW n \in 0 .. Used, Reclaim(n),
           xmit.pc = "idle", UNCHANGED <<curr, xmit>>,
           Emptied' \/ ~rings' => n = Used
    PROVE  Attached'
<1>1. n \in 0 .. Size /\ n \in Int /\ n >= 0 /\ n <= Used
      /\ Used \in Int /\ Size \in Int /\ Used <= Size
  BY WindowRange DEF Carried
<1>2. Used' = Used - n /\ \A k \in 0 .. Size : Off(k)' = Off(n + k)
  BY <1>1, WindowShrinks DEF Reclaim
<1>3. Last = Used - 1 /\ Last' = Used - n - 1
  BY <1>2 DEF Last
<1>4. \A k \in 0 .. Last' : n + k \in 0 .. Last /\ n + k \in n .. Size - 1
                            /\ k \in 0 .. Size /\ k \in Int
  BY <1>1, <1>3
<1>5. \A k \in 0 .. Last' : Off(k)' = Off(n + k) /\ buf'[Off(n + k)] = buf[Off(n + k)]
  BY <1>1, <1>2, <1>4, BeyondReclaimed DEF Reclaim
<1>6. \A k \in 0 .. Last : k \in 0 .. n - 1 \/ (k - n \in 0 .. Last' /\ n + (k - n) = k)
  BY <1>1, <1>3
<1>7. \A s \in Slots : buf'[s] # NoSkb => \E k \in 0 .. Last' : s = Off(k)'
  <2>1. SUFFICES ASSUME NEW s \in Slots, buf'[s] # NoSkb
                 PROVE  \E k \in 0 .. Last' : s = Off(k)'
    OBVIOUS
  <2>2. s \notin Reclaimed(n) /\ buf[s] # NoSkb
    BY <2>1 DEF Reclaim
  <2>3. PICK k \in 0 .. Last : s = Off(k)
    BY <2>2 DEF Attached
  <2>4. k \notin 0 .. n - 1
    BY <2>2, <2>3 DEF Reclaimed
  <2>5. k - n \in 0 .. Last' /\ n + (k - n) = k
    BY <1>6, <2>4
  <2> QED BY <1>5, <2>3, <2>5
<1>8. \A j, k \in 0 .. Last' : buf'[Off(j)'] = buf'[Off(k)'] => j = k
  <2>1. SUFFICES ASSUME NEW j \in 0 .. Last', NEW k \in 0 .. Last',
                        buf'[Off(j)'] = buf'[Off(k)']
                 PROVE  j = k
    OBVIOUS
  <2>2. buf[Off(n + j)] = buf[Off(n + k)]
    BY <1>5, <2>1
  <2>3. n + j = n + k
    BY <1>4, <2>2 DEF Attached
  <2> QED BY <1>1, <1>4, <2>3
<1>9. held' = {buf'[Off(k)'] : k \in 0 .. Last'}
  <2>1. held = {buf[Off(k)] : k \in 0 .. Last}
    BY DEF Attached
  <2>2. \A k \in 0 .. Last' : buf[Off(n + k)] \in held'
    <3>1. SUFFICES ASSUME NEW k \in 0 .. Last', NEW j \in 0 .. n - 1,
                          buf[Off(n + k)] = buf[Off(j)]
                   PROVE  FALSE
      BY <1>4, <2>1 DEF Reclaim, Reclaimed
    <3>2. j \in 0 .. Last /\ j < n /\ n + k >= n
      BY <1>1, <1>3, <1>4
    <3>3. n + k = j
      BY <1>4, <3>1, <3>2 DEF Attached
    <3> QED BY <3>2, <3>3
  <2>3. ASSUME NEW p \in held' PROVE \E k \in 0 .. Last' : p = buf'[Off(k)']
    <3>1. PICK k \in 0 .. Last : p = buf[Off(k)]
      BY <2>1, <2>3 DEF Reclaim
    <3>2. k \notin 0 .. n - 1
      BY <2>3, <3>1 DEF Reclaim, Reclaimed
    <3>3. k - n \in 0 .. Last' /\ n + (k - n) = k
      BY <1>6, <3>2
    <3> QED BY <1>5, <3>1, <3>3
  <2> QED BY <1>5, <2>2, <2>3
<1>10. Emptied' \/ ~rings' => Used' = 0 /\ xmit'.pc = "idle"
  BY <1>1, <1>2
<1> QED BY <1>7, <1>8, <1>9, <1>10 DEF Attached

LEMMA AttachedNext ==
    ASSUME HasFastReset, TypeOK, TypeOK', Carried, Room, Attached, InStep,
           ~overlap', [Next]_vars
    PROVE  Attached'
<1> USE DEF ringVars, hwVars, netVars, workVars, histVars
<1>1. ASSUME NEW skb \in Skb, NEW n \in Segments, XmitFill(skb, n)
      PROVE  Attached'
  <2>1. n = 1 /\ Slot(curr + n - 1) = Off(Used)
    BY OneFilled
  <2>2. Used \in Int /\ Size \in Int /\ Used >= 0 /\ Off(Used) \in Slots
    BY WindowRange, OffRange
  <2>3. Used < Size
    BY <1>1 DEF XmitFill, MayXmit, CpuFree, Room, MaySend
  <2>4. Used' = Used /\ \A k : Off(k)' = Off(k)
    BY <1>1, WindowSame DEF XmitFill
  <2>5. Last = Used - 1 /\ Last' = Used
    BY <1>1, <2>4 DEF XmitFill, MayXmit, CpuFree, Last
  <2>6. \A s \in Slots : buf'[s] = IF s = Off(Used) THEN skb ELSE buf[s]
    BY <1>1, <2>1, <2>2 DEF XmitFill, TypeOK
  <2>7. \A k \in 0 .. Last' : k = Used \/ (k \in 0 .. Last /\ Off(k) # Off(Used))
    <3>1. SUFFICES ASSUME NEW k \in 0 .. Used, k # Used PROVE Off(k) # Off(Used)
      BY <2>2, <2>5
    <3>2. k \in 0 .. Size - 1 /\ Used \in 0 .. Size - 1
      BY <2>2, <2>3
    <3> QED BY <3>1, <3>2, OffInjective
  <2>8. \A k \in 0 .. Last : k \in 0 .. Last' /\ Off(k) \in Slots
    BY <2>2, <2>5, OffRange
  <2>9. \A k \in 0 .. Last : k # Used
    BY <2>2, <2>5
  <2>10. \A k \in 0 .. Last : buf'[Off(k)] = buf[Off(k)]
    BY <2>6, <2>7, <2>8, <2>9
  <2>11. buf'[Off(Used)] = skb /\ Used \in 0 .. Last'
    BY <2>2, <2>5, <2>6
  <2>12. \A k \in 0 .. Last : buf[Off(k)] # skb
    BY <1>1 DEF XmitFill, Attached
  <2>13. \A s \in Slots : buf'[s] # NoSkb => \E k \in 0 .. Last' : s = Off(k)'
    BY <2>4, <2>6, <2>8, <2>11 DEF Attached
  <2>14. \A j, k \in 0 .. Last' : buf'[Off(j)'] = buf'[Off(k)'] => j = k
    BY <2>4, <2>7, <2>10, <2>11, <2>12 DEF Attached
  <2>15. held' = {buf'[Off(k)'] : k \in 0 .. Last'}
    <3>1. held' = {buf[Off(k)] : k \in 0 .. Last} \union {skb}
      BY <1>1 DEF XmitFill, Attached
    <3>2. \A p \in held' : \E k \in 0 .. Last' : p = buf'[Off(k)]
      BY <2>8, <2>10, <2>11, <3>1
    <3>3. \A k \in 0 .. Last' : buf'[Off(k)] \in held'
      BY <2>7, <2>10, <2>11, <3>1
    <3> QED BY <2>4, <3>2, <3>3
  <2>16. ~Emptied' /\ rings'
    BY <1>1 DEF XmitFill, Emptied, InStep
  <2> QED BY <2>13, <2>14, <2>15, <2>16 DEF Attached
<1>2. ASSUME NEW skb \in Skb, NEW n \in Segments, NEW f \in 0 .. n - 1,
             XmitDrop(skb, n, f)
      PROVE  Attached'
  BY <1>2, AttachedSame DEF XmitDrop, Attached, Emptied
<1>3. CASE XmitPost
  <2>1. Used < Size /\ Used \in Int /\ xmit.n = 1
    BY <1>3, WindowRange DEF XmitPost, Room, MaySend, Carried
  <2>2. Used' = Used + 1 /\ \A k : Off(k)' = Off(k)
    BY <1>3, <2>1, WindowGrows DEF XmitPost
  <2>3. Last = Used /\ Last' = Used
    BY <1>3, <2>1, <2>2 DEF XmitPost, Last
  <2>4. ~Emptied' /\ rings'
    BY <1>3 DEF XmitPost, Attached, Emptied
  <2> QED BY <1>3, <2>2, <2>3, <2>4 DEF XmitPost, Attached
<1>4. CASE XmitKick
  BY <1>4, AttachedSame DEF XmitKick, Attached, Emptied
<1>5. CASE XmitFreedRing
  BY <1>5, AttachedSame DEF XmitFreedRing, Attached, Emptied
<1>6. CASE EngineSend \/ EngineIdle
  BY <1>6, AttachedSame DEF EngineSend, EngineIdle, Attached, Emptied
<1>7. CASE Poll
  <2>1. PICK m \in 0 .. Used, n \in 0 .. Used : Reclaims(m, n) /\ Reclaim(n)
    BY <1>7 DEF Poll
  <2>2. Emptied' \/ ~rings' => Used = 0
    BY <1>7 DEF Poll, Emptied, Attached
  <2>3. Used = 0 => n = Used
    OBVIOUS
  <2> QED BY <1>7, <2>1, <2>2, <2>3, AttachedReclaim DEF Poll, CpuFree
<1>8. CASE LinkUp
  BY <1>8, AttachedFreed, WindowEmpties DEF LinkUp, FastReset, MayReport, CpuFree
<1>9. CASE LinkDown \/ LinkWatch \/ TxTimeout
  BY <1>9, AttachedSame DEF LinkDown, LinkWatch, TxTimeout, Attached, Emptied
<1>10. CASE WorkClean
  BY <1>10, AttachedFreed, WindowEmpties DEF WorkClean, CpuFree
<1>11. CASE WorkFlush
  <2>1. PICK n \in 0 .. Used : Reclaims(Used, n) /\ Reclaim(n)
    BY <1>11 DEF WorkFlush, Flush
  <2>2. n = Used
    BY <2>1, ReclaimsAll, WindowRange
  <2> QED BY <1>11, <2>1, <2>2, AttachedReclaim DEF WorkFlush, CpuFree
<1>12. CASE WorkZero
  <2>1. Used = 0 /\ xmit.pc = "idle"
    BY <1>12 DEF WorkZero, Attached, Emptied
  <2>2. held' = {} /\ \A s \in Slots : buf'[s] = NoSkb
    BY <1>12, <2>1, NothingAttached DEF WorkZero
  <2> QED BY <1>12, <2>1, <2>2, AttachedEmpty, WindowEmpties DEF WorkZero
<1>13. CASE WorkEnable \/ WorkEnableFails
  <2>1. Used = 0 /\ xmit.pc = "idle"
    BY <1>13 DEF WorkEnable, WorkEnableFails, Attached, Emptied
  <2>2. held' = {} /\ xmit' = xmit
    BY <1>13, <2>1, NothingAttached DEF WorkEnable, WorkEnableFails
  <2>3. CASE FreshRing
    BY <2>1, <2>2, <2>3, AttachedEmpty, WindowEmpties DEF FreshRing
  <2>4. CASE UNCHANGED <<ringVars, bql, rings>>
    BY <1>13, <2>1, <2>2, <2>4, AttachedSame DEF WorkEnable, WorkEnableFails
  <2> QED BY <1>13, <2>3, <2>4 DEF WorkEnable, WorkEnableFails
<1>14. CASE WorkStop \/ WorkNapiDisabled \/ WorkFree \/ WorkAdjust \/ WorkDmaReset
            \/ WorkBase \/ WorkStart \/ FlushFreedRing
  <2>1. UNCHANGED <<buf, curr, dirty, held, xmit>>
    BY <1>14 DEF WorkStop, WorkNapiDisabled, WorkFree, WorkAdjust, WorkDmaReset,
       WorkBase, WorkStart, FlushFreedRing
  <2>2. Emptied' \/ ~rings' => Emptied \/ ~rings
    BY <1>14 DEF WorkStop, WorkNapiDisabled, WorkFree, WorkAdjust, WorkDmaReset,
       WorkBase, WorkStart, FlushFreedRing, Emptied
  <2> QED BY <2>1, <2>2, AttachedSame DEF Attached
<1>15. CASE UNCHANGED vars
  BY <1>15, AttachedSame DEF vars, Attached, Emptied
<1> QED BY <1>1, <1>2, <1>3, <1>4, <1>5, <1>6, <1>7, <1>8, <1>9, <1>10, <1>11,
           <1>12, <1>13, <1>14, <1>15 DEF Next, Xmit, Work

----------------------------------------------------------------------------
(* What the engine owns, and where the engine is.                           *)

(* The walk stops where the descriptors that are done end.                  *)
LEMMA WalkedIsDone ==
    ASSUME TypeOK, NEW m \in 0 .. Used, DoneUpTo(m), NEW n \in 0 .. Used
    PROVE  Walked(n) <=> n = m
<1>0. Used \in Int /\ m \in Int /\ n \in Int /\ m <= Used /\ n <= Used
  BY WindowRange
<1>1. ASSUME Walked(n), n < m PROVE FALSE
  <2>1. n \in 0 .. Used - 1 /\ n < Used /\ ~(n >= m)
    BY <1>0, <1>1
  <2>2. own[Off(n)]
    BY <1>1, <2>1 DEF Walked
  <2> QED BY <2>1, <2>2 DEF DoneUpTo
<1>2. ASSUME Walked(n), m < n PROVE FALSE
  <2>1. m \in 0 .. n - 1 /\ m \in 0 .. Used - 1 /\ m >= m
    BY <1>0, <1>2
  <2>2. ~own[Off(m)]
    BY <1>2, <2>1 DEF Walked
  <2> QED BY <2>1, <2>2 DEF DoneUpTo
<1>3. ASSUME n = m PROVE Walked(n)
  <2>1. \A k \in 0 .. n - 1 : k \in 0 .. Used - 1 /\ ~(k >= m)
    BY <1>0, <1>3
  <2>2. n < Used => n \in 0 .. Used - 1 /\ n >= m
    BY <1>0, <1>3
  <2> QED BY <2>1, <2>2 DEF Walked, DoneUpTo
<1> QED BY <1>0, <1>1, <1>2, <1>3

LEMMA DoneSame ==
    ASSUME UNCHANGED <<own, curr, dirty>>
    PROVE  \A m : DoneUpTo(m)' = DoneUpTo(m)
BY WindowSame DEF DoneUpTo

LEMMA DoneEmpty == ASSUME Used' = 0 PROVE \A m : DoneUpTo(m)'
<1>1. 0 .. Used' - 1 = {}
  OBVIOUS
<1> QED BY <1>1 DEF DoneUpTo

LEMMA DonePost ==
    ASSUME TypeOK, Used < Size, NEW m \in 0 .. Used, DoneUpTo(m),
           own' = [own EXCEPT ![Slot(curr)] = TRUE],
           curr' = Plus(curr, 1), dirty' = dirty
    PROVE  DoneUpTo(m)'
<1>1. Used' = Used + 1 /\ \A k : Off(k)' = Off(k)
  BY WindowGrows
<1>2. Used \in Int /\ Size \in Int /\ Used >= 0 /\ m <= Used /\ Off(Used) \in Slots
  BY WindowRange, OffRange
<1>3. \A s \in Slots : own'[s] = IF s = Off(Used) THEN TRUE ELSE own[s]
  BY <1>2, SlotOfCurr DEF TypeOK
<1>4. \A k \in 0 .. Used' - 1 :
         k = Used \/ (k \in 0 .. Used - 1 /\ Off(k) # Off(Used) /\ Off(k) \in Slots)
  <2>1. SUFFICES ASSUME NEW k \in 0 .. Used, k # Used
                 PROVE  k \in 0 .. Used - 1 /\ Off(k) # Off(Used) /\ Off(k) \in Slots
    BY <1>1, <1>2
  <2>2. k \in 0 .. Size - 1 /\ Used \in 0 .. Size - 1 /\ k \in 0 .. Used - 1
    BY <1>2, <2>1
  <2> QED BY <2>1, <2>2, OffInjective, OffRange
<1>5. ASSUME NEW k \in 0 .. Used' - 1 PROVE own'[Off(k)'] <=> k >= m
  <2>1. CASE k = Used
    <3>1. own'[Off(k)'] = TRUE
      BY <1>1, <1>2, <1>3, <2>1
    <3>2. k >= m
      BY <1>2, <2>1
    <3> QED BY <3>1, <3>2
  <2>2. CASE k \in 0 .. Used - 1 /\ Off(k) # Off(Used) /\ Off(k) \in Slots
    <3>1. own'[Off(k)'] = own[Off(k)]
      BY <1>1, <1>3, <2>2
    <3> QED BY <2>2, <3>1 DEF DoneUpTo
  <2> QED BY <1>4, <2>1, <2>2
<1> QED BY <1>5 DEF DoneUpTo

LEMMA DoneSend ==
    ASSUME TypeOK, Used <= Size, NEW m \in 0 .. Used - 1, DoneUpTo(m),
           own' = [own EXCEPT ![Off(m)] = FALSE], UNCHANGED <<curr, dirty>>
    PROVE  DoneUpTo(m + 1)'
<1>1. Used' = Used /\ \A k : Off(k)' = Off(k)
  BY WindowSame
<1>2. Used \in Int /\ Size \in Int /\ Used >= 0 /\ m \in Int /\ m \in 0 .. Size - 1
      /\ Off(m) \in Slots
  BY WindowRange, OffRange
<1>3. \A s \in Slots : own'[s] = IF s = Off(m) THEN FALSE ELSE own[s]
  BY <1>2 DEF TypeOK
<1>5. ASSUME NEW k \in 0 .. Used' - 1 PROVE own'[Off(k)'] <=> k >= m + 1
  <2>0. k \in 0 .. Used - 1 /\ k \in 0 .. Size - 1 /\ k \in Int /\ Off(k) \in Slots
    BY <1>1, <1>2, OffRange
  <2>1. CASE k = m
    <3>1. own'[Off(k)'] = FALSE
      BY <1>1, <1>2, <1>3, <2>1
    <3>2. ~(k >= m + 1)
      BY <1>2, <2>1
    <3> QED BY <3>1, <3>2
  <2>2. CASE k # m
    <3>1. Off(k) # Off(m)
      BY <1>2, <2>0, <2>2, OffInjective
    <3>2. own'[Off(k)'] = own[Off(k)]
      BY <1>1, <1>3, <2>0, <3>1
    <3>3. k >= m <=> k >= m + 1
      BY <1>2, <2>0, <2>2
    <3> QED BY <2>0, <3>2, <3>3 DEF DoneUpTo
  <2> QED BY <2>1, <2>2
<1> QED BY <1>5 DEF DoneUpTo

LEMMA DoneReclaim ==
    ASSUME TypeOK, Used <= Size, NEW m \in 0 .. Used, NEW n \in 0 .. m, DoneUpTo(m),
           own' = own, curr' = curr, dirty' = Plus(dirty, n)
    PROVE  m - n \in 0 .. Used' /\ DoneUpTo(m - n)'
<1>1. Used \in Int /\ Size \in Int /\ m \in Int /\ n \in Int /\ n >= 0 /\ n <= m
      /\ m <= Used /\ n \in 0 .. Used /\ n <= Size
  BY WindowRange
<1>2. Used' = Used - n /\ \A k \in 0 .. Size : Off(k)' = Off(n + k)
  BY <1>1, WindowShrinks
<1>3. ASSUME NEW k \in 0 .. Used' - 1 PROVE own'[Off(k)'] <=> k >= m - n
  <2>1. k \in 0 .. Size /\ n + k \in 0 .. Used - 1 /\ (n + k >= m <=> k >= m - n)
    BY <1>1, <1>2
  <2>2. own'[Off(k)'] = own[Off(n + k)]
    BY <1>2, <2>1
  <2> QED BY <2>1, <2>2 DEF DoneUpTo
<1>4. m - n \in 0 .. Used'
  BY <1>1, <1>2
<1> QED BY <1>3, <1>4 DEF DoneUpTo

(* Where the window is empty the engine owns nothing.                       *)
LEMMA NothingOwned ==
    ASSUME Owned, rings, work # "free", Used = 0
    PROVE  \A s \in Slots : ~own[s]
<1>1. 0 .. Used - 1 = {}
  OBVIOUS
<1> QED BY <1>1 DEF Owned

(* The engine only sends the oldest descriptor that is not done.            *)
LEMMA EngineAtFirst ==
    ASSUME TypeOK, Carried, Attached, Owned, InStep, EngineSend
    PROVE  /\ work # "dma" /\ ~Parked
           /\ ps \in 0 .. Used - 1 /\ fetch = Off(ps) /\ DoneUpTo(ps)
<1>1. rings /\ fetch # StopDesc /\ own[fetch] /\ fetch \in Slots
  BY DEF EngineSend, TypeOK
<1>2. ~Parked
  BY <1>1 DEF InStep
<1>3. work # "free"
  BY <1>2 DEF Parked
<1>4. work # "dma"
  <2>1. SUFFICES ASSUME work = "dma" PROVE FALSE
    OBVIOUS
  <2>2. Used = 0
    BY <2>1 DEF Attached, Emptied
  <2> QED BY <1>1, <1>3, <2>2, NothingOwned
<1>5. ps \in 0 .. Used /\ fetch = Off(ps) /\ DoneUpTo(ps)
  BY <1>1, <1>4 DEF InStep
<1>6. PICK k \in 0 .. Used - 1 : fetch = Off(k)
  BY <1>1, <1>3 DEF Owned
<1>7. k >= ps
  BY <1>1, <1>5, <1>6 DEF DoneUpTo
<1>8. ps \in 0 .. Used - 1
  BY <1>5, <1>7, WindowRange
<1> QED BY <1>2, <1>4, <1>5, <1>8

LEMMA OwnedSame ==
    ASSUME Owned, UNCHANGED <<own, curr, dirty>>,
           rings' /\ work' # "free" => rings /\ work # "free"
    PROVE  Owned'
<1>1. Used' = Used /\ \A k : Off(k)' = Off(k)
  BY WindowSame
<1> QED BY <1>1, DoneSame DEF Owned

LEMMA OwnedEmpty ==
    ASSUME Used' = 0, \A s \in Slots : ~own'[s]
    PROVE  Owned'
<1>1. 0 \in 0 .. Used' /\ DoneUpTo(0)'
  BY DoneEmpty
<1> QED BY <1>1 DEF Owned

LEMMA OwnedReclaim ==
    ASSUME TypeOK, Carried, Owned, NEW n \in 0 .. Used, Walked(n), Reclaim(n),
           UNCHANGED <<own, curr, rings, work>>
    PROVE  Owned'
<1> SUFFICES ASSUME rings, work # "free"
             PROVE  /\ \A s \in Slots : own'[s] => \E k \in 0 .. Used' - 1 : s = Off(k)'
                    /\ \E m \in 0 .. Used' : DoneUpTo(m)'
  BY DEF Owned
<1>1. PICK m \in 0 .. Used : DoneUpTo(m)
  BY DEF Owned
<1>2. n = m
  BY <1>1, WalkedIsDone
<1>3. n \in 0 .. Size /\ n \in Int /\ n >= 0 /\ n <= Used /\ n <= Size
      /\ Used \in Int /\ Size \in Int /\ Used <= Size
  BY WindowRange DEF Carried
<1>4. Used' = Used - n /\ \A k \in 0 .. Size : Off(k)' = Off(n + k)
  BY <1>3, WindowShrinks DEF Reclaim
<1>5. ASSUME NEW s \in Slots, own'[s] PROVE \E k \in 0 .. Used' - 1 : s = Off(k)'
  <2>1. PICK j \in 0 .. Used - 1 : s = Off(j)
    BY <1>5 DEF Owned
  <2>2. j >= n
    BY <1>1, <1>2, <1>5, <2>1 DEF DoneUpTo
  <2>3. j - n \in 0 .. Used' - 1 /\ j - n \in 0 .. Size /\ n + (j - n) = j
    BY <1>3, <1>4, <2>2
  <2> QED BY <1>4, <2>1, <2>3
<1>6. m - n \in 0 .. Used' /\ DoneUpTo(m - n)'
  <2>1. n \in 0 .. m
    BY <1>2, <1>3
  <2> QED BY <1>1, <1>3, <2>1, DoneReclaim DEF Reclaim
<1> QED BY <1>5, <1>6

LEMMA OwnedInit == Init => Owned
<1> SUFFICES ASSUME Init PROVE Owned
  OBVIOUS
<1>1. Used = 0 /\ \A s \in Slots : ~own[s]
  BY SizeAssumption DEF Init, Used, Wrap
<1>2. 0 .. Used - 1 = {} /\ 0 \in 0 .. Used
  BY <1>1
<1>3. DoneUpTo(0)
  BY <1>2 DEF DoneUpTo
<1> QED BY <1>1, <1>2, <1>3 DEF Owned

LEMMA OwnedNext ==
    ASSUME HasFastReset, TypeOK, TypeOK', Carried, Room, Attached, Owned, InStep,
           ~overlap', [Next]_vars
    PROVE  Owned'
<1> USE DEF ringVars, hwVars, netVars, workVars, histVars
<1>1. ASSUME NEW skb \in Skb, NEW n \in Segments, XmitFill(skb, n)
      PROVE  Owned'
  <2>1. n = 1 /\ TailSlots(n) = {}
    BY OneFilled
  <2>2. own' = own
    BY <1>1, <2>1 DEF XmitFill, TypeOK
  <2> QED BY <1>1, <2>2, OwnedSame DEF XmitFill
<1>2. ASSUME NEW skb \in Skb, NEW n \in Segments, NEW f \in 0 .. n - 1,
             XmitDrop(skb, n, f)
      PROVE  Owned'
  <2>1. f = 0 /\ TailSlots(f) = {}
    BY OneFilled
  <2>2. own' = own
    BY <1>2, <2>1 DEF XmitDrop, TypeOK
  <2> QED BY <1>2, <2>2, OwnedSame DEF XmitDrop
<1>3. CASE XmitPost
  <2>1. Used < Size /\ Used \in Int /\ Used >= 0 /\ xmit.n = 1
    BY <1>3, WindowRange DEF XmitPost, Room, MaySend, Carried
  <2>2. Used' = Used + 1 /\ \A k : Off(k)' = Off(k)
    BY <1>3, <2>1, WindowGrows DEF XmitPost
  <2>3. SUFFICES ASSUME rings, work # "free"
                 PROVE  /\ \A s \in Slots : own'[s] => \E k \in 0 .. Used' - 1 : s = Off(k)'
                        /\ \E m \in 0 .. Used' : DoneUpTo(m)'
    BY <1>3 DEF XmitPost, Owned
  <2>4. \A s \in Slots : own'[s] => own[s] \/ s = Off(Used)
    BY <1>3, SlotOfCurr DEF XmitPost, TypeOK
  <2>5. Used \in 0 .. Used' - 1 /\ \A k \in 0 .. Used - 1 : k \in 0 .. Used' - 1
    BY <2>1, <2>2
  <2>6. \A s \in Slots : own'[s] => \E k \in 0 .. Used' - 1 : s = Off(k)'
    BY <2>2, <2>3, <2>4, <2>5 DEF Owned
  <2>7. PICK m \in 0 .. Used : DoneUpTo(m)
    BY <2>3 DEF Owned
  <2>8. m \in 0 .. Used' /\ DoneUpTo(m)'
    BY <1>3, <2>1, <2>2, <2>7, DonePost DEF XmitPost
  <2> QED BY <2>6, <2>8
<1>4. CASE XmitKick
  BY <1>4, OwnedSame DEF XmitKick
<1>5. CASE XmitFreedRing
  BY <1>5, OwnedSame DEF XmitFreedRing
<1>6. CASE EngineSend
  <2>1. work # "dma" /\ ~Parked /\ ps \in 0 .. Used - 1 /\ fetch = Off(ps) /\ DoneUpTo(ps)
    BY <1>6, EngineAtFirst
  <2>2. Used' = Used /\ \A k : Off(k)' = Off(k)
    BY <1>6, WindowSame DEF EngineSend
  <2>3. \A s \in Slots : own'[s] => own[s]
    BY <1>6 DEF EngineSend, TypeOK
  <2>4. PICK m \in 0 .. Used - 1 : m = ps
    BY <2>1
  <2>5. m + 1 \in 0 .. Used' /\ DoneUpTo(m + 1)'
    <3>1. m + 1 \in 0 .. Used'
      BY <2>2, <2>4, WindowRange
    <3> QED BY <1>6, <2>1, <2>4, <3>1, DoneSend DEF EngineSend, Carried
  <2> QED BY <1>6, <2>2, <2>3, <2>5 DEF Owned, EngineSend
<1>7. CASE EngineIdle
  BY <1>7, OwnedSame DEF EngineIdle
<1>8. CASE Poll
  <2>1. PICK m \in 0 .. Used, n \in 0 .. Used : Walked(m) /\ Reclaims(m, n) /\ Reclaim(n)
    BY <1>8 DEF Poll
  <2>2. n = m
    BY <2>1, ReclaimsAll
  <2> QED BY <1>8, <2>1, <2>2, OwnedReclaim DEF Poll
<1>9. CASE LinkUp
  <2>1. work # "free" /\ Used' = 0
    BY <1>9, WindowEmpties DEF LinkUp, FastReset, MayReport
  <2>2. rings => \A s \in Slots : ~own'[s]
    BY <1>9, <2>1 DEF LinkUp, FastReset, Owned, Window
  <2>3. CASE rings
    BY <2>1, <2>2, <2>3, OwnedEmpty
  <2>4. CASE ~rings
    BY <1>9, <2>4 DEF LinkUp, Owned
  <2> QED BY <2>3, <2>4
<1>10. CASE LinkDown \/ LinkWatch \/ TxTimeout
  BY <1>10, OwnedSame DEF LinkDown, LinkWatch, TxTimeout
<1>11. CASE WorkClean \/ WorkFree
  BY <1>11 DEF WorkClean, WorkFree, Owned
<1>12. CASE WorkFlush
  <2>1. PICK n \in 0 .. Used : Flush(n)
    BY <1>12 DEF WorkFlush
  <2>2. CASE rings
    <3>1. \A s \in Slots : ~own'[s]
      BY <1>12, <2>1, <2>2 DEF WorkFlush, Flush, Owned, Window
    <3>2. n = Used
      BY <2>1, ReclaimsAll, WindowRange DEF Flush
    <3>3. Used' = Used - n
      BY <1>12, <2>1, <3>2, WindowRange, WindowShrinks DEF WorkFlush, Flush, Reclaim, Carried
    <3>4. Used' = 0
      BY <3>2, <3>3, WindowRange
    <3> QED BY <3>1, <3>4, OwnedEmpty
  <2>3. CASE ~rings
    BY <1>12, <2>3 DEF WorkFlush, Owned
  <2> QED BY <2>2, <2>3
<1>13. CASE WorkZero
  <2>1. Used' = 0 /\ Used = 0
    BY <1>13, WindowEmpties DEF WorkZero, Attached, Emptied
  <2>2. rings => \A s \in Slots : ~own'[s]
    BY <1>13, <2>1, NothingOwned DEF WorkZero
  <2>3. CASE rings
    BY <2>1, <2>2, <2>3, OwnedEmpty
  <2>4. CASE ~rings
    BY <1>13, <2>4 DEF WorkZero, Owned
  <2> QED BY <2>3, <2>4
<1>14. CASE WorkEnable \/ WorkEnableFails
  <2>1. CASE FreshRing
    <3>1. Used' = 0 /\ \A s \in Slots : ~own'[s]
      BY <2>1, WindowEmpties DEF FreshRing
    <3> QED BY <3>1, OwnedEmpty
  <2>2. CASE UNCHANGED <<ringVars, bql, rings>>
    BY <1>14, <2>2, OwnedSame DEF WorkEnable, WorkEnableFails
  <2> QED BY <1>14, <2>1, <2>2 DEF WorkEnable, WorkEnableFails
<1>15. CASE WorkStop \/ WorkNapiDisabled \/ WorkAdjust \/ WorkDmaReset
            \/ WorkBase \/ WorkStart \/ FlushFreedRing
  BY <1>15, OwnedSame DEF WorkStop, WorkNapiDisabled, WorkAdjust, WorkDmaReset,
     WorkBase, WorkStart, FlushFreedRing
<1>16. CASE UNCHANGED vars
  BY <1>16, OwnedSame DEF vars
<1> QED BY <1>1, <1>2, <1>3, <1>4, <1>5, <1>6, <1>7, <1>8, <1>9, <1>10, <1>11,
           <1>12, <1>13, <1>14, <1>15, <1>16 DEF Next, Xmit, Work

LEMMA DoneAt ==
    ASSUME NEW m, ps' = m, DoneUpTo(m)' PROVE DoneUpTo(ps)'
BY DEF DoneUpTo

LEMMA InStepSame ==
    ASSUME InStep, UNCHANGED <<own, curr, dirty, fetch, ps, work, napi, rings>>
    PROVE  InStep'
<1>1. Used' = Used /\ \A k : Off(k)' = Off(k)
  BY WindowSame
<1>2. DoneUpTo(ps)' = DoneUpTo(ps)
  BY <1>1 DEF DoneUpTo
<1> QED BY <1>1, <1>2 DEF InStep, Parked

(* The engine starts again at the first descriptor of an empty ring.        *)
LEMMA InStepFresh ==
    ASSUME TypeOK', curr' = 0, dirty' = 0, fetch' = 0, ps' = 0, napi' => rings',
           work' \in {"idle", "adjust", "start"}
    PROVE  InStep'
<1>1. Used' = 0 /\ ps' \in 0 .. Used'
  BY WindowEmpties
<1>2. DoneUpTo(ps)'
  BY <1>1, DoneEmpty, DoneAt
<1>3. Off(0)' = 0
  BY SizeAssumption DEF Off, Slot
<1>4. fetch' = Off(ps)'
  BY <1>3 DEF Off, Slot
<1>5. fetch' # StopDesc
  BY ZeroRange, StopAssumption
<1> QED BY <1>1, <1>2, <1>4, <1>5 DEF InStep, Parked

LEMMA InStepInit == Init => InStep
<1> SUFFICES ASSUME Init PROVE InStep
  OBVIOUS
<1>1. Used = 0 /\ ps \in 0 .. Used /\ fetch = Off(ps)
  BY SizeAssumption DEF Init, Used, Wrap, Off, Slot
<1>2. 0 .. Used - 1 = {}
  BY <1>1
<1>3. DoneUpTo(ps)
  BY <1>2 DEF DoneUpTo
<1>4. fetch # StopDesc
  BY ZeroRange, StopAssumption DEF Init
<1> QED BY <1>1, <1>3, <1>4 DEF Init, InStep, Parked

LEMMA InStepPoll ==
    ASSUME HasFastReset, TypeOK, Carried, Attached, InStep, Poll
    PROVE  InStep'
<1>0. PICK n \in 0 .. Used : Walked(n) /\ Reclaim(n) /\ ps' = Acked(n)
  <2>1. PICK m \in 0 .. Used, n \in 0 .. Used :
           Walked(m) /\ Reclaims(m, n) /\ Reclaim(n) /\ ps' = Acked(n)
    BY DEF Poll
  <2>2. n = m
    BY <2>1, ReclaimsAll
  <2> QED BY <2>1, <2>2
<1>1. n \in 0 .. Size /\ n \in Int /\ n >= 0 /\ n <= Used /\ n <= Size
      /\ Used \in Int /\ Size \in Int /\ Used <= Size
  BY WindowRange DEF Carried
<1>2. UNCHANGED <<own, curr, fetch, work, napi, rings>>
  BY DEF Poll
<1>3. ps = 0 => ps' = 0
  BY <1>0, <1>1 DEF Acked
<1>4. Parked => fetch' = StopDesc /\ ps' = 0
  BY <1>2, <1>3 DEF InStep
<1>5. ASSUME work = "base" PROVE dirty' = 0
  <2>1. dirty = 0 /\ Used = 0
    BY <1>5 DEF InStep, Attached, Emptied
  <2>2. n = 0
    BY <1>0, <2>1
  <2> QED BY <1>0, <2>1, <2>2, SizeAssumption DEF Reclaim, Plus, Wrap
<1>6. ASSUME rings, fetch # StopDesc, work # "dma"
      PROVE  ps' \in 0 .. Used' /\ fetch' = Off(ps)' /\ DoneUpTo(ps)'
  <2>1. ps \in 0 .. Used /\ fetch = Off(ps) /\ DoneUpTo(ps)
    BY <1>6 DEF InStep
  <2>2. n = ps
    BY <1>0, <2>1, WalkedIsDone
  <2>3. ps' = 0
    BY <1>0, <1>1, <2>2 DEF Acked
  <2>4. n - n = 0 /\ n \in 0 .. n
    BY <1>1
  <2>5. 0 \in 0 .. Used' /\ DoneUpTo(0)'
    BY <1>0, <1>1, <1>2, <2>1, <2>2, <2>4, DoneReclaim DEF Reclaim
  <2>6. Off(0)' = Off(n + 0) /\ n + 0 = n
    BY <1>0, <1>1, <1>2, WindowShrinks DEF Reclaim
  <2>7. fetch' = Off(ps)'
    BY <1>2, <2>1, <2>2, <2>3, <2>6 DEF Off, Slot
  <2> QED BY <2>3, <2>5, <2>7, DoneAt
<1> QED BY <1>2, <1>4, <1>5, <1>6 DEF InStep, Parked

LEMMA InStepNext ==
    ASSUME HasFastReset, TypeOK, TypeOK', Carried, Room, Attached, Owned, InStep,
           ~overlap', [Next]_vars
    PROVE  InStep'
<1> USE DEF ringVars, hwVars, netVars, workVars, histVars
<1>1. ASSUME NEW skb \in Skb, NEW n \in Segments, XmitFill(skb, n)
      PROVE  InStep'
  <2>1. n = 1 /\ TailSlots(n) = {}
    BY OneFilled
  <2>2. own' = own
    BY <1>1, <2>1 DEF XmitFill, TypeOK
  <2> QED BY <1>1, <2>2, InStepSame DEF XmitFill
<1>2. ASSUME NEW skb \in Skb, NEW n \in Segments, NEW f \in 0 .. n - 1,
             XmitDrop(skb, n, f)
      PROVE  InStep'
  <2>1. f = 0 /\ TailSlots(f) = {}
    BY OneFilled
  <2>2. own' = own
    BY <1>2, <2>1 DEF XmitDrop, TypeOK
  <2> QED BY <1>2, <2>2, InStepSame DEF XmitDrop
<1>3. CASE XmitPost
  <2>1. Used < Size /\ Used \in Int /\ Used >= 0 /\ xmit.n = 1
    BY <1>3, WindowRange DEF XmitPost, Room, MaySend, Carried
  <2>2. Used' = Used + 1 /\ \A k : Off(k)' = Off(k)
    BY <1>3, <2>1, WindowGrows DEF XmitPost
  <2>3. UNCHANGED <<fetch, ps, work, napi, rings, dirty>>
    BY <1>3 DEF XmitPost
  <2>4. ASSUME rings, fetch # StopDesc, work # "dma"
        PROVE  ps' \in 0 .. Used' /\ fetch' = Off(ps)' /\ DoneUpTo(ps)'
    <3>1. PICK m \in 0 .. Used : m = ps /\ fetch = Off(m) /\ DoneUpTo(m)
      BY <2>4 DEF InStep
    <3>2. DoneUpTo(m)'
      BY <1>3, <2>1, <3>1, DonePost DEF XmitPost
    <3>3. DoneUpTo(ps)'
      BY <2>3, <3>1, <3>2, DoneAt
    <3>4. fetch' = Off(ps)'
      BY <2>3, <3>1 DEF Off, Slot
    <3> QED BY <2>1, <2>2, <2>3, <3>1, <3>3, <3>4
  <2> QED BY <2>3, <2>4 DEF InStep, Parked
<1>4. CASE XmitKick
  BY <1>4, InStepSame DEF XmitKick
<1>5. CASE XmitFreedRing
  BY <1>5, InStepSame DEF XmitFreedRing
<1>6. CASE EngineSend
  <2>1. work # "dma" /\ ~Parked /\ ps \in 0 .. Used - 1 /\ fetch = Off(ps) /\ DoneUpTo(ps)
    BY <1>6, EngineAtFirst
  <2>2. PICK m \in 0 .. Used - 1 : m = ps /\ fetch = Off(m) /\ DoneUpTo(m)
    BY <2>1
  <2>3. Used' = Used /\ \A k : Off(k)' = Off(k)
    BY <1>6, WindowSame DEF EngineSend
  <2>4. m \in 0 .. Size /\ m + 1 \in 0 .. Used' /\ ps < Wrap
    BY <2>2, <2>3, WindowRange DEF Carried
  <2>5. ps' = m + 1 /\ UNCHANGED <<curr, dirty, work, napi, rings>>
    BY <1>6, <2>2, <2>4 DEF EngineSend
  <2>6. fetch' = Off(m + 1)
    BY <1>6, <2>2, <2>4, OffNext DEF EngineSend
  <2>7. DoneUpTo(m + 1)'
    BY <1>6, <2>2, DoneSend DEF EngineSend, Carried
  <2>8. DoneUpTo(ps)'
    BY <2>5, <2>7, DoneAt
  <2>9. fetch' = Off(ps)'
    BY <2>5, <2>6 DEF Off, Slot
  <2>10. fetch' # StopDesc
    <3>1. fetch' \in Slots
      BY <2>4, <2>6, OffRange
    <3> QED BY <3>1, StopAssumption
  <2> QED BY <2>1, <2>4, <2>5, <2>8, <2>9, <2>10 DEF InStep, Parked
<1>7. CASE EngineIdle
  BY <1>7, InStepSame DEF EngineIdle
<1>8. CASE Poll
  BY <1>8, InStepPoll
<1>9. CASE LinkUp
  <2>1. work = "idle" /\ UNCHANGED <<work, napi, rings>>
    BY <1>9 DEF LinkUp
  <2> QED BY <1>9, <2>1, InStepFresh DEF LinkUp, FastReset, InStep
<1>10. CASE LinkDown \/ LinkWatch \/ TxTimeout
  BY <1>10, InStepSame DEF LinkDown, LinkWatch, TxTimeout
<1>11. CASE WorkStop \/ WorkNapiDisabled \/ WorkClean \/ WorkFree
  BY <1>11 DEF WorkStop, WorkNapiDisabled, WorkClean, WorkFree, InStep, Parked
<1>12. CASE WorkEnable
  BY <1>12, InStepFresh DEF WorkEnable, FreshRing, InStep, Parked
<1>13. CASE WorkEnableFails
  <2>1. fetch = StopDesc /\ ~napi
    BY <1>13 DEF WorkEnableFails, InStep, Parked
  <2> QED BY <1>13, <2>1 DEF WorkEnableFails, InStep, Parked
<1>14. CASE WorkAdjust \/ WorkStart
  <2>1. Used' = Used /\ \A k : Off(k)' = Off(k)
    BY <1>14, WindowSame DEF WorkAdjust, WorkStart
  <2>2. DoneUpTo(ps)' = DoneUpTo(ps)
    BY <1>14, <2>1 DEF DoneUpTo, WorkAdjust, WorkStart
  <2>3. UNCHANGED <<fetch, ps, napi, rings, dirty>> /\ work' \in {"idle", "flush", "start"}
        /\ work \in {"adjust", "start"}
    BY <1>14 DEF WorkAdjust, WorkStart
  <2> QED BY <2>1, <2>2, <2>3 DEF InStep, Parked
<1>15. CASE WorkFlush \/ WorkDmaReset \/ WorkZero
  BY <1>15, StopAssumption DEF WorkFlush, WorkDmaReset, WorkZero, InStep, Parked
<1>16. CASE WorkBase
  <2>1. dirty = 0 /\ ps = 0 /\ Used = 0
    BY <1>16 DEF WorkBase, InStep, Parked, Attached, Emptied
  <2>2. curr = 0
    BY <2>1, SizeAssumption DEF TypeOK, Used, Wrap
  <2> QED BY <1>16, <2>1, <2>2, InStepFresh DEF WorkBase, InStep
<1>17. CASE FlushFreedRing
  BY <1>17, InStepSame DEF FlushFreedRing
<1>18. CASE UNCHANGED vars
  BY <1>18, InStepSame DEF vars
<1> QED BY <1>1, <1>2, <1>3, <1>4, <1>5, <1>6, <1>7, <1>8, <1>9, <1>10, <1>11,
           <1>12, <1>13, <1>14, <1>15, <1>16, <1>17, <1>18 DEF Next, Xmit, Work

----------------------------------------------------------------------------
(* Neither the queue nor the engine waits for nothing.                      *)

LEMMA WokenSame ==
    ASSUME Woken, Used' = Used, xmit' = xmit, stopped' => stopped, txe' = txe,
           \A s \in Slots : own'[s] => own[s],
           link' => link, napi' /\ ~Stopping' => napi /\ ~Stopping
    PROVE  Woken'
BY DEF Woken

LEMMA WokenEmpty ==
    ASSUME Used' = 0, ~stopped' \/ ~napi' \/ Stopping', xmit'.pc # "posted"
    PROVE  Woken'
BY DEF Woken

LEMMA WokenNext ==
    ASSUME HasFastReset, Size > 1, TypeOK, TypeOK', Carried, Room, Attached, Owned,
           InStep, Woken, ~overlap', [Next]_vars
    PROVE  Woken'
<1> USE DEF ringVars, hwVars, netVars, workVars, histVars
<1>1. ASSUME NEW skb \in Skb, NEW n \in Segments, XmitFill(skb, n)
      PROVE  Woken'
  BY <1>1 DEF XmitFill, Woken
<1>2. ASSUME NEW skb \in Skb, NEW n \in Segments, NEW f \in 0 .. n - 1,
             XmitDrop(skb, n, f)
      PROVE  Woken'
  <2>1. f = 0 /\ TailSlots(f) = {}
    BY OneFilled
  <2>2. own' = own
    BY <1>2, <2>1 DEF XmitDrop, TypeOK
  <2>3. Used' = Used
    BY <1>2, WindowSame DEF XmitDrop
  <2> QED BY <1>2, <2>2, <2>3, WokenSame DEF XmitDrop, Stopping
<1>3. CASE XmitPost
  <2>1. Used < Size /\ Used \in Int /\ Used >= 0 /\ xmit.n = 1
    BY <1>3, WindowRange DEF XmitPost, Room, MaySend, Carried
  <2>2. Used' = Used + 1
    BY <1>3, <2>1, WindowGrows DEF XmitPost
  <2> QED BY <1>3, <2>1, <2>2 DEF XmitPost, Woken
<1>4. CASE XmitKick
  <2>1. Used' = Used /\ Used > 0
    BY <1>4, WindowSame DEF XmitKick, Woken
  <2> QED BY <1>4, <2>1 DEF XmitKick, Woken
<1>5. CASE XmitFreedRing
  BY <1>5, WindowSame, WokenSame DEF XmitFreedRing, Stopping
<1>6. CASE EngineSend
  <2>1. \A s \in Slots : own'[s] => own[s]
    BY <1>6 DEF EngineSend, TypeOK
  <2> QED BY <1>6, <2>1, WindowSame, WokenSame DEF EngineSend, Stopping
<1>7. CASE EngineIdle
  <2>1. ASSUME napi, ~Stopping, Used > 0, NEW s \in Slots, own[s] PROVE FALSE
    <3>1. rings /\ work \notin {"free", "dma"} /\ ~Parked
      BY <2>1 DEF InStep, Stopping, Attached, Emptied, Parked
    <3>2. fetch # StopDesc /\ ps \in 0 .. Used /\ fetch = Off(ps) /\ DoneUpTo(ps)
      BY <2>1, <3>1 DEF InStep
    <3>3. ~own[Off(ps)]
      BY <1>7, <3>2 DEF EngineIdle
    <3>4. PICK k \in 0 .. Used - 1 : s = Off(k)
      BY <2>1, <3>1 DEF Owned
    <3>5. k >= ps
      BY <2>1, <3>2, <3>4 DEF DoneUpTo
    <3>6. ps \in 0 .. Used - 1 /\ ps >= ps
      BY <3>2, <3>4, <3>5, WindowRange
    <3> QED BY <3>2, <3>3, <3>6 DEF DoneUpTo
  <2>2. Used' = Used
    BY <1>7, WindowSame DEF EngineIdle
  <2> QED BY <1>7, <2>1, <2>2 DEF EngineIdle, Woken, Stopping
<1>8. CASE Poll
  <2>1. PICK n \in 0 .. Used : Reclaim(n)
    BY <1>8 DEF Poll
  <2>2. n \in 0 .. Size /\ n \in Int /\ n >= 0 /\ n <= Used /\ n <= Size
        /\ Used \in Int /\ Size \in Int /\ Used <= Size
    BY <2>1, WindowRange DEF Carried
  <2>3. Used' = Used - n
    BY <1>8, <2>1, <2>2, WindowShrinks DEF Poll, Reclaim
  <2>4. WakeBelow \in Int /\ WakeBelow >= 1
    BY SizeAssumption DEF WakeBelow
  <2>5. ASSUME napi', ~Stopping', stopped' PROVE Used' > 0
    <3>1. stopped /\ ~(n > 0 /\ Used - n < WakeBelow)
      BY <2>1, <2>5 DEF Reclaim
    <3>2. Used > 0
      BY <1>8, <2>5, <3>1 DEF Poll, CpuFree, Woken, Stopping
    <3> QED BY <2>2, <2>3, <2>4, <3>1, <3>2
  <2>6. Used' > 0 => Used > 0
    BY <2>2, <2>3
  <2>7. UNCHANGED <<own, txe, link, napi, work, xmit>> /\ xmit.pc = "idle"
    BY <1>8 DEF Poll, CpuFree
  <2> QED BY <2>5, <2>6, <2>7 DEF Woken, Stopping
<1>9. CASE LinkUp
  BY <1>9, WindowEmpties, WokenEmpty DEF LinkUp, FastReset, MayReport, CpuFree
<1>10. CASE LinkDown
  BY <1>10, WindowSame DEF LinkDown, Woken, Stopping
<1>11. CASE LinkWatch \/ TxTimeout
  BY <1>11, WindowSame, WokenSame DEF LinkWatch, TxTimeout, Stopping
<1>12. CASE WorkStop \/ WorkNapiDisabled \/ WorkClean \/ WorkFree
  <2>1. Stopping' /\ xmit'.pc # "posted"
    BY <1>12 DEF WorkStop, WorkNapiDisabled, WorkClean, WorkFree, Stopping, CpuFree
  <2> QED BY <2>1 DEF Woken
<1>13. CASE WorkEnable
  BY <1>13, WindowEmpties, WokenEmpty DEF WorkEnable, FreshRing, CpuFree
<1>14. CASE WorkEnableFails
  <2>1. ~napi' /\ xmit'.pc # "posted"
    BY <1>14 DEF WorkEnableFails, InStep, CpuFree
  <2> QED BY <2>1 DEF Woken
<1>15. CASE WorkAdjust \/ WorkStart \/ WorkBase
  <2>1. Used' = Used /\ UNCHANGED <<own, txe, link, napi, xmit>> /\ (stopped' => stopped)
        /\ ~Stopping
    BY <1>15, WindowSame DEF WorkAdjust, WorkStart, WorkBase, Stopping
  <2> QED BY <2>1, WokenSame
<1>16. CASE WorkFlush
  <2>1. PICK n \in 0 .. Used : Reclaims(Used, n) /\ Reclaim(n)
    BY <1>16 DEF WorkFlush, Flush
  <2>2. n = Used /\ Used \in Int /\ Used >= 0 /\ Used <= Size
    BY <2>1, ReclaimsAll, WindowRange DEF Carried
  <2>3. Used' = Used - n
    BY <1>16, <2>1, <2>2, WindowShrinks DEF WorkFlush, Reclaim
  <2>4. Used' = 0
    BY <2>2, <2>3
  <2>5. WakeBelow \in Int /\ 0 < WakeBelow
    BY SizeAssumption DEF WakeBelow
  <2>6. ASSUME napi, stopped PROVE ~stopped'
    <3>1. Used > 0
      BY <1>16, <2>6 DEF WorkFlush, CpuFree, Woken, Stopping
    <3>2. n > 0 /\ Used - n < WakeBelow
      BY <2>2, <2>5, <3>1
    <3> QED BY <2>1, <3>2 DEF Reclaim
  <2>7. ~stopped' \/ ~napi'
    BY <1>16, <2>1, <2>6 DEF WorkFlush, Reclaim
  <2> QED BY <1>16, <2>4, <2>7, WokenEmpty DEF WorkFlush, CpuFree
<1>17. CASE WorkDmaReset \/ WorkZero
  <2>1. Used = 0 /\ work \in {"dma", "zero"} /\ xmit.pc = "idle"
    BY <1>17 DEF WorkDmaReset, WorkZero, Attached, Emptied
  <2>2. Used' = 0
    BY <1>17, <2>1, WindowSame, WindowEmpties DEF WorkDmaReset, WorkZero
  <2>3. ~stopped \/ ~napi
    BY <2>1 DEF Woken, Stopping
  <2> QED BY <1>17, <2>1, <2>2, <2>3, WokenEmpty DEF WorkDmaReset, WorkZero
<1>18. CASE FlushFreedRing
  BY <1>18, WindowSame, WokenSame DEF FlushFreedRing, Stopping
<1>19. CASE UNCHANGED vars
  BY <1>19, WindowSame, WokenSame DEF vars, Stopping
<1> QED BY <1>1, <1>2, <1>3, <1>4, <1>5, <1>6, <1>7, <1>8, <1>9, <1>10, <1>11,
           <1>12, <1>13, <1>14, <1>15, <1>16, <1>17, <1>18, <1>19 DEF Next, Xmit, Work

----------------------------------------------------------------------------
(* The invariant holds.                                                     *)

LEMMA WindowInit ==
    ASSUME Size > 1, Init PROVE WindowInv
<1>1. Used = 0
  BY SizeAssumption DEF Init, Used, Wrap
<1>2. Woken
  BY <1>1 DEF Init, Woken
<1>3. Carried /\ Room
  BY CarriedInit, RoomInit
<1>4. Attached /\ Owned /\ InStep
  BY AttachedInit, OwnedInit, InStepInit
<1> QED BY <1>2, <1>3, <1>4 DEF WindowInv, Undisturbed

(* A transmit or a link report that cut into a reset is not forgotten.      *)
LEMMA OverlapKept == ASSUME [Next]_vars, ~overlap' PROVE ~overlap
BY DEF Next, Xmit, XmitFill, XmitDrop, XmitPost, XmitKick, XmitFreedRing, EngineSend,
   EngineIdle, Poll, LinkUp, LinkDown, LinkWatch, TxTimeout, Work, WorkStop,
   WorkNapiDisabled, WorkClean, WorkFree, WorkEnable, WorkEnableFails, WorkAdjust,
   WorkFlush, WorkDmaReset, WorkZero, WorkBase, WorkStart, FlushFreedRing, histVars,
   vars

LEMMA WindowNext ==
    ASSUME HasFastReset, Size > 1, TypeOK, TypeOK', WindowInv, [Next]_vars
    PROVE  WindowInv'
<1>1. Carried' /\ Room'
  BY CarriedNext, RoomNext DEF WindowInv
<1>2. ASSUME ~overlap' PROVE Undisturbed'
  <2>1. Carried /\ Room /\ Attached /\ Owned /\ InStep /\ Woken
    BY <1>2, OverlapKept DEF WindowInv, Undisturbed
  <2>2. Attached'
    BY <1>2, <2>1, AttachedNext
  <2>3. Owned'
    BY <1>2, <2>1, OwnedNext
  <2>4. InStep'
    BY <1>2, <2>1, InStepNext
  <2>5. Woken'
    BY <1>2, <2>1, WokenNext
  <2> QED BY <2>2, <2>3, <2>4, <2>5 DEF Undisturbed
<1> QED BY <1>1, <1>2 DEF WindowInv

(* On the ar724x the window invariant holds in every state, for every ring  *)
(* of at least two descriptors and whatever order transmits, polls, link    *)
(* reports, restarts and failing allocations come in: each descriptor       *)
(* between dirty and curr carries a packet and is counted, and unless a     *)
(* transmit or a link report cut into an unlocked reset the packets held    *)
(* are those attached, the engine is where they begin, and nothing waits    *)
(* for a completion that cannot come.                                       *)
THEOREM WindowHolds == HasFastReset /\ Size > 1 => (Spec => []WindowInv)
<1> SUFFICES ASSUME HasFastReset, Size > 1 PROVE Spec => []WindowInv
  OBVIOUS
<1>1. Init => TypeOK /\ WindowInv
  BY TypeInit, WindowInit
<1>2. (TypeOK /\ WindowInv) /\ [Next]_vars => (TypeOK /\ WindowInv)'
  BY TypeNext, WindowNext
<1> QED BY <1>1, <1>2, PTL DEF Spec

----------------------------------------------------------------------------
(* What follows from it.                                                    *)

(* The engine only attempts descriptors a completed transmit handed over.   *)
LEMMA WindowEarly == ASSUME TypeOK, WindowInv PROVE NoEarlyAttempt
<1> SUFFICES ASSUME ~overlap, rings, fetch # StopDesc, own[fetch]
             PROVE  fetch \in Window
  BY DEF NoEarlyAttempt
<1>1. work # "free" /\ fetch \in Slots
  BY DEF WindowInv, Undisturbed, InStep, Parked, TypeOK
<1> QED BY <1>1 DEF WindowInv, Undisturbed, Owned, Window

(* The window with the descriptor being filled.                             *)
LEMMA WindowWithFilling ==
    ASSUME HasFastReset, TypeOK, Carried, Room
    PROVE  /\ Window \union Filling = {Off(k) : k \in 0 .. Last}
           /\ Window \union Filling = Reclaimed(Last + 1)
           /\ Last + 1 \in 0 .. Size
           /\ Last + 1 = Used + (IF xmit.pc = "filled" THEN 1 ELSE 0)
           /\ \A k \in 0 .. Last : buf[Off(k)] # NoSkb
<1>1. Used \in Int /\ Used >= 0 /\ Size \in Int /\ Used <= Size
  BY WindowRange DEF Carried
<1>2. Reclaimed(Last + 1) = {Off(k) : k \in 0 .. Last}
  <2>1. Last \in Int
    BY <1>1 DEF Last
  <2>2. \A n \in Int : Reclaimed(n + 1) = {Off(k) : k \in 0 .. n}
    <3>1. \A n \in Int : 0 .. (n + 1) - 1 = 0 .. n
      OBVIOUS
    <3> QED BY <3>1 DEF Reclaimed
  <2> QED BY <2>1, <2>2
<1>3. CASE xmit.pc = "filled"
  <2>1. Last = Used /\ Used < Size /\ Filling = {Off(Used)}
    BY <1>3, OneFilled DEF Last, Room, MaySend, Carried, Filling
  <2>2. \A k \in 0 .. Last : k \in 0 .. Used - 1 \/ k = Used
    BY <1>1, <2>1
  <2>3. Used \in 0 .. Last /\ \A k \in 0 .. Used - 1 : k \in 0 .. Last
    BY <1>1, <2>1
  <2>4. Window \union Filling = {Off(k) : k \in 0 .. Last}
    BY <2>1, <2>2, <2>3 DEF Window
  <2>5. \A k \in 0 .. Last : buf[Off(k)] # NoSkb
    BY <1>3, <2>2 DEF Carried
  <2>6. Last + 1 \in 0 .. Size /\ Last + 1 = Used + 1
    BY <1>1, <2>1
  <2> QED BY <1>2, <1>3, <2>4, <2>5, <2>6
<1>4. CASE xmit.pc # "filled"
  <2>1. Last = Used - 1 /\ Filling = {}
    BY <1>4 DEF Last, Filling
  <2>2. Window \union Filling = {Off(k) : k \in 0 .. Last}
    BY <2>1 DEF Window
  <2>3. \A k \in 0 .. Last : buf[Off(k)] # NoSkb
    BY <2>1 DEF Carried
  <2>4. Last + 1 \in 0 .. Size /\ Last + 1 = Used + 0
    BY <1>1, <2>1
  <2> QED BY <1>2, <1>4, <2>2, <2>3, <2>4
<1> QED BY <1>3, <1>4

LEMMA WindowLost == ASSUME TypeOK, WindowInv PROVE NoPacketLost
<1> SUFFICES ASSUME HasFastReset, ~overlap
             PROVE  /\ held = {buf[s] : s \in Window \union Filling} \ {NoSkb}
                    /\ \A s \in Slots : buf[s] # NoSkb => s \in Window \union Filling
  BY DEF NoPacketLost
<1>1. Window \union Filling = {Off(k) : k \in 0 .. Last}
  BY WindowWithFilling DEF WindowInv
<1>2. held = {buf[Off(k)] : k \in 0 .. Last} /\ NoSkb \notin held
  BY SkbAssumption DEF WindowInv, Undisturbed, Attached, TypeOK
<1>3. {buf[s] : s \in Window \union Filling} = {buf[Off(k)] : k \in 0 .. Last}
  BY <1>1
<1>4. \A s \in Slots : buf[s] # NoSkb => s \in Window \union Filling
  BY <1>1 DEF WindowInv, Undisturbed, Attached
<1> QED BY <1>2, <1>3, <1>4

LEMMA WindowCounts == ASSUME TypeOK, WindowInv PROVE CountsMatchRing
<1>1. BqlMatchesRing
  <2>1. SUFFICES ASSUME HasFastReset, rings
                 PROVE  bql = Cardinality({s \in Window \union Filling : buf[s] # NoSkb})
    BY DEF BqlMatchesRing
  <2>2. Carried /\ Room
    BY DEF WindowInv
  <2>3. {s \in Window \union Filling : buf[s] # NoSkb} = Reclaimed(Last + 1)
    BY <2>1, <2>2, WindowWithFilling
  <2>4. Cardinality(Reclaimed(Last + 1)) = Last + 1
    BY <2>1, <2>2, WindowWithFilling, SlotsCounted
  <2>5. bql = Last + 1
    BY <2>1, <2>2, WindowWithFilling DEF Carried
  <2> QED BY <2>3, <2>4, <2>5
<1>2. CounterMatchesRing
  <2>1. SUFFICES ASSUME ~overlap, Quiet, napi, NEW m \in 0 .. Used, Walked(m)
                 PROVE  ps = m
    BY DEF CounterMatchesRing
  <2>2. ps \in 0 .. Used /\ DoneUpTo(ps)
    BY <2>1 DEF WindowInv, Undisturbed, InStep, Parked, Quiet
  <2> QED BY <2>1, <2>2, WalkedIsDone
<1> QED BY <1>1, <1>2 DEF CountsMatchRing

LEMMA WindowOnTheWay == ASSUME TypeOK, WindowInv PROVE EngineOnTheWay
<1>1. ASSUME ~overlap, Quiet, napi
      PROVE  /\ rings /\ work # "free" /\ xmit.pc = "idle" /\ ~Stopping
             /\ ps \in 0 .. Used /\ fetch = Off(ps) /\ DoneUpTo(ps)
  BY <1>1 DEF WindowInv, Undisturbed, InStep, Parked, Quiet, CpuFree, Stopping
<1>2. EngineInStep
  <2>1. SUFFICES ASSUME ~overlap, Quiet, napi
                 PROVE  /\ \A m \in 0 .. Used : Walked(m) => fetch = Off(m)
                        /\ \A s \in Slots : own[s] => s \in Window
    BY DEF EngineInStep
  <2>2. \A m \in 0 .. Used : Walked(m) => m = ps
    BY <1>1, <2>1, WalkedIsDone
  <2>3. \A s \in Slots : own[s] => s \in Window
    BY <1>1, <2>1 DEF WindowInv, Undisturbed, Owned, Window
  <2> QED BY <1>1, <2>1, <2>2, <2>3
<1>3. NoForgottenKick
  <2>1. SUFFICES ASSUME ~overlap, Quiet, napi, link, NEW s \in Slots, own[s]
                 PROVE  txe
    BY DEF NoForgottenKick
  <2>2. PICK k \in 0 .. Used - 1 : s = Off(k)
    BY <1>1, <2>1 DEF WindowInv, Undisturbed, Owned
  <2>3. Used > 0
    BY <2>2, WindowRange
  <2> QED BY <1>1, <2>1, <2>3 DEF WindowInv, Undisturbed, Woken
<1> QED BY <1>2, <1>3 DEF EngineOnTheWay

LEMMA WindowRoom == ASSUME TypeOK, WindowInv PROVE QueueHasRoom
<1>1. StoppedHasCause
  BY DEF StoppedHasCause, WindowInv, Undisturbed, Woken, Quiet, CpuFree, Stopping
<1>2. OpenHasRoom
  <2>1. SUFFICES ASSUME CpuFree, ~stopped PROVE Used + 1 <= Size
    BY DEF OpenHasRoom
  <2>2. Used < Size
    BY <2>1 DEF CpuFree, WindowInv, Room, MaySend
  <2> QED BY <2>2, WindowRange
<1> QED BY <1>1, <1>2 DEF QueueHasRoom

(* "prevent early tx attempt of this descriptor": what the running engine   *)
(* is about to send was handed over by a transmit that has moved curr.      *)
THEOREM NeverAttemptsEarly ==
    HasFastReset /\ Size > 1 => (Spec => []NoEarlyAttempt)
<1> SUFFICES ASSUME HasFastReset, Size > 1 PROVE Spec => []NoEarlyAttempt
  OBVIOUS
<1> QED BY WindowHolds, TypeCorrect, WindowEarly, PTL

(* No packet leaks and none is freed twice: what was accepted and not freed *)
(* is what is attached between dirty and curr, transmit under way included. *)
THEOREM NothingIsLost ==
    HasFastReset /\ Size > 1 => (Spec => []NoPacketLost)
<1> SUFFICES ASSUME HasFastReset, Size > 1 PROVE Spec => []NoPacketLost
  OBVIOUS
<1> QED BY WindowHolds, TypeCorrect, WindowLost, PTL

(* The byte queue limits and the packet-sent counter agree with the ring at *)
(* all times, so that the BUG_ON of netdev_completed_queue never fires and  *)
(* no completion goes unnoticed.                                            *)
THEOREM CountsAlwaysMatch ==
    HasFastReset /\ Size > 1 => (Spec => []CountsMatchRing)
<1> SUFFICES ASSUME HasFastReset, Size > 1 PROVE Spec => []CountsMatchRing
  OBVIOUS
<1> QED BY WindowHolds, TypeCorrect, WindowCounts, PTL

(* After any order of transmits, polls and resets the engine is at the      *)
(* first packet it has to send, and runs if it has one and the link is up.  *)
THEOREM EngineIsOnTheWay ==
    HasFastReset /\ Size > 1 => (Spec => []EngineOnTheWay)
<1> SUFFICES ASSUME HasFastReset, Size > 1 PROVE Spec => []EngineOnTheWay
  OBVIOUS
<1> QED BY WindowHolds, TypeCorrect, WindowOnTheWay, PTL

(* An open queue has room for a packet, and a stopped one has a packet in   *)
(* the ring that will wake it, whatever the thresholds come to for the size *)
(* of the ring.                                                             *)
THEOREM QueueAlwaysHasRoom ==
    HasFastReset /\ Size > 1 => (Spec => []QueueHasRoom)
<1> SUFFICES ASSUME HasFastReset, Size > 1 PROVE Spec => []QueueHasRoom
  OBVIOUS
<1> QED BY WindowHolds, TypeCorrect, WindowRoom, PTL

----------------------------------------------------------------------------
(* The ring implements TxFifo.                                              *)

LEMMA DonePrefixIs ==
    \A m : TypeOK /\ m \in 0 .. Used /\ DoneUpTo(m) => DonePrefix = m
<1> SUFFICES ASSUME TypeOK, NEW m \in 0 .. Used, DoneUpTo(m) PROVE DonePrefix = m
  OBVIOUS
<1>1. Walked(m) /\ \A n \in 0 .. Used : Walked(n) => n = m
  BY WalkedIsDone
<1> QED BY <1>1 DEF DonePrefix

LEMMA DonePrefixIsNext ==
    \A m : TypeOK' /\ m \in 0 .. Used' /\ DoneUpTo(m)' => DonePrefix' = m
<1>1. (\A m : TypeOK /\ m \in 0 .. Used /\ DoneUpTo(m) => DonePrefix = m)'
  BY DonePrefixIs, PTL
<1> QED BY <1>1

(* Unless a reset was cut into, some prefix of the window is done.          *)
LEMMA SomeDone ==
    ASSUME TypeOK, Attached, Owned
    PROVE  \E m \in 0 .. Used : DoneUpTo(m)
<1>1. CASE rings /\ work # "free"
  BY <1>1 DEF Owned
<1>2. CASE ~(rings /\ work # "free")
  <2>1. Used = 0
    BY <1>2 DEF Attached, Emptied
  <2>2. 0 .. Used - 1 = {} /\ 0 \in 0 .. Used
    BY <2>1
  <2> QED BY <2>2 DEF DoneUpTo
<1> QED BY <1>1, <1>2

LEMMA PacketsType ==
    ASSUME TypeOK, Carried
    PROVE  Packets \in Seq(Skb) /\ Len(Packets) = Used
           /\ \A i \in 1 .. Used : Packets[i] = buf[Off(i - 1)]
<1>1. Used \in Nat
  BY WindowRange
<1>2. \A i \in 1 .. Used : i - 1 \in 0 .. Used - 1 /\ buf[Off(i - 1)] \in Skb
  <2>1. SUFFICES ASSUME NEW i \in 1 .. Used
                 PROVE  i - 1 \in 0 .. Used - 1 /\ buf[Off(i - 1)] \in Skb
    OBVIOUS
  <2>2. i - 1 \in 0 .. Used - 1 /\ i - 1 \in Int
    BY <1>1
  <2>3. Off(i - 1) \in Slots /\ buf[Off(i - 1)] # NoSkb
    BY <2>2, OffRange DEF Carried
  <2> QED BY <2>2, <2>3 DEF TypeOK
<1> QED BY <1>1, <1>2 DEF Packets

(* Steps that leave the window, what is attached to it and what the engine  *)
(* owns of it alone.                                                        *)
LEMMA FifoSame ==
    ASSUME UNCHANGED <<own, buf, curr, dirty, overlap, oops>>
    PROVE  UNCHANGED Fifo!vars
<1>1. Used' = Used /\ \A k : Off(k)' = Off(k)
  BY WindowSame
<1>2. Packets' = Packets
  BY <1>1 DEF Packets
<1>3. \A m : Walked(m)' = Walked(m)
  BY <1>1 DEF Walked
<1>4. DonePrefix' = DonePrefix
  BY <1>1, <1>3 DEF DonePrefix
<1> QED BY <1>2, <1>4 DEF Fifo!vars, Queue, Sent, Broken

(* Steps after which the ring is empty, or promises nothing.                *)
LEMMA FifoDrop ==
    ASSUME TypeOK', Broken' \/ Used' = 0
    PROVE  Fifo!Drop
<1>1. CASE Broken'
  BY <1>1 DEF Fifo!Drop, Queue, Sent
<1>2. CASE Used' = 0
  <2>1. Packets' = <<>>
    BY <1>2 DEF Packets
  <2>2. DonePrefix' = 0
    BY <1>2, DoneEmpty, DonePrefixIsNext
  <2> QED BY <2>1, <2>2 DEF Fifo!Drop, Queue, Sent
<1> QED BY <1>1, <1>2

(* XmitPost accepts a packet.                                               *)
LEMMA FifoAccept ==
    ASSUME TypeOK, TypeOK', WindowInv, WindowInv', ~Broken, XmitPost
    PROVE  \E p \in Skb : Fifo!Accept(p)
<1>0. ~overlap /\ ~oops /\ ~Broken' /\ Carried /\ Room /\ Attached /\ Owned
  BY DEF Broken, XmitPost, histVars, WindowInv, Undisturbed
<1>1. Used < Size /\ Used \in Int /\ Used >= 0 /\ xmit.n = 1
  BY <1>0, WindowRange DEF XmitPost, Room, MaySend, Carried
<1>2. Used' = Used + 1 /\ (\A k : Off(k)' = Off(k)) /\ buf' = buf
  BY <1>1, WindowGrows DEF XmitPost
<1>3. Last = Used
  BY DEF XmitPost, Last
<1> DEFINE p == buf[Off(Used)]
<1>4. p \in Skb
  BY <1>0, <1>1, OffRange DEF XmitPost, Carried, TypeOK
<1>5. Queue = Packets /\ Queue' = Packets' /\ Sent = DonePrefix /\ Sent' = DonePrefix'
  BY <1>0 DEF Queue, Sent
<1>6. Packets \in Seq(Skb) /\ Len(Packets) = Used
      /\ \A i \in 1 .. Used : Packets[i] = buf[Off(i - 1)]
  BY <1>0, PacketsType
<1>7. \A i \in 1 .. Used : Packets[i] # p
  <2>1. SUFFICES ASSUME NEW i \in 1 .. Used, buf[Off(i - 1)] = buf[Off(Used)]
                 PROVE  FALSE
    BY <1>6
  <2>2. i - 1 \in 0 .. Last /\ Used \in 0 .. Last /\ i - 1 # Used
    BY <1>1, <1>3
  <2> QED BY <1>0, <2>1, <2>2 DEF Attached
<1>8. Packets' = Append(Packets, p)
  <2>1. Packets' = [k \in 1 .. Used + 1 |-> buf[Off(k - 1)]]
    BY <1>2 DEF Packets
  <2>2. \A k \in 1 .. Used + 1 : k \in 1 .. Used \/ (k = Used + 1 /\ k - 1 = Used)
    BY <1>1
  <2>3. Append(Packets, p) = [k \in 1 .. Used + 1 |-> IF k \in 1 .. Used THEN Packets[k] ELSE p]
    BY <1>1, <1>6
  <2> HIDE DEF p
  <2>4. \A k \in 1 .. Used + 1 : buf[Off(k - 1)] = IF k \in 1 .. Used THEN Packets[k] ELSE p
    BY <1>1, <1>6, <2>2 DEF p
  <2> QED BY <2>1, <2>3, <2>4
<1>9. DonePrefix' = DonePrefix
  <2>1. PICK m \in 0 .. Used : DoneUpTo(m)
    BY <1>0, SomeDone
  <2>2. DonePrefix = m
    BY <2>1, DonePrefixIs
  <2>3. m \in 0 .. Used' /\ DoneUpTo(m)'
    BY <1>1, <1>2, <2>1, DonePost DEF XmitPost
  <2> QED BY <2>2, <2>3, DonePrefixIsNext
<1> HIDE DEF p
<1> QED BY <1>4, <1>5, <1>6, <1>7, <1>8, <1>9 DEF Fifo!Accept

(* The engine transmits the oldest packet that is not sent.                 *)
LEMMA FifoTransmit ==
    ASSUME TypeOK, TypeOK', WindowInv, ~Broken, EngineSend
    PROVE  Fifo!Transmit
<1>0. ~overlap /\ ~oops /\ ~Broken' /\ Carried /\ Attached /\ Owned /\ InStep
  BY DEF Broken, EngineSend, histVars, WindowInv, Undisturbed
<1>1. PICK m \in 0 .. Used - 1 : m = ps /\ fetch = Off(m) /\ DoneUpTo(m)
  BY <1>0, EngineAtFirst
<1>2. Used' = Used /\ (\A k : Off(k)' = Off(k)) /\ buf' = buf
  BY WindowSame DEF EngineSend
<1>3. Used \in Int /\ m \in 0 .. Used /\ m < Used /\ m + 1 \in 0 .. Used'
  BY <1>2, WindowRange
<1>4. DonePrefix = m
  BY <1>1, <1>3, DonePrefixIs
<1>5. DoneUpTo(m + 1)'
  BY <1>0, <1>1, DoneSend DEF EngineSend, Carried
<1>6. DonePrefix' = m + 1
  BY <1>3, <1>5, DonePrefixIsNext
<1>7. Packets' = Packets /\ Len(Packets) = Used
  BY <1>0, <1>2, PacketsType DEF Packets
<1>8. Queue = Packets /\ Queue' = Packets' /\ Sent = DonePrefix /\ Sent' = DonePrefix'
  BY <1>0 DEF Queue, Sent
<1> QED BY <1>3, <1>4, <1>6, <1>7, <1>8 DEF Fifo!Transmit

(* The poll completes the packets that are sent, if there are any.          *)
LEMMA FifoComplete ==
    ASSUME HasFastReset, TypeOK, TypeOK', WindowInv, WindowInv', ~Broken, Poll
    PROVE  (\E k \in 1 .. Sent : Fifo!Complete(k)) \/ UNCHANGED Fifo!vars
<1>0. ~overlap /\ ~oops /\ ~Broken' /\ Carried /\ Carried' /\ Attached /\ Owned
  BY DEF Broken, Poll, WindowInv, Undisturbed
<1>1. PICK n \in 0 .. Used : Walked(n) /\ Reclaim(n)
  <2>1. PICK m \in 0 .. Used, n \in 0 .. Used : Walked(m) /\ Reclaims(m, n) /\ Reclaim(n)
    BY DEF Poll
  <2>2. n = m
    BY <1>0, <2>1, ReclaimsAll
  <2> QED BY <2>1, <2>2
<1>2. PICK m \in 0 .. Used : DoneUpTo(m)
  BY <1>0, SomeDone
<1>3. m = n /\ DonePrefix = n
  BY <1>1, <1>2, WalkedIsDone, DonePrefixIs
<1>4. n \in 0 .. Size /\ n \in Int /\ n >= 0 /\ n <= Used /\ n <= Size /\ n \in 0 .. n
      /\ Used \in Int /\ Size \in Int /\ Used <= Size /\ n - n = 0
  BY <1>0, WindowRange DEF Carried
<1>5. Used' = Used - n /\ \A k \in 0 .. Size : Off(k)' = Off(n + k)
  BY <1>1, <1>4, WindowShrinks DEF Reclaim, Poll
<1>6. DonePrefix' = 0
  <2>1. 0 \in 0 .. Used' /\ DoneUpTo(0)'
    BY <1>1, <1>2, <1>3, <1>4, DoneReclaim DEF Reclaim, Poll
  <2> QED BY <2>1, DonePrefixIsNext
<1>7. Queue = Packets /\ Queue' = Packets' /\ Sent = n /\ Sent' = 0
  BY <1>0, <1>3, <1>6 DEF Queue, Sent
<1>8. Packets \in Seq(Skb) /\ Len(Packets) = Used
      /\ \A i \in 1 .. Used : Packets[i] = buf[Off(i - 1)]
  BY <1>0, PacketsType
<1>9. Packets' = [i \in 1 .. Used - n |-> Packets[n + i]]
  <2>1. Packets' = [i \in 1 .. Used - n |-> buf'[Off(i - 1)']]
    BY <1>5 DEF Packets
  <2>2. ASSUME NEW i \in 1 .. Used - n PROVE buf'[Off(i - 1)'] = Packets[n + i]
    <3>1. i - 1 \in 0 .. Size /\ n + (i - 1) \in n .. Size - 1 /\ n + i \in 1 .. Used
          /\ n + (i - 1) = (n + i) - 1
      BY <1>4
    <3>2. Off(i - 1)' = Off(n + (i - 1))
      BY <1>5, <3>1
    <3>3. buf'[Off(n + (i - 1))] = buf[Off(n + (i - 1))]
      BY <1>1, <1>4, <3>1, BeyondReclaimed DEF Reclaim
    <3>4. Packets[n + i] = buf[Off((n + i) - 1)]
      BY <1>8, <3>1
    <3> QED BY <3>1, <3>2, <3>3, <3>4
  <2> QED BY <2>1, <2>2
<1>10. CASE n = 0
  <2>1. Packets' = Packets
    <3>1. Packets' = [i \in 1 .. Used |-> Packets[0 + i]]
      BY <1>4, <1>9, <1>10
    <3>2. \A i \in 1 .. Used : 0 + i = i
      BY <1>4
    <3>3. Packets = [i \in 1 .. Used |-> Packets[i]]
      BY <1>4, <1>8
    <3> QED BY <3>1, <3>2, <3>3
  <2> QED BY <1>7, <1>10, <2>1 DEF Fifo!vars
<1>11. CASE n # 0
  <2>1. n \in 1 .. Sent
    BY <1>4, <1>7, <1>11
  <2>2. SubSeq(Packets, n + 1, Used) = [i \in 1 .. Used - n |-> Packets[n + i]]
    BY <1>4, <1>8
  <2>3. Fifo!Complete(n)
    BY <1>4, <1>7, <1>8, <1>9, <2>2 DEF Fifo!Complete
  <2> QED BY <2>1, <2>3
<1> QED BY <1>10, <1>11

LEMMA FifoInit == Init => Fifo!Init
<1> SUFFICES ASSUME Init PROVE Fifo!Init
  OBVIOUS
<1>1. TypeOK /\ Used = 0 /\ ~Broken
  BY TypeInit, SizeAssumption DEF Init, Used, Wrap, Broken
<1>2. Packets = <<>>
  BY <1>1 DEF Packets
<1>3. 0 \in 0 .. Used /\ 0 .. Used - 1 = {}
  BY <1>1
<1>4. DonePrefix = 0
  BY <1>1, <1>3, DonePrefixIs DEF DoneUpTo
<1> QED BY <1>1, <1>2, <1>4 DEF Fifo!Init, Queue, Sent

(* Filling a descriptor is not a step of the queue yet.                     *)
LEMMA FifoFill ==
    ASSUME HasFastReset, TypeOK, Carried, Room, ~Broken, ~overlap',
           NEW skb \in Skb, NEW n \in Segments, XmitFill(skb, n)
    PROVE  UNCHANGED Fifo!vars
<1>1. n = 1 /\ TailSlots(n) = {} /\ Slot(curr + n - 1) = Off(Used)
  BY OneFilled
<1>2. own' = own
  BY <1>1 DEF XmitFill, TypeOK
<1>3. Used \in Int /\ Used >= 0 /\ Size \in Int /\ Used < Size /\ Off(Used) \in Slots
  BY WindowRange, OffRange DEF XmitFill, MayXmit, CpuFree, Room, MaySend
<1>4. Used' = Used /\ \A k : Off(k)' = Off(k)
  BY WindowSame DEF XmitFill
<1>5. ASSUME NEW i \in 1 .. Used PROVE buf'[Off(i - 1)'] = buf[Off(i - 1)]
  <2>1. i - 1 \in 0 .. Size - 1 /\ Used \in 0 .. Size - 1 /\ i - 1 # Used
    BY <1>3
  <2>2. Off(i - 1) # Off(Used) /\ Off(i - 1) \in Slots
    BY <2>1, OffInjective, OffRange
  <2>3. Off(i - 1)' = Off(i - 1)
    BY <1>4
  <2> QED BY <1>1, <2>2, <2>3 DEF XmitFill, TypeOK
<1>6. Packets' = Packets
  BY <1>4, <1>5 DEF Packets
<1>7. \A m : Walked(m)' = Walked(m)
  BY <1>2, <1>4 DEF Walked
<1>8. DonePrefix' = DonePrefix
  BY <1>4, <1>7 DEF DonePrefix
<1>9. Broken' = Broken
  BY DEF XmitFill, Broken
<1> QED BY <1>6, <1>8, <1>9 DEF Fifo!vars, Queue, Sent

LEMMA OopsKept == ASSUME [Next]_vars, ~oops' PROVE ~oops
BY DEF Next, Xmit, XmitFill, XmitDrop, XmitPost, XmitKick, XmitFreedRing, EngineSend,
   EngineIdle, Poll, LinkUp, LinkDown, LinkWatch, TxTimeout, Work, WorkStop,
   WorkNapiDisabled, WorkClean, WorkFree, WorkEnable, WorkEnableFails, WorkAdjust,
   WorkFlush, WorkDmaReset, WorkZero, WorkBase, WorkStart, FlushFreedRing, histVars,
   vars

LEMMA FifoNext ==
    ASSUME HasFastReset, TypeOK, TypeOK', WindowInv, WindowInv', [Next]_vars
    PROVE  [Fifo!Next]_(Fifo!vars)
<1> USE DEF ringVars, hwVars, netVars, workVars, histVars
<1>1. CASE Broken
  <2>1. Broken'
    BY <1>1, OverlapKept, OopsKept DEF Broken
  <2> QED BY <2>1, FifoDrop DEF Fifo!Next
<1>2. CASE ~Broken
  <2>0. ~overlap /\ Carried /\ Room /\ Attached /\ Owned /\ InStep
    BY <1>2 DEF Broken, WindowInv, Undisturbed
  <2>1. ASSUME NEW skb \in Skb, NEW n \in Segments, XmitFill(skb, n)
        PROVE  [Fifo!Next]_(Fifo!vars)
    <3>1. CASE overlap'
      BY <3>1, FifoDrop DEF Broken, Fifo!Next
    <3>2. CASE ~overlap'
      BY <1>2, <2>0, <2>1, <3>2, FifoFill
    <3> QED BY <3>1, <3>2
  <2>2. ASSUME NEW skb \in Skb, NEW n \in Segments, NEW f \in 0 .. n - 1,
               XmitDrop(skb, n, f)
        PROVE  [Fifo!Next]_(Fifo!vars)
    <3>1. f = 0 /\ TailSlots(f) = {}
      BY OneFilled
    <3>2. own' = own
      BY <2>2, <3>1 DEF XmitDrop, TypeOK
    <3> QED BY <2>2, <3>2, FifoSame DEF XmitDrop
  <2>3. CASE XmitPost
    BY <1>2, <2>3, FifoAccept DEF Fifo!Next
  <2>4. CASE XmitKick
    BY <2>4, FifoSame DEF XmitKick
  <2>5. CASE XmitFreedRing \/ FlushFreedRing
    BY <2>5, FifoDrop DEF XmitFreedRing, FlushFreedRing, Broken, Fifo!Next
  <2>6. CASE EngineSend
    BY <1>2, <2>6, FifoTransmit DEF Fifo!Next
  <2>7. CASE EngineIdle
    BY <2>7, FifoSame DEF EngineIdle
  <2>8. CASE Poll
    BY <1>2, <2>8, FifoComplete DEF Fifo!Next
  <2>9. CASE LinkUp
    BY <2>9, WindowEmpties, FifoDrop DEF LinkUp, FastReset, Fifo!Next
  <2>10. CASE LinkDown \/ LinkWatch \/ TxTimeout
    BY <2>10, FifoSame DEF LinkDown, LinkWatch, TxTimeout
  <2>11. CASE WorkClean \/ WorkZero
    BY <2>11, WindowEmpties, FifoDrop DEF WorkClean, WorkZero, Fifo!Next
  <2>12. CASE WorkFlush
    <3>1. overlap' = overlap /\ work' = "dma"
      BY <2>12 DEF WorkFlush
    <3>2. Used' = 0
      BY <2>0, <3>1 DEF WindowInv, Undisturbed, Attached, Emptied
    <3> QED BY <3>2, FifoDrop DEF Fifo!Next
  <2>13. CASE WorkEnable \/ WorkEnableFails
    <3>1. CASE FreshRing
      BY <3>1, WindowEmpties, FifoDrop DEF FreshRing, Fifo!Next
    <3>2. CASE UNCHANGED <<ringVars, bql, rings>>
      BY <2>13, <3>2, FifoSame DEF WorkEnable, WorkEnableFails
    <3> QED BY <2>13, <3>1, <3>2 DEF WorkEnable, WorkEnableFails
  <2>14. CASE WorkStop \/ WorkNapiDisabled \/ WorkFree \/ WorkAdjust \/ WorkDmaReset
              \/ WorkBase \/ WorkStart
    BY <2>14, FifoSame DEF WorkStop, WorkNapiDisabled, WorkFree, WorkAdjust,
       WorkDmaReset, WorkBase, WorkStart
  <2>15. CASE UNCHANGED vars
    BY <2>15, FifoSame DEF vars
  <2> QED BY <2>1, <2>2, <2>3, <2>4, <2>5, <2>6, <2>7, <2>8, <2>9, <2>10, <2>11,
             <2>12, <2>13, <2>14, <2>15 DEF Next, Xmit, Work
<1> QED BY <1>1, <1>2

(* On the ar724x the ring with all its descriptors, pointers and resets is  *)
(* a queue to the stack: whatever the order of steps, packets leave in the  *)
(* order they were accepted, are completed only when they were sent, and a  *)
(* reset drops all of them or none.                                         *)
THEOREM RingImplementsFifo == HasFastReset /\ Size > 1 => (Spec => FifoSpec)
<1> SUFFICES ASSUME HasFastReset, Size > 1 PROVE Spec => FifoSpec
  OBVIOUS
<1>1. Init => Fifo!Init
  BY FifoInit
<1>2. TypeOK /\ TypeOK' /\ WindowInv /\ WindowInv' /\ [Next]_vars => [Fifo!Next]_(Fifo!vars)
  BY FifoNext
<1> QED BY <1>1, <1>2, WindowHolds, TypeCorrect, PTL DEF Spec, FifoSpec, Fifo!Spec
=============================================================================

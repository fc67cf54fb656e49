------------------------------ MODULE Ag71xxTx ------------------------------
(* The transmit side of the ag71xx Ethernet driver (ag71xx_main.c): the     *)
(* descriptor ring shared with the DMA engine, ndo_start_xmit, the reclaim  *)
(* done by the NAPI poll, link changes, and the restart work.               *)
(*                                                                          *)
(* The target kernel is uniprocessor and not preemptible, so the code runs  *)
(* in three kinds of context: softirqs (transmit, poll), which never nest,  *)
(* process context (restart work, PHY callback), which softirqs interrupt   *)
(* wherever interrupts are on, and the engine, which runs all the time.     *)
EXTENDS Integers, FiniteSets

CONSTANTS
    Skb,       \* packets the network stack may hand to the driver
    NoSkb,     \* a NULL skb pointer
    StopDesc,  \* address of ag->stop_desc, where the engine is parked
    Soc,       \* "ar71xx", "ar91xx" or "ar724x": what probe reads from pdata
    Size,      \* BIT(tx_ring.order)
    MaxSeg,    \* AG71XX_TX_RING_DS_PER_PKT
    AllocFails \* whether the allocations of a restart may fail

ASSUME SocAssumption == Soc \in {"ar71xx", "ar91xx", "ar724x"}
ASSUME SizeAssumption == Size \in Nat \ {0} /\ MaxSeg \in Nat \ {0}
ASSUME AllocAssumption == AllocFails \in BOOLEAN
ASSUME SkbAssumption == NoSkb \notin Skb

VARIABLES
    own,       \* slot -> descriptor belongs to the engine (DESC_EMPTY clear)
    data,      \* slot -> packet the descriptor's DMA address points into
    buf,       \* slot -> ring->buf[slot].skb
    curr,      \* ring->curr, where the driver writes the next descriptor
    dirty,     \* ring->dirty, the oldest descriptor not yet reclaimed
    txe,       \* TX_CTRL_TXE: the engine is running
    fetch,     \* TX_DESC: the descriptor the engine looks at next
    ps,        \* the packet-sent counter of TX_STATUS
    stopped,   \* the netdev queue is stopped
    bql,       \* packets netdev_sent_queue counted and not completed
    xmit,      \* progress of the transmit call that is running, if any
    link,      \* ag->link, and the carrier that follows it
    qdisc,     \* the stack's transmit scheduler is active
    pending,   \* restart_work is queued
    work,      \* next step of ag71xx_restart_work_func
    napi,      \* NAPI is enabled
    rings,     \* the rings are allocated
    held,      \* history: packets accepted and not freed
    overlap,   \* history: a transmit ran inside an unlocked reset
    oops       \* the kernel dereferenced a freed ring

ringVars == <<own, data, buf, curr, dirty>>
hwVars == <<txe, fetch, ps>>
netVars == <<stopped, bql, xmit, qdisc>>
workVars == <<pending, work, napi, rings>>
histVars == <<held, overlap, oops>>
vars == <<ringVars, hwVars, netVars, link, workVars, histVars>>

----------------------------------------------------------------------------
(* The ring. curr and dirty are free-running unsigned ints of which the     *)
(* code only takes differences and the low bits; any multiple of the ring   *)
(* size that exceeds it stands for 2^32.                                    *)

Split == Soc = "ar71xx"              \* tx_ring.desc_split # 0
HasFastReset == Soc = "ar724x"       \* pdata->is_ar724x

Wrap == 2 * Size
Slots == 0 .. Size - 1
ASSUME StopAssumption == StopDesc \notin Slots

Slot(c) == c % Size
Plus(c, n) == (c + n) % Wrap
Used == (curr - dirty) % Wrap
Off(k) == Slot(dirty + k)            \* the k-th slot from dirty
NextSlotUnmasked(s) == s + 1         \* mutant: the link of the last descriptor
NextSlot(s) == (s + 1) % Size        \* desc->next
Window == {Off(k) : k \in 0 .. Used - 1}
Segments == IF Split THEN 1 .. MaxSeg ELSE {1}
RingMin == IF Split THEN 2 * MaxSeg ELSE 2

FullNever == FALSE                   \* mutant: the queue is never stopped

\* The stop condition: an unsigned comparison, false for ever if the right
\* side is negative.
Full == RingMin <= Size /\ Used >= Size - RingMin

WorkSteps == {"idle", "napiwait", "clean", "free", "init", "adjust",
              "flush", "dma", "zero", "base", "start"}

\* Softirqs run to completion, and nothing runs after an oops.
CpuFree == xmit.pc = "idle" /\ ~oops

TypeOK ==
    /\ own \in [Slots -> BOOLEAN]
    /\ data \in [Slots -> Skb \union {NoSkb}]
    /\ buf \in [Slots -> Skb \union {NoSkb}]
    /\ curr \in 0 .. Wrap - 1
    /\ dirty \in 0 .. Wrap - 1
    /\ txe \in BOOLEAN
    /\ fetch \in Slots \union {StopDesc}
    /\ ps \in 0 .. Wrap
    /\ stopped \in BOOLEAN
    /\ bql \in Int
    /\ xmit \in [pc : {"idle", "filled", "posted"}, n : 0 .. MaxSeg]
    /\ link \in BOOLEAN
    /\ qdisc \in BOOLEAN
    /\ pending \in BOOLEAN
    /\ work \in WorkSteps
    /\ napi \in BOOLEAN
    /\ rings \in BOOLEAN
    /\ held \in SUBSET Skb
    /\ overlap \in BOOLEAN
    /\ oops \in BOOLEAN

\* The device after ag71xx_open, before the first link report.
Init ==
    /\ own = [s \in Slots |-> FALSE]
    /\ data = [s \in Slots |-> NoSkb]
    /\ buf = [s \in Slots |-> NoSkb]
    /\ curr = 0 /\ dirty = 0
    /\ txe = FALSE /\ fetch = 0 /\ ps = 0
    /\ stopped = FALSE /\ bql = 0
    /\ xmit = [pc |-> "idle", n |-> 0]
    /\ link = FALSE /\ qdisc = FALSE
    /\ pending = FALSE /\ work = "idle"
    /\ napi = TRUE /\ rings = TRUE
    /\ held = {} /\ overlap = FALSE /\ oops = FALSE

----------------------------------------------------------------------------
(* ag71xx_hard_start_xmit                                                   *)

MayXmit == CpuFree /\ qdisc /\ ~stopped
SegSlots(n) == {Slot(curr + k) : k \in 0 .. n - 1}
TailSlotsAll(n) == SegSlots(n)       \* mutant: the first one is not held back
TailSlots(n) == {Slot(curr + k) : k \in 1 .. n - 1}
Fits(n) == \A s \in SegSlots(n) : ~own[s]

\* Bound: Used stays below Wrap. Only a queue that hw_start wakes again and
\* again while no poll runs gets past Size at all.
Countable(n) == Used + n < Wrap

\* fill_dma_desc finds every descriptor it needs: all are written, the first
\* one still marked EMPTY, and the packet is attached to the last.
XmitFill(skb, n) ==
    /\ MayXmit /\ rings
    /\ skb \notin held
    /\ Fits(n) /\ Countable(n)
    /\ own' = [s \in Slots |-> own[s] \/ s \in TailSlots(n)]
    /\ data' = [s \in Slots |-> IF s \in SegSlots(n) THEN skb ELSE data[s]]
    /\ buf' = [buf EXCEPT ![Slot(curr + n - 1)] = skb]
    /\ held' = held \union {skb}
    /\ bql' = bql + 1
    /\ xmit' = [pc |-> "filled", n |-> n]
    /\ overlap' = (overlap \/ work \in {"free", "dma", "zero", "base"})
    /\ UNCHANGED <<curr, dirty, hwVars, stopped, qdisc, link, workVars, oops>>

\* desc->ctrl &= ~DESC_EMPTY hands the packet to the engine.
XmitPost ==
    /\ xmit.pc = "filled"
    /\ own' = [own EXCEPT ![Slot(curr)] = TRUE]
    /\ curr' = Plus(curr, xmit.n)
    /\ xmit' = [pc |-> "posted", n |-> xmit.n]
    /\ UNCHANGED <<data, buf, dirty, hwVars, stopped, bql, qdisc, link,
                   workVars, histVars>>

\* Mutant: return early when the queue was stopped.
XmitKickUnlessFull ==
    /\ xmit.pc = "posted"
    /\ stopped' = (stopped \/ Full)
    /\ txe' = (txe \/ ~Full)
    /\ xmit' = [pc |-> "idle", n |-> 0]
    /\ UNCHANGED <<ringVars, fetch, ps, bql, qdisc, link, workVars, histVars>>

\* Stop the queue when the ring is nearly full, then enable the engine.
XmitKick ==
    /\ xmit.pc = "posted"
    /\ stopped' = (stopped \/ Full)
    /\ txe' = TRUE
    /\ xmit' = [pc |-> "idle", n |-> 0]
    /\ UNCHANGED <<ringVars, fetch, ps, bql, qdisc, link, workVars, histVars>>

\* fill_dma_desc meets a descriptor the engine owns after f of n segments;
\* the packet is dropped, what was written stays.
XmitDrop(skb, n, f) ==
    /\ MayXmit /\ rings
    /\ skb \notin held
    /\ f \in 0 .. n - 1 /\ own[Slot(curr + f)] /\ Fits(f)
    /\ own' = [s \in Slots |-> own[s] \/ s \in TailSlots(f)]
    /\ data' = [s \in Slots |-> IF s \in SegSlots(f) THEN skb ELSE data[s]]
    /\ UNCHANGED <<buf, curr, dirty, hwVars, netVars, link, workVars, histVars>>

XmitFreedRing ==
    /\ MayXmit /\ ~rings
    /\ oops' = TRUE
    /\ UNCHANGED <<ringVars, hwVars, netVars, link, workVars, held, overlap>>

Xmit == \E skb \in Skb, n \in Segments :
            XmitFill(skb, n) \/ \E f \in 0 .. n - 1 : XmitDrop(skb, n, f)

----------------------------------------------------------------------------
(* The DMA engine, as the driver relies on it: it sends the descriptors it  *)
(* owns in ring order, gives each back by setting EMPTY and counts it in    *)
(* TX_STATUS; it stops at an EMPTY descriptor until TXE is written again.   *)

EngineSend ==
    /\ ~oops /\ rings
    /\ txe /\ fetch # StopDesc /\ own[fetch]
    /\ own' = [own EXCEPT ![fetch] = FALSE]
    /\ fetch' = NextSlot(fetch)
    /\ ps' = IF ps < Wrap THEN ps + 1 ELSE ps
    /\ UNCHANGED <<data, buf, curr, dirty, txe, netVars, link, workVars, histVars>>

EngineIdle ==
    /\ ~oops /\ txe
    /\ fetch # StopDesc => ~own[fetch]
    /\ txe' = FALSE
    /\ UNCHANGED <<ringVars, fetch, ps, netVars, link, workVars, histVars>>

----------------------------------------------------------------------------
(* ag71xx_tx_packets                                                        *)

\* Mutant: the walk does not look at DESC_EMPTY.
WalkedBlindly(m) == m = Used

\* m: descriptors from dirty on that the walk passes over. Without flush it
\* stops at the first one the engine still owns.
Walked(m) ==
    /\ m \in 0 .. Used
    /\ \A k \in 0 .. m - 1 : ~own[Off(k)]
    /\ m < Used => own[Off(m)]

\* A slot met a second time, in a ring that went round, is empty by then.
Carries(k) == k < Size /\ buf[Off(k)] # NoSkb

\* n: what dirty advances by, up to the last descriptor that carries an skb.
Reclaims(m, n) ==
    /\ n \in 0 .. m
    /\ n > 0 => Carries(n - 1)
    /\ \A k \in n .. m - 1 : ~Carries(k)

Reclaimed(n) == {Off(k) : k \in 0 .. n - 1}
Completed(n) == {s \in Reclaimed(n) : buf[s] # NoSkb}
AckedOnce(n) == IF n = 0 \/ ps = 0 THEN ps ELSE ps - 1   \* mutant: one per poll
Acked(n) == IF n > ps THEN 0 ELSE ps - n
WakeBelowZero == Size * (3 \div 4)   \* mutant: the division comes first
WakeBelow == (Size * 3) \div 4

\* What both uses of the walk do: free the packets, advance dirty, wake the
\* queue if enough is free.
Reclaim(n) ==
    /\ buf' = [s \in Slots |-> IF s \in Reclaimed(n) THEN NoSkb ELSE buf[s]]
    /\ held' = held \ {buf[s] : s \in Reclaimed(n)}
    /\ dirty' = Plus(dirty, n)
    /\ bql' = bql - Cardinality(Completed(n))
    /\ stopped' = (stopped /\ ~(n > 0 /\ Used - n < WakeBelow))

\* tx_packets(ag, false), from the NAPI poll. On the ar724x a descriptor that
\* is not done may make check_dma_stuck report a stuck engine.
Poll ==
    /\ CpuFree /\ napi
    /\ \E m \in 0 .. Used, n \in 0 .. Used, stuck \in BOOLEAN :
          /\ Walked(m) /\ Reclaims(m, n)
          /\ stuck => HasFastReset /\ link /\ m < Used
          /\ Reclaim(n)
          /\ ps' = Acked(n)
          /\ pending' = (stuck \/ (pending /\ n = 0))
    /\ UNCHANGED <<own, data, curr, txe, fetch, xmit, qdisc, link, work, napi,
                   rings, overlap, oops>>

\* tx_packets(ag, true): every descriptor up to curr is taken back first.
Flush(n) ==
    /\ Reclaims(Used, n)
    /\ own' = [s \in Slots |-> own[s] /\ s \notin Window]
    /\ Reclaim(n)
    /\ pending' = (pending /\ n = 0)

----------------------------------------------------------------------------
(* Link reports: ag71xx_phy_link_adjust, under ag->lock with interrupts     *)
(* off. A callback of the PHY worker runs only where the restart work       *)
(* sleeps: outside it, in napi_disable and in the allocations.              *)

MayReport == CpuFree /\ work \in {"idle", "napiwait", "init"}

\* Mutant: the ring is not flushed.
FastResetNoFlush ==
    /\ own' = [s \in Slots |-> own[s] /\ s \notin Window]
    /\ curr' = 0 /\ dirty' = 0
    /\ bql' = 0
    /\ txe' = FALSE /\ fetch' = 0 /\ ps' = 0
    /\ UNCHANGED <<buf, held, pending>>

\* Mutant: curr and dirty stay where they are.
FastResetKeepsPlace ==
    /\ own' = [s \in Slots |-> own[s] /\ s \notin Window]
    /\ buf' = [s \in Slots |-> IF s \in Window THEN NoSkb ELSE buf[s]]
    /\ held' = held \ {buf[s] : s \in Window}
    /\ dirty' = curr
    /\ bql' = 0
    /\ txe' = FALSE /\ fetch' = 0 /\ ps' = 0
    /\ UNCHANGED <<curr, pending>>

\* ag71xx_fast_reset in one piece: flush, reset, start again at slot 0.
FastReset ==
    /\ own' = [s \in Slots |-> own[s] /\ s \notin Window]
    /\ buf' = [s \in Slots |-> IF s \in Window THEN NoSkb ELSE buf[s]]
    /\ held' = held \ {buf[s] : s \in Window}
    /\ pending' = (pending /\ \A s \in Window : buf[s] = NoSkb)
    /\ curr' = 0 /\ dirty' = 0
    /\ bql' = 0
    /\ txe' = FALSE /\ fetch' = 0 /\ ps' = 0

\* Link up, or a new speed or duplex while it is up; hw_start wakes the queue.
LinkUp ==
    /\ MayReport /\ (rings \/ Used = 0)
    /\ link' = TRUE
    /\ stopped' = FALSE
    /\ IF HasFastReset
         THEN FastReset
         ELSE UNCHANGED <<ringVars, hwVars, held, pending, bql>>
    /\ overlap' = (overlap \/ work # "idle")
    /\ UNCHANGED <<data, xmit, qdisc, work, napi, rings, oops>>

LinkDown ==
    /\ MayReport /\ link
    /\ link' = FALSE
    /\ txe' = FALSE
    /\ UNCHANGED <<ringVars, fetch, ps, netVars, workVars, histVars>>

\* The stack follows the carrier some time later.
LinkWatch ==
    /\ CpuFree
    /\ qdisc # link
    /\ qdisc' = link
    /\ UNCHANGED <<ringVars, hwVars, stopped, bql, xmit, link, workVars, histVars>>

----------------------------------------------------------------------------
(* ag71xx_tx_timeout and ag71xx_restart_work_func, one action for each part *)
(* that softirqs or the PHY worker can come between.                        *)

TxTimeout ==
    /\ CpuFree /\ link /\ qdisc /\ stopped /\ ~pending
    /\ pending' = TRUE
    /\ UNCHANGED <<ringVars, hwVars, netVars, link, work, napi, rings, histVars>>

\* hw_disable up to napi_disable: stop the queue, the engine, reset the DMA.
WorkStop ==
    /\ CpuFree /\ work = "idle" /\ pending
    /\ pending' = FALSE
    /\ stopped' = TRUE
    /\ txe' = FALSE /\ fetch' = StopDesc /\ ps' = 0
    /\ work' = "napiwait"
    /\ UNCHANGED <<ringVars, bql, xmit, qdisc, link, napi, rings, histVars>>

\* napi_disable returns, at once or after the poll that was scheduled. It
\* never returns when NAPI is disabled already.
WorkNapiDisabled ==
    /\ CpuFree /\ work = "napiwait" /\ napi
    /\ napi' = FALSE
    /\ work' = "clean"
    /\ UNCHANGED <<ringVars, hwVars, netVars, link, pending, rings, histVars>>

\* ring_tx_clean: a descriptor that was not sent keeps DESC_EMPTY clear.
WorkClean ==
    /\ CpuFree /\ work = "clean"
    /\ buf' = [s \in Slots |-> IF s \in Window THEN NoSkb ELSE buf[s]]
    /\ held' = held \ {buf[s] : s \in Window}
    /\ bql' = bql - Cardinality({s \in Window : buf[s] # NoSkb})
    /\ dirty' = curr
    /\ work' = "free"
    /\ UNCHANGED <<own, data, curr, hwVars, stopped, xmit, qdisc, link, pending,
                   napi, rings, overlap, oops>>

WorkFree ==
    /\ CpuFree /\ work = "free"
    /\ rings' = FALSE
    /\ bql' = 0
    /\ work' = "init"
    /\ UNCHANGED <<ringVars, hwVars, stopped, xmit, qdisc, link, pending, napi,
                   histVars>>

\* ring_tx_init on fresh memory.
FreshRing ==
    /\ own' = [s \in Slots |-> FALSE]
    /\ data' = [s \in Slots |-> NoSkb]
    /\ buf' = [s \in Slots |-> NoSkb]
    /\ curr' = 0 /\ dirty' = 0
    /\ bql' = 0
    /\ rings' = TRUE

WorkEnable ==
    /\ CpuFree /\ work = "init"
    /\ FreshRing
    /\ napi' = TRUE
    /\ fetch' = 0
    /\ stopped' = FALSE
    /\ work' = "adjust"
    /\ UNCHANGED <<txe, ps, xmit, qdisc, link, pending, histVars>>

\* hw_enable fails with -ENOMEM, which the work ignores: there are no rings,
\* or only the receive ring lacks buffers.
WorkEnableFails ==
    /\ AllocFails
    /\ CpuFree /\ work = "init"
    /\ FreshRing \/ UNCHANGED <<ringVars, bql, rings>>
    /\ work' = "adjust"
    /\ UNCHANGED <<hwVars, stopped, xmit, qdisc, link, pending, napi, histVars>>

WorkAdjust ==
    /\ CpuFree /\ work = "adjust"
    /\ work' = IF ~link THEN "idle" ELSE IF HasFastReset THEN "flush" ELSE "start"
    /\ UNCHANGED <<ringVars, hwVars, netVars, link, pending, napi, rings, histVars>>

\* __ag71xx_link_adjust(ag, false), here without the lock: the parts of
\* ag71xx_fast_reset, then hw_start.
WorkFlush ==
    /\ CpuFree /\ work = "flush" /\ (rings \/ Used = 0)
    /\ txe' = FALSE
    /\ \E n \in 0 .. Used : Flush(n) /\ ps' = Acked(n)
    /\ work' = "dma"
    /\ UNCHANGED <<data, curr, fetch, xmit, qdisc, link, napi, rings, overlap, oops>>

WorkDmaReset ==
    /\ CpuFree /\ work = "dma"
    /\ txe' = FALSE /\ fetch' = StopDesc /\ ps' = 0
    /\ work' = "zero"
    /\ UNCHANGED <<ringVars, netVars, link, pending, napi, rings, histVars>>

WorkZero ==
    /\ CpuFree /\ work = "zero"
    /\ curr' = 0 /\ dirty' = 0
    /\ bql' = 0
    /\ work' = "base"
    /\ UNCHANGED <<own, data, buf, hwVars, stopped, xmit, qdisc, link, pending,
                   napi, rings, histVars>>

WorkBase ==
    /\ CpuFree /\ work = "base"
    /\ fetch' = 0
    /\ work' = "start"
    /\ UNCHANGED <<ringVars, txe, ps, netVars, link, pending, napi, rings, histVars>>

WorkStart ==
    /\ CpuFree /\ work = "start"
    /\ stopped' = FALSE
    /\ work' = "idle"
    /\ UNCHANGED <<ringVars, hwVars, bql, xmit, qdisc, link, pending, napi, rings,
                   histVars>>

\* The flush walks a ring that is gone.
FlushFreedRing ==
    /\ CpuFree /\ ~rings /\ Used > 0 /\ HasFastReset
    /\ work \in {"init", "flush"}
    /\ oops' = TRUE
    /\ UNCHANGED <<ringVars, hwVars, netVars, link, workVars, held, overlap>>

Work == \/ WorkStop \/ WorkNapiDisabled \/ WorkClean \/ WorkFree \/ WorkEnable
        \/ WorkEnableFails \/ WorkAdjust \/ WorkFlush \/ WorkDmaReset
        \/ WorkZero \/ WorkBase \/ WorkStart

----------------------------------------------------------------------------
Next ==
    \/ Xmit \/ XmitPost \/ XmitKick \/ XmitFreedRing
    \/ EngineSend \/ EngineIdle
    \/ Poll
    \/ LinkUp \/ LinkDown \/ LinkWatch
    \/ TxTimeout \/ Work \/ FlushFreedRing

Spec == Init /\ [][Next]_vars

\* The engine works, the interrupt for ps > 0 leads to a poll while the link
\* is up, and the code that is running on the CPU goes on.
Fairness ==
    /\ WF_vars(EngineSend) /\ WF_vars(EngineIdle)
    /\ WF_vars(link /\ ps > 0 /\ Poll)
    /\ WF_vars(XmitPost \/ XmitKick)
    /\ WF_vars(Work)
    /\ WF_vars(LinkWatch)

FairSpec == Spec /\ Fairness

----------------------------------------------------------------------------
(* Properties. "Quiet" states are those where neither a transmit nor the    *)
(* restart work is under way.                                               *)

Quiet == CpuFree /\ work = "idle"

\* The engine never reads a packet that was freed: whatever descriptor it can
\* reach and owns points into a packet that is still attached to the ring, and
\* it never runs on a ring that is gone.
NoUseAfterFree ==
    ~overlap /\ fetch # StopDesc =>
        IF rings
          THEN \A s \in Slots : own[s] => \E t \in Slots : buf[t] = data[s] /\ buf[t] # NoSkb
          ELSE ~txe

\* Why that is so where a packet takes one descriptor, in parts an induction
\* needs. Whatever the engine owns has its own packet attached, ...
OwnedHasPacket ==
    rings /\ work # "free" =>
        \A s \in Slots : own[s] => data[s] \in Skb /\ buf[s] = data[s]

\* ... also the descriptor that is about to be handed over, ...
FilledHasPacket ==
    /\ xmit.pc # "idle" => rings
    /\ xmit.pc = "filled" =>
          /\ xmit.n = 1
          /\ data[Slot(curr)] \in Skb /\ buf[Slot(curr)] = data[Slot(curr)]

\* ... and while the ring is taken apart the engine is parked or stopped.
EngineParked ==
    /\ ~overlap /\ work \in {"napiwait", "clean", "free", "init"} => fetch = StopDesc
    /\ ~overlap /\ ~rings /\ fetch # StopDesc => ~txe
    /\ ~rings /\ work \in {"dma", "zero", "base"} => ~txe

OwnershipInv == OwnedHasPacket /\ FilledHasPacket /\ EngineParked

\* The engine never attempts a descriptor that was not handed to it by a
\* completed transmit ("prevent early tx attempt of this descriptor").
NoEarlyAttempt ==
    ~overlap /\ rings /\ txe /\ fetch # StopDesc /\ own[fetch] => fetch \in Window

\* No packet is lost and none is freed twice: what the driver accepted and has
\* not freed is what is attached to slots between dirty and curr (counting the
\* call that has filled its descriptors but not moved curr yet).
Filling == IF xmit.pc = "filled" THEN SegSlots(xmit.n) ELSE {}
NoPacketLost ==
    HasFastReset /\ ~overlap /\ rings =>
        /\ held = {buf[s] : s \in Window \union Filling} \ {NoSkb}
        /\ \A s \in Slots : buf[s] # NoSkb => s \in Window \union Filling

\* The byte queue limits never see more completions than packets sent: the
\* count is the number of packets attached between dirty and curr.
BqlMatchesRing ==
    HasFastReset /\ rings /\ ~oops =>
        bql = Cardinality({s \in Window \union Filling : buf[s] # NoSkb})

\* Engine and driver agree where the ring is: when no reset is under way the
\* engine is at the first descriptor it owns, or at curr if it owns none.
EngineInStep ==
    HasFastReset /\ ~overlap /\ Quiet /\ napi =>
        /\ \A m \in 0 .. Used : Walked(m) => fetch = Off(m)
        /\ \A s \in Slots : own[s] => s \in Window

\* A packet the engine owns while the link is up is on its way: the engine is
\* running, so no packet waits for the next one to be transmitted.
NoForgottenKick ==
    HasFastReset /\ ~overlap /\ Quiet /\ napi /\ link /\ (\E s \in Slots : own[s])
        => txe

\* The packet-sent counter, which raises the interrupt, counts exactly the
\* descriptors that are done and not reclaimed: no completion goes unnoticed
\* and no acknowledgement is left over to keep the poll spinning.
CounterMatchesRing ==
    HasFastReset /\ ~overlap /\ Quiet /\ napi =>
        \A m \in 0 .. Used : Walked(m) => ps = m

\* Whoever counts completions counts the same: the byte queue limits, whose
\* BUG_ON is fatal, and the hardware counter.
CountsMatchRing == BqlMatchesRing /\ CounterMatchesRing

\* After any order of transmits, polls and resets the engine is where the
\* driver takes it to be, and has been told of everything it has to send.
EngineOnTheWay == EngineInStep /\ NoForgottenKick

\* A stopped queue has a packet in the ring whose completion will wake it.
StoppedHasCause ==
    ~overlap /\ Quiet /\ napi /\ stopped => Used > 0

\* A queue that is open has room for one more packet: the stop and wake
\* thresholds and the wake in hw_start never let a transmit run into
\* descriptors that are still in use.
OpenHasRoom ==
    HasFastReset /\ ~overlap /\ rings /\ CpuFree /\ ~stopped =>
        Used + 1 <= Size

\* The queue is stopped when and only when that is needed: a transmit finds
\* room, and what will wake the queue is in the ring.
QueueHasRoom == StoppedHasCause /\ OpenHasRoom

\* Between dma_reset and the new descriptor address the engine does not work on
\* the ring: "clearing the descriptors too early causes random memory corruption".
EngineStoppedInReset ==
    work \in {"clean", "free", "zero", "base"} => ~txe \/ fetch = StopDesc

\* A stopped queue is woken, unless the link stays away.
QueueWakes == stopped ~> (~stopped \/ ~link \/ overlap \/ oops)

\* Every packet the driver accepts is freed: sent, or dropped by a reset.
AcceptedIsFreed ==
    \A p \in Skb : p \in held ~> (p \notin held \/ ~link \/ overlap \/ oops)
============================================================================

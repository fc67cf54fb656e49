----------------------------- MODULE Ag71xxNapi -----------------------------
(* The receive side of the ag71xx driver and what drives both sides: the    *)
(* interrupt, the NAPI poll, the out-of-memory timer, and the jobs that run *)
(* under rtnl (open, stop, restart) or from the PHY worker. The transmit    *)
(* ring (Ag71xxTx) appears here as the flag txEvent only.                   *)
(*                                                                          *)
(* Uniprocessor, not preemptible: a poll is a softirq, interrupted only by  *)
(* the hard interrupt and by the engine; process context runs between polls.*)
EXTENDS Integers

CONSTANTS
    Size,       \* BIT(rx_ring.order)
    Limit,      \* AG71XX_NAPI_WEIGHT, the budget of one poll
    AllocFails, \* whether a buffer allocation may fail
    StopDesc    \* address of ag->stop_desc

Wrap == 2 * Size
Slots == 0 .. Size - 1

ASSUME SizeAssumption == Size \in Nat \ {0} /\ Limit \in Nat \ {0}
ASSUME FlagAssumption == AllocFails \in BOOLEAN
ASSUME StopAssumption == StopDesc \notin Slots

VARIABLES
    fastReset,\* pdata->is_ar724x: a link change resets the MAC
    own,      \* slot -> the engine may write there (DESC_EMPTY is set)
    has,      \* slot -> ring->buf[slot].rx_buf # NULL
    curr,     \* ring->curr, the next descriptor to look at
    dirty,    \* ring->dirty, the oldest descriptor without a new buffer
    fetch,    \* RX_DESC: the descriptor the engine fills next
    rxe,      \* RX_CTRL_RXE: the engine is running
    pr,       \* the packet-received counter of RX_STATUS
    overflow, \* RX_STATUS_OF
    txEvent,  \* TX_STATUS_PS: transmitted packets wait for the poll
    inten,    \* AG71XX_INT_POLL is set in INT_ENABLE
    napi,     \* NAPI: "off", "idle" or "sched"
    poll,     \* next step of the poll that is running
    done,     \* frames this poll has taken
    timer,    \* oom_timer is armed
    link,     \* ag->link
    up,       \* the interface is open
    job,      \* who holds rtnl: "none", "open", "stop" or "restart"
    step,     \* where that job is
    pending,  \* restart_work is queued
    rings,    \* the rings are allocated
    failed,   \* history: a restart could not allocate its rings
    bug       \* BUG() was reached

ringVars == <<own, has, curr, dirty>>
hwVars == <<fetch, rxe, pr, overflow, txEvent>>
pollVars == <<inten, napi, poll, done, timer>>
jobVars == <<link, up, job, step, pending, rings, failed>>
vars == <<fastReset, ringVars, hwVars, pollVars, jobVars, bug>>

----------------------------------------------------------------------------
Slot(c) == c % Size
Plus(c, n) == (c + n) % Wrap
Used == (curr - dirty) % Wrap     \* taken and not yet refilled

\* A softirq that runs is not interrupted by process context.
Idle == poll = "idle" /\ ~bug

TypeOK ==
    /\ fastReset \in BOOLEAN
    /\ own \in [Slots -> BOOLEAN]
    /\ has \in [Slots -> BOOLEAN]
    /\ curr \in 0 .. Wrap - 1
    /\ dirty \in 0 .. Wrap - 1
    /\ fetch \in Slots \union {StopDesc}
    /\ rxe \in BOOLEAN
    /\ pr \in 0 .. Size
    /\ overflow \in BOOLEAN
    /\ txEvent \in BOOLEAN
    /\ inten \in BOOLEAN
    /\ napi \in {"off", "idle", "sched"}
    /\ poll \in {"idle", "rx", "refilled", "txstatus", "complete", "enable"}
    /\ done \in 0 .. Limit
    /\ timer \in BOOLEAN
    /\ link \in BOOLEAN
    /\ up \in BOOLEAN
    /\ job \in {"none", "open", "stop", "restart"}
    /\ step \in {"none", "down", "napiwait", "clean", "init", "adjust"}
    /\ pending \in BOOLEAN
    /\ rings \in BOOLEAN
    /\ failed \in BOOLEAN
    /\ bug \in BOOLEAN

\* After ag71xx_probe: registered, not open.
Init ==
    /\ fastReset \in BOOLEAN
    /\ own = [s \in Slots |-> FALSE]
    /\ has = [s \in Slots |-> FALSE]
    /\ curr = 0 /\ dirty = 0
    /\ fetch = StopDesc /\ rxe = FALSE /\ pr = 0 /\ overflow = FALSE /\ txEvent = FALSE
    /\ inten = FALSE /\ napi = "off" /\ poll = "idle" /\ done = 0 /\ timer = FALSE
    /\ link = FALSE /\ up = FALSE /\ job = "none" /\ step = "none"
    /\ pending = FALSE /\ rings = FALSE /\ failed = FALSE /\ bug = FALSE

----------------------------------------------------------------------------
(* The engine: it fills the descriptors it owns in ring order and counts    *)
(* them; a frame that finds none raises the overflow and stops it.          *)

EngineReceive ==
    /\ ~bug /\ rings /\ rxe /\ fetch # StopDesc /\ own[fetch]
    /\ own' = [own EXCEPT ![fetch] = FALSE]
    /\ fetch' = (fetch + 1) % Size
    /\ pr' = IF pr < Size THEN pr + 1 ELSE pr
    /\ UNCHANGED <<has, curr, dirty, rxe, overflow, txEvent, pollVars, jobVars, bug>>

EngineOverflow ==
    /\ ~bug /\ rings /\ rxe /\ fetch # StopDesc /\ ~own[fetch]
    /\ overflow' = TRUE
    /\ rxe' = FALSE
    /\ UNCHANGED <<ringVars, fetch, pr, txEvent, pollVars, jobVars, bug>>

\* The transmit engine finishes a descriptor.
EngineSent ==
    /\ ~bug /\ up /\ link /\ ~txEvent
    /\ txEvent' = TRUE
    /\ UNCHANGED <<ringVars, fetch, rxe, pr, overflow, pollVars, jobVars, bug>>

----------------------------------------------------------------------------
(* ag71xx_interrupt and ag71xx_oom_timer_handler                            *)

\* napi_schedule does nothing while NAPI is scheduled, disabled, or being
\* disabled.
Scheduled == IF napi = "idle" /\ step # "napiwait" THEN "sched" ELSE napi

\* The hard interrupt is off inside ag->lock only, which no state between two
\* actions shows, so it can come anywhere.
Interrupt ==
    /\ ~bug /\ inten
    /\ pr > 0 \/ overflow \/ txEvent
    /\ inten' = FALSE
    /\ napi' = Scheduled
    /\ UNCHANGED <<ringVars, hwVars, poll, done, timer, jobVars, bug>>

OomTimer ==
    /\ Idle /\ timer
    /\ timer' = FALSE
    /\ napi' = Scheduled
    /\ UNCHANGED <<ringVars, hwVars, inten, poll, done, jobVars, bug>>

----------------------------------------------------------------------------
(* ag71xx_poll                                                              *)

\* tx_packets: acknowledges what it reclaims; a packet whose last segment is
\* not sent yet leaves the event set. It queues restart_work when the engine
\* looks stuck and cancels it when it has reclaimed something.
PollTx ==
    /\ Idle /\ napi = "sched"
    /\ txEvent' \in {FALSE, txEvent}
    /\ done' = 0
    /\ pending' \in {FALSE, pending} \union {fastReset /\ link}
    /\ poll' = "rx"
    /\ UNCHANGED <<ringVars, fetch, rxe, pr, overflow, inten, napi, timer, link, up,
                   job, step, rings, failed, bug>>

\* One turn of the loop of rx_packets. build_skb may fail: the buffer is gone
\* all the same.
PollTake ==
    /\ poll = "rx" /\ ~bug
    /\ done < Limit /\ ~own[Slot(curr)] /\ Used # Size
    /\ pr' = IF pr > 0 THEN pr - 1 ELSE 0
    /\ has' = [has EXCEPT ![Slot(curr)] = FALSE]
    /\ done' = done + 1
    /\ curr' = Plus(curr, 1)
    /\ UNCHANGED <<own, dirty, fetch, rxe, overflow, txEvent, inten, napi, poll,
                   timer, jobVars, bug>>

\* The ring has gone all the way round without a refill: ag71xx_assert(0).
PollAssert ==
    /\ poll = "rx" /\ ~bug
    /\ done < Limit /\ ~own[Slot(curr)] /\ Used = Size
    /\ bug' = TRUE
    /\ UNCHANGED <<ringVars, hwVars, pollVars, jobVars>>

Lacks(k) == ~has[Slot(dirty + k)]

\* Mutant: a failed allocation does not end the loop.
PollRefillNoBreak ==
    /\ poll = "rx" /\ ~bug
    /\ done = Limit \/ own[Slot(curr)]
    /\ \E k \in 0 .. Used :
          /\ k < Used => AllocFails /\ Lacks(k)
          /\ own' = [s \in Slots |-> own[s] \/ s \in {Slot(dirty + j) : j \in 0 .. Used - 1}]
          /\ has' = [s \in Slots |-> has[s] \/ s \in {Slot(dirty + j) : j \in 0 .. k - 1}]
    /\ dirty' = curr
    /\ poll' = "refilled"
    /\ UNCHANGED <<curr, hwVars, inten, napi, done, timer, jobVars, bug>>

\* ring_rx_refill hands back the first k of the descriptors between dirty and
\* curr; it stops early where a buffer is missing and none can be allocated.
PollRefill ==
    /\ poll = "rx" /\ ~bug
    /\ done = Limit \/ own[Slot(curr)]
    /\ \E k \in 0 .. Used :
          /\ k < Used => AllocFails /\ Lacks(k)
          /\ LET filled == {Slot(dirty + j) : j \in 0 .. k - 1}
             IN  /\ own' = [s \in Slots |-> own[s] \/ s \in filled]
                 /\ has' = [s \in Slots |-> has[s] \/ s \in filled]
          /\ dirty' = Plus(dirty, k)
    /\ poll' = "refilled"
    /\ UNCHANGED <<curr, hwVars, inten, napi, done, timer, jobVars, bug>>

\* Mutant: the timer is not armed.
PollOomNoTimer ==
    /\ poll = "refilled" /\ ~bug
    /\ ~has[Slot(dirty)]
    /\ napi' = "idle"
    /\ poll' = "idle"
    /\ UNCHANGED <<ringVars, hwVars, inten, done, timer, jobVars, bug>>

\* No buffer at dirty: leave the interrupts off and let the timer poll again.
PollOom ==
    /\ poll = "refilled" /\ ~bug
    /\ ~has[Slot(dirty)]
    /\ timer' = TRUE
    /\ napi' = "idle"
    /\ poll' = "idle"
    /\ UNCHANGED <<ringVars, hwVars, inten, done, jobVars, bug>>

\* Stay in polling mode. The NAPI core ends it when it is being disabled.
More == /\ poll' = "idle"
        /\ napi' = IF step = "napiwait" THEN "idle" ELSE "sched"

PollRxStatus ==
    /\ poll = "refilled" /\ ~bug
    /\ has[Slot(dirty)]
    /\ overflow' = FALSE
    /\ rxe' = (rxe \/ overflow)
    /\ IF done < Limit /\ pr = 0
         THEN poll' = "txstatus" /\ UNCHANGED napi
         ELSE More
    /\ UNCHANGED <<ringVars, fetch, pr, txEvent, inten, done, timer, jobVars, bug>>

PollTxStatus ==
    /\ poll = "txstatus" /\ ~bug
    /\ IF txEvent THEN More ELSE poll' = "complete" /\ UNCHANGED napi
    /\ UNCHANGED <<ringVars, hwVars, inten, done, timer, jobVars, bug>>

\* Mutant: napi_complete is missing.
PollCompleteNot ==
    /\ poll = "complete" /\ ~bug
    /\ poll' = "enable"
    /\ UNCHANGED <<ringVars, hwVars, inten, napi, done, timer, jobVars, bug>>

\* napi_complete, and then the interrupts.
PollComplete ==
    /\ poll = "complete" /\ ~bug
    /\ napi' = "idle"
    /\ poll' = "enable"
    /\ UNCHANGED <<ringVars, hwVars, inten, done, timer, jobVars, bug>>

PollEnable ==
    /\ poll = "enable" /\ ~bug
    /\ inten' = TRUE
    /\ poll' = "idle"
    /\ UNCHANGED <<ringVars, hwVars, napi, done, timer, jobVars, bug>>

Poll == \/ PollTx \/ PollTake \/ PollRefill \/ PollOom \/ PollRxStatus
        \/ PollTxStatus \/ PollComplete \/ PollEnable

----------------------------------------------------------------------------
(* Link reports of the PHY worker, under ag->lock; it gets the CPU between  *)
(* jobs and where the restart work sleeps. phy_stop keeps it away from stop.*)

MayReport == /\ Idle /\ up
             /\ job = "none" \/ (job = "restart" /\ step \in {"napiwait", "init"})

\* Mutant: every MAC gets the fast reset.
HwStartResetsAll ==
    /\ rxe' = TRUE
    /\ inten' = TRUE
    /\ pr' = 0 /\ overflow' = FALSE /\ txEvent' = FALSE
    /\ pending' \in {FALSE, pending}

\* ag71xx_fast_reset keeps RX_DESC and clears all pending events; its flush of
\* the transmit ring may cancel restart_work. Then hw_start.
HwStart ==
    /\ rxe' = TRUE
    /\ inten' = TRUE
    /\ IF fastReset
         THEN /\ pr' = 0 /\ overflow' = FALSE /\ txEvent' = FALSE
              /\ pending' \in {FALSE, pending}
         ELSE UNCHANGED <<pr, overflow, txEvent, pending>>

LinkUp ==
    /\ MayReport
    /\ link' = TRUE
    /\ HwStart
    /\ UNCHANGED <<ringVars, fetch, napi, poll, done, timer, up, job, step, rings,
                   failed, bug>>

LinkDown ==
    /\ MayReport /\ link
    /\ link' = FALSE
    /\ rxe' = FALSE /\ inten' = FALSE
    /\ UNCHANGED <<ringVars, fetch, pr, overflow, txEvent, napi, poll, done, timer,
                   up, job, step, pending, rings, failed, bug>>

----------------------------------------------------------------------------
(* The jobs: ag71xx_open, ag71xx_stop, ag71xx_restart_work_func.            *)

TxTimeout ==
    /\ Idle /\ up /\ link /\ ~pending
    /\ pending' = TRUE
    /\ UNCHANGED <<ringVars, hwVars, pollVars, link, up, job, step, rings, failed, bug>>

OpenBegin ==
    /\ Idle /\ job = "none" /\ ~up
    /\ job' = "open" /\ step' = "init"
    /\ UNCHANGED <<ringVars, hwVars, pollVars, link, up, pending, rings, failed, bug>>

\* phy_stop: the link goes down, with hw_stop if it was up.
StopBegin ==
    /\ Idle /\ job = "none" /\ up
    /\ job' = "stop" /\ step' = "down"
    /\ link' = FALSE
    /\ rxe' = (rxe /\ ~link) /\ inten' = (inten /\ ~link)
    /\ UNCHANGED <<ringVars, fetch, pr, overflow, txEvent, napi, poll, done, timer,
                   up, pending, rings, failed, bug>>

\* hw_disable up to napi_disable: hw_stop and dma_reset.
Disable ==
    /\ rxe' = FALSE /\ inten' = FALSE
    /\ fetch' = StopDesc
    /\ pr' = 0 /\ overflow' = FALSE /\ txEvent' = FALSE
    /\ step' = "napiwait"
    /\ UNCHANGED <<ringVars, napi, poll, done, timer, link, up, rings, failed, bug>>

StopDisable == /\ Idle /\ job = "stop" /\ step = "down"
               /\ Disable
               /\ UNCHANGED <<job, pending>>

\* The work is queued by itself and looks at nothing but rtnl.
RestartDisable == /\ Idle /\ job = "none" /\ pending
                  /\ Disable
                  /\ job' = "restart" /\ pending' = FALSE

\* Mutant: the timer is not deleted.
NapiDisabledOnly ==
    /\ Idle /\ step = "napiwait" /\ napi = "idle"
    /\ napi' = "off"
    /\ step' = "clean"
    /\ UNCHANGED <<ringVars, hwVars, inten, poll, done, timer, link, up, job, pending,
                   rings, failed, bug>>

\* napi_disable waits for the poll and keeps NAPI for itself; then the timer
\* is deleted. It waits for ever if NAPI is disabled already.
NapiDisabled ==
    /\ Idle /\ step = "napiwait" /\ napi = "idle"
    /\ napi' = "off"
    /\ timer' = FALSE
    /\ step' = "clean"
    /\ UNCHANGED <<ringVars, hwVars, inten, poll, done, link, up, job, pending,
                   rings, failed, bug>>

\* rings_cleanup; stop is done, restart goes on.
Cleanup ==
    /\ Idle /\ step = "clean"
    /\ rings' = FALSE
    /\ own' = [s \in Slots |-> FALSE]
    /\ has' = [s \in Slots |-> FALSE]
    /\ IF job = "stop" THEN job' = "none" /\ step' = "none" /\ up' = FALSE
                       ELSE step' = "init" /\ UNCHANGED <<job, up>>
    /\ UNCHANGED <<curr, dirty, hwVars, pollVars, link, pending, failed, bug>>

\* Mutant: curr and dirty are not reset.
RxInitKeepsPlace(k) ==
    /\ own' = [s \in Slots |-> s < k]
    /\ has' = [s \in Slots |-> s < k]
    /\ UNCHANGED <<curr, dirty>>

\* ring_rx_init fills the first k descriptors.
RxInit(k) ==
    /\ own' = [s \in Slots |-> s < k]
    /\ has' = [s \in Slots |-> s < k]
    /\ curr' = 0 /\ dirty' = 0

\* hw_enable when everything can be allocated.
Enable ==
    /\ Idle /\ step = "init"
    /\ RxInit(Size)
    /\ rings' = TRUE
    /\ napi' = "idle"
    /\ fetch' = 0
    /\ step' = "adjust"
    /\ UNCHANGED <<rxe, pr, overflow, txEvent, inten, poll, done, timer, link, up, job,
                   pending, failed, bug>>

\* -ENOMEM: open gives up and cleans up.
OpenFails ==
    /\ AllocFails
    /\ Idle /\ step = "init" /\ job = "open"
    /\ job' = "none" /\ step' = "none"
    /\ curr' = 0 /\ dirty' = 0
    /\ UNCHANGED <<own, has, hwVars, pollVars, link, up, pending, rings, failed, bug>>

\* The restart work ignores -ENOMEM, whether there are no rings at all or the
\* receive ring is filled in part.
RestartFails ==
    /\ AllocFails
    /\ Idle /\ step = "init" /\ job = "restart"
    /\ \/ \E k \in 0 .. Size - 1 : RxInit(k) /\ rings' = TRUE
       \/ UNCHANGED <<ringVars, rings>>
    /\ failed' = TRUE
    /\ step' = "adjust"
    /\ UNCHANGED <<hwVars, pollVars, link, up, job, pending, bug>>

OpenDone ==
    /\ Idle /\ step = "adjust" /\ job = "open"
    /\ up' = TRUE
    /\ job' = "none" /\ step' = "none"
    /\ UNCHANGED <<ringVars, hwVars, pollVars, link, pending, rings, failed, bug>>

RestartDone ==
    /\ Idle /\ step = "adjust" /\ job = "restart"
    /\ IF link THEN HwStart ELSE UNCHANGED <<rxe, inten, pr, overflow, txEvent, pending>>
    /\ job' = "none" /\ step' = "none"
    /\ UNCHANGED <<ringVars, fetch, napi, poll, done, timer, link, up, rings, failed, bug>>

Job == \/ StopDisable \/ NapiDisabled \/ Cleanup \/ Enable \/ OpenFails
       \/ RestartFails \/ OpenDone \/ RestartDone

----------------------------------------------------------------------------
SameChip == UNCHANGED fastReset

Next ==
    /\ SameChip
    /\ \/ EngineReceive \/ EngineOverflow \/ EngineSent
       \/ Interrupt \/ OomTimer
       \/ Poll \/ PollAssert
       \/ LinkUp \/ LinkDown
       \/ TxTimeout \/ OpenBegin \/ StopBegin \/ RestartDisable \/ Job

Spec == Init /\ [][Next]_vars

\* A refill that finds memory for everything.
RefillAll == PollRefill /\ dirty' = curr

\* Interrupts, timers and softirqs are served. Polls may come without end, but
\* past its budget a softirq is left to ksoftirqd, which shares the CPU with
\* the jobs: those are strongly fair. So is memory: a refill that is tried for
\* ever succeeds now and then.
Fairness ==
    /\ WF_vars(SameChip /\ Interrupt) /\ WF_vars(SameChip /\ OomTimer)
    /\ WF_vars(SameChip /\ (Poll \/ PollAssert))
    /\ SF_vars(SameChip /\ Job)
    /\ SF_vars(SameChip /\ RefillAll)

FairSpec == Spec /\ Fairness

----------------------------------------------------------------------------
(* Properties                                                               *)

\* napi_disable inside a job that can never return.
Hung == step = "napiwait" /\ napi = "off"

\* The engine never writes into a buffer that was passed to the stack or
\* freed: each descriptor it can reach and owns has a buffer of its own, and
\* it does not run on a ring that is gone.
EngineHasBuffer ==
    fetch # StopDesc =>
        IF rings THEN \A s \in Slots : own[s] => has[s] ELSE ~rxe

\* Driver and engine agree on the ring: from dirty on come the descriptors
\* without a buffer up to curr, the received ones up to where the engine is,
\* and then only descriptors the engine may fill.
Received == {k \in 0 .. Size - 1 - Used : has[Slot(curr + k)] /\ ~own[Slot(curr + k)]}
RingInStep ==
    rings /\ fetch # StopDesc /\ ~bug /\ poll # "rx" =>
        /\ Used <= Size
        /\ \A k \in 0 .. Used - 1 : ~own[Slot(dirty + k)]
        /\ \A k \in Received : \A j \in 0 .. k : j \in Received
        /\ \E k \in 0 .. Size - Used :
              /\ fetch = Slot(curr + k)
              /\ Received = 0 .. k - 1

\* While the link is up the device is masked only with a reason that unmasks
\* it again: a poll that is due or running, or the timer.
MaskedHasReason ==
    up /\ link /\ job = "none" /\ ~failed /\ ~inten =>
        napi = "sched" \/ poll # "idle" \/ timer

\* A frame in the ring is never forgotten: as long as the link is up it is
\* still counted in RX_STATUS, or a poll or the timer is due. (On the ar724x
\* a link change in between clears the count, and the frame waits for the
\* next one.)
FrameIsNoticed ==
    up /\ link /\ job = "none" /\ ~failed /\ ~bug /\ poll = "idle" /\ Received # {} /\ ~fastReset =>
        pr > 0 \/ napi = "sched" \/ timer

\* No frame and no refill waits for an interrupt that does not come.
InterruptKept == MaskedHasReason /\ FrameIsNoticed

\* A closed interface is quiet: no timer, no poll, no engine, no rings.
ClosedIsQuiet ==
    ~up /\ job = "none" =>
        ~timer /\ napi = "off" /\ poll = "idle" /\ ~rxe /\ ~rings /\ fetch = StopDesc

\* A job hangs in napi_disable, with rtnl held, only when an earlier restart
\* failed to allocate or restart_work outlived the interface.
HangHasCause == Hung => failed \/ ~up

\* Jobs and polls leave nothing behind: each state is well-formed, a closed
\* interface is quiet, and a job hangs for two reasons only.
JobsLeaveOrder == TypeOK /\ ClosedIsQuiet /\ HangHasCause

\* rx_packets never goes all the way round the ring: ag71xx_assert(0).
AssertHolds == ~bug

\* Whoever takes rtnl gives it back.
JobEnds == (job # "none") ~> (job = "none" \/ Hung \/ bug)

\* Every slot goes back to the engine: a frame that was received is taken out
\* of it and passed on, and it gets a buffer again, out of memory or not (with
\* the exception for the ar724x above).
Gone == ~link \/ ~up \/ failed \/ bug
SlotComesBack ==
    \A s \in Slots :
        (up /\ link /\ rings /\ ~own[s] /\ (fastReset => ~has[s])) ~> (own[s] \/ Gone)
=============================================================================

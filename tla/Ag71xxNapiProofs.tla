--------------------------- MODULE Ag71xxNapiProofs ---------------------------
(* Ag71xxNapi for every ring size, budget and kind of MAC: types, what the  *)
(* jobs leave behind, the buffers the engine writes into, that driver and    *)
(* engine agree on the ring, and that no frame waits for an interrupt.       *)
EXTENDS Ag71xxNapi, TLAPS

\* Which step belongs to which job.
Shape ==
    /\ job = "none" => step = "none"
    /\ job = "open" => step \in {"init", "adjust"} /\ ~up
    /\ job = "stop" => step \in {"down", "napiwait", "clean"}
    /\ job = "restart" => step \in {"napiwait", "clean", "init", "adjust"}

\* A descriptor the engine owns has a buffer; between dma_reset and hw_enable,
\* and whenever there are no rings, the engine is parked.
Buffers ==
    /\ \A s \in Slots : own[s] => has[s]
    /\ ~rings \/ step \in {"napiwait", "clean"} => fetch = StopDesc

\* Once NAPI is disabled no poll runs and no timer is left until hw_enable; the
\* stop job has the engine off from phy_stop on. What a closed interface still
\* runs is its own open, or a restart that outlived it and waits for ever.
Quiet == ~timer /\ napi = "off" /\ poll = "idle" /\ ~rxe /\ ~rings /\ fetch = StopDesc
Order ==
    /\ poll \notin {"idle", "enable"} => napi = "sched"
    /\ step = "clean" => ~timer /\ napi = "off" /\ poll = "idle"
    /\ job = "stop" /\ step \in {"napiwait", "clean"} => ~rxe /\ ~overflow
    /\ ~up => \/ job = "none" /\ Quiet
              \/ job = "open" /\ step = "init" /\ Quiet
              \/ job = "open" /\ step = "adjust"
              \/ job = "restart" /\ step = "napiwait" /\ napi = "off"
    /\ ~failed /\ (up \/ job = "open") /\ napi = "off" => step \in {"clean", "init"}

NapiInv == TypeOK /\ Shape /\ Buffers /\ Order

LEMMA Index ==
  /\ Size \in Nat \ {0} /\ Wrap \in Nat \ {0} /\ Limit \in Nat \ {0}
  /\ 0 \in Slots /\ 0 \in 0 .. Wrap - 1
  /\ \A n \in Int : n % Size \in Slots /\ n % Wrap \in 0 .. Wrap - 1
<1>1. Size \in Nat \ {0} /\ Limit \in Nat \ {0}
  BY SizeAssumption
<1>2. Wrap \in Nat \ {0} /\ 0 \in 0 .. Wrap - 1
  BY <1>1 DEF Wrap
<1>3. \A n \in Int : n % Wrap \in 0 .. Wrap - 1
  BY <1>2
<1> QED
  BY <1>1, <1>2, <1>3 DEF Slots

\* TypeOK in parts: the ring, the flags, and what says where things are.
RingTypes == own \in [Slots -> BOOLEAN] /\ has \in [Slots -> BOOLEAN]
CounterTypes ==
    /\ curr \in 0 .. Wrap - 1 /\ dirty \in 0 .. Wrap - 1
    /\ fetch \in Slots \union {StopDesc}
    /\ pr \in 0 .. Size /\ done \in 0 .. Limit
FlagTypes ==
    /\ fastReset \in BOOLEAN /\ rxe \in BOOLEAN /\ overflow \in BOOLEAN
    /\ txEvent \in BOOLEAN /\ inten \in BOOLEAN /\ timer \in BOOLEAN
    /\ link \in BOOLEAN /\ up \in BOOLEAN /\ pending \in BOOLEAN
    /\ rings \in BOOLEAN /\ failed \in BOOLEAN /\ bug \in BOOLEAN
PlaceTypes ==
    /\ napi \in {"off", "idle", "sched"}
    /\ poll \in {"idle", "rx", "refilled", "txstatus", "complete", "enable"}
    /\ job \in {"none", "open", "stop", "restart"}
    /\ step \in {"none", "down", "napiwait", "clean", "init", "adjust"}

LEMMA TypeParts == TypeOK <=> RingTypes /\ CounterTypes /\ FlagTypes /\ PlaceTypes
  BY DEF TypeOK, RingTypes, CounterTypes, FlagTypes, PlaceTypes

LEMMA NapiInit == Init => NapiInv
<1> SUFFICES ASSUME Init PROVE NapiInv
  OBVIOUS
<1> USE DEF Init
<1>1. RingTypes
  BY DEF RingTypes
<1>4. CounterTypes
  BY Index DEF CounterTypes
<1>2. FlagTypes
  BY DEF FlagTypes
<1>3. PlaceTypes
  BY DEF PlaceTypes
<1> QED
  BY <1>1, <1>2, <1>3, <1>4, TypeParts DEF NapiInv, Shape, Buffers, Order, Quiet

LEMMA RingTypeStep ==
  ASSUME RingTypes, [Next]_vars
  PROVE  RingTypes'
<1> USE DEF RingTypes, ringVars, hwVars, pollVars, jobVars, SameChip
<1>1. CASE UNCHANGED vars
  BY <1>1 DEF vars, ringVars, hwVars, pollVars, jobVars
<1>2. CASE SameChip /\ EngineReceive
  BY <1>2 DEF EngineReceive
<1>3. CASE SameChip /\ EngineOverflow
  BY <1>3 DEF EngineOverflow
<1>4. CASE SameChip /\ EngineSent
  BY <1>4 DEF EngineSent
<1>5. CASE SameChip /\ Interrupt
  BY <1>5 DEF Interrupt, Scheduled
<1>6. CASE SameChip /\ OomTimer
  BY <1>6 DEF OomTimer, Scheduled, Idle
<1>7. CASE SameChip /\ PollTx
  BY <1>7 DEF PollTx, Idle
<1>8. CASE SameChip /\ PollTake
  BY <1>8 DEF PollTake, Plus, Slot
<1>9. CASE SameChip /\ PollAssert
  BY <1>9 DEF PollAssert
<1>10. CASE SameChip /\ PollRefill
  BY <1>10 DEF PollRefill, Plus, Slot, Used
<1>11. CASE SameChip /\ PollOom
  BY <1>11 DEF PollOom
<1>12. CASE SameChip /\ PollRxStatus
  BY <1>12 DEF PollRxStatus, More
<1>13. CASE SameChip /\ PollTxStatus
  BY <1>13 DEF PollTxStatus, More
<1>14. CASE SameChip /\ PollComplete
  BY <1>14 DEF PollComplete
<1>15. CASE SameChip /\ PollEnable
  BY <1>15 DEF PollEnable
<1>16. CASE SameChip /\ LinkUp
  BY <1>16 DEF LinkUp, MayReport, Idle, HwStart
<1>17. CASE SameChip /\ LinkDown
  BY <1>17 DEF LinkDown, MayReport, Idle
<1>18. CASE SameChip /\ TxTimeout
  BY <1>18 DEF TxTimeout, Idle
<1>19. CASE SameChip /\ OpenBegin
  BY <1>19 DEF OpenBegin, Idle
<1>20. CASE SameChip /\ StopBegin
  BY <1>20 DEF StopBegin, Idle
<1>21. CASE SameChip /\ RestartDisable
  BY <1>21 DEF RestartDisable, Idle, Disable
<1>22. CASE SameChip /\ StopDisable
  BY <1>22 DEF StopDisable, Idle, Disable
<1>23. CASE SameChip /\ NapiDisabled
  BY <1>23 DEF NapiDisabled, Idle
<1>24. CASE SameChip /\ Cleanup
  BY <1>24 DEF Cleanup, Idle
<1>25. CASE SameChip /\ Enable
  BY <1>25 DEF Enable, Idle, RxInit
<1>26. CASE SameChip /\ OpenFails
  BY <1>26 DEF OpenFails, Idle
<1>27. CASE SameChip /\ RestartFails
  <2>1. CASE \E k \in 0 .. Size - 1 : RxInit(k) /\ rings' = TRUE
    BY <2>1 DEF RxInit
  <2>2. CASE UNCHANGED <<ringVars, rings>>
    BY <2>2
  <2> QED
    BY <1>27, <2>1, <2>2 DEF RestartFails
<1>28. CASE SameChip /\ OpenDone
  BY <1>28 DEF OpenDone, Idle
<1>29. CASE SameChip /\ RestartDone
  BY <1>29 DEF RestartDone, Idle, HwStart
<1> QED
  BY <1>1, <1>2, <1>3, <1>4, <1>5, <1>6, <1>7, <1>8, <1>9, <1>10, <1>11, <1>12, <1>13, <1>14, <1>15, <1>16, <1>17, <1>18, <1>19, <1>20, <1>21, <1>22, <1>23, <1>24, <1>25, <1>26, <1>27, <1>28, <1>29 DEF Next, Poll, Job

LEMMA CounterTypeStep ==
  ASSUME CounterTypes, [Next]_vars
  PROVE  CounterTypes'
<1> USE DEF CounterTypes, ringVars, hwVars, pollVars, jobVars, SameChip
<1>1. CASE UNCHANGED vars
  BY <1>1 DEF vars, ringVars, hwVars, pollVars, jobVars
<1>2. CASE SameChip /\ EngineReceive
  <2>1. fetch' = (fetch + 1) % Size /\ fetch \in Slots
    BY <1>2 DEF EngineReceive
  <2>2. pr' = (IF pr < Size THEN pr + 1 ELSE pr) /\ UNCHANGED <<curr, dirty, done>>
    BY <1>2 DEF EngineReceive
  <2>3. fetch' \in Slots
    BY <2>1, Index DEF Slots
  <2> QED
    BY <2>2, <2>3, Index
<1>3. CASE SameChip /\ EngineOverflow
  BY <1>3, Index DEF EngineOverflow
<1>4. CASE SameChip /\ EngineSent
  BY <1>4, Index DEF EngineSent
<1>5. CASE SameChip /\ Interrupt
  BY <1>5, Index DEF Interrupt, Scheduled
<1>6. CASE SameChip /\ OomTimer
  BY <1>6, Index DEF OomTimer, Scheduled, Idle
<1>7. CASE SameChip /\ PollTx
  BY <1>7, Index DEF PollTx, Idle
<1>8. CASE SameChip /\ PollTake
  <2>1. done < Limit /\ done' = done + 1 /\ UNCHANGED <<dirty, fetch>>
    BY <1>8 DEF PollTake
  <2>2. pr' = (IF pr > 0 THEN pr - 1 ELSE 0)
    BY <1>8 DEF PollTake
  <2>3. curr' = (curr + 1) % Wrap /\ curr + 1 \in Int
    BY <1>8 DEF PollTake, Plus
  <2>4. curr' \in 0 .. Wrap - 1
    BY <2>3, Index
  <2> QED
    BY <2>1, <2>2, <2>4, Index
<1>9. CASE SameChip /\ PollAssert
  BY <1>9, Index DEF PollAssert
<1>10. CASE SameChip /\ PollRefill
  BY <1>10, Index DEF PollRefill, Plus, Slot, Used
<1>11. CASE SameChip /\ PollOom
  BY <1>11, Index DEF PollOom
<1>12. CASE SameChip /\ PollRxStatus
  BY <1>12, Index DEF PollRxStatus, More
<1>13. CASE SameChip /\ PollTxStatus
  BY <1>13, Index DEF PollTxStatus, More
<1>14. CASE SameChip /\ PollComplete
  BY <1>14, Index DEF PollComplete
<1>15. CASE SameChip /\ PollEnable
  BY <1>15, Index DEF PollEnable
<1>16. CASE SameChip /\ LinkUp
  <2>1. pr' \in 0 .. Size
    <3>1. pr' = 0 \/ pr' = pr
      BY <1>16 DEF LinkUp, HwStart
    <3> QED
      BY <3>1, Index, SMTT(30)
  <2>2. UNCHANGED <<curr, dirty, fetch, done>>
    BY <1>16 DEF LinkUp
  <2> QED
    BY <2>1, <2>2
<1>17. CASE SameChip /\ LinkDown
  BY <1>17, Index DEF LinkDown, MayReport, Idle
<1>18. CASE SameChip /\ TxTimeout
  BY <1>18, Index DEF TxTimeout, Idle
<1>19. CASE SameChip /\ OpenBegin
  BY <1>19, Index DEF OpenBegin, Idle
<1>20. CASE SameChip /\ StopBegin
  BY <1>20, Index DEF StopBegin, Idle
<1>21. CASE SameChip /\ RestartDisable
  BY <1>21, Index DEF RestartDisable, Idle, Disable
<1>22. CASE SameChip /\ StopDisable
  BY <1>22, Index DEF StopDisable, Idle, Disable
<1>23. CASE SameChip /\ NapiDisabled
  BY <1>23, Index DEF NapiDisabled, Idle
<1>24. CASE SameChip /\ Cleanup
  BY <1>24, Index DEF Cleanup, Idle
<1>25. CASE SameChip /\ Enable
  BY <1>25, Index DEF Enable, Idle, RxInit
<1>26. CASE SameChip /\ OpenFails
  BY <1>26, Index DEF OpenFails, Idle
<1>27. CASE SameChip /\ RestartFails
  BY <1>27, Index DEF RestartFails, Idle, RxInit
<1>28. CASE SameChip /\ OpenDone
  BY <1>28, Index DEF OpenDone, Idle
<1>29. CASE SameChip /\ RestartDone
  <2>1. pr' \in 0 .. Size
    <3>1. pr' = 0 \/ pr' = pr
      BY <1>29 DEF RestartDone, HwStart
    <3> QED
      BY <3>1, Index, SMTT(30)
  <2>2. UNCHANGED <<curr, dirty, fetch, done>>
    BY <1>29 DEF RestartDone
  <2> QED
    BY <2>1, <2>2
<1> QED
  BY <1>1, <1>2, <1>3, <1>4, <1>5, <1>6, <1>7, <1>8, <1>9, <1>10, <1>11, <1>12, <1>13, <1>14, <1>15, <1>16, <1>17, <1>18, <1>19, <1>20, <1>21, <1>22, <1>23, <1>24, <1>25, <1>26, <1>27, <1>28, <1>29 DEF Next, Poll, Job

LEMMA FlagTypeStep ==
  ASSUME FlagTypes, [Next]_vars
  PROVE  FlagTypes'
<1> USE DEF FlagTypes, ringVars, hwVars, pollVars, jobVars, SameChip
<1>1. CASE UNCHANGED vars
  BY <1>1 DEF vars, ringVars, hwVars, pollVars, jobVars
<1>2. CASE SameChip /\ EngineReceive
  BY <1>2 DEF EngineReceive
<1>3. CASE SameChip /\ EngineOverflow
  BY <1>3 DEF EngineOverflow
<1>4. CASE SameChip /\ EngineSent
  BY <1>4 DEF EngineSent
<1>5. CASE SameChip /\ Interrupt
  BY <1>5 DEF Interrupt, Scheduled
<1>6. CASE SameChip /\ OomTimer
  BY <1>6 DEF OomTimer, Scheduled, Idle
<1>7. CASE SameChip /\ PollTx
  BY <1>7, ZenonT(60) DEF PollTx, Idle
<1>8. CASE SameChip /\ PollTake
  BY <1>8 DEF PollTake, Plus, Slot
<1>9. CASE SameChip /\ PollAssert
  BY <1>9 DEF PollAssert
<1>10. CASE SameChip /\ PollRefill
  BY <1>10 DEF PollRefill, Plus, Slot, Used
<1>11. CASE SameChip /\ PollOom
  BY <1>11 DEF PollOom
<1>12. CASE SameChip /\ PollRxStatus
  BY <1>12 DEF PollRxStatus, More
<1>13. CASE SameChip /\ PollTxStatus
  BY <1>13 DEF PollTxStatus, More
<1>14. CASE SameChip /\ PollComplete
  BY <1>14 DEF PollComplete
<1>15. CASE SameChip /\ PollEnable
  BY <1>15 DEF PollEnable
<1>16. CASE SameChip /\ LinkUp
  BY <1>16 DEF LinkUp, MayReport, Idle, HwStart
<1>17. CASE SameChip /\ LinkDown
  BY <1>17 DEF LinkDown, MayReport, Idle
<1>18. CASE SameChip /\ TxTimeout
  BY <1>18 DEF TxTimeout, Idle
<1>19. CASE SameChip /\ OpenBegin
  BY <1>19 DEF OpenBegin, Idle
<1>20. CASE SameChip /\ StopBegin
  BY <1>20 DEF StopBegin, Idle
<1>21. CASE SameChip /\ RestartDisable
  BY <1>21 DEF RestartDisable, Idle, Disable
<1>22. CASE SameChip /\ StopDisable
  BY <1>22 DEF StopDisable, Idle, Disable
<1>23. CASE SameChip /\ NapiDisabled
  BY <1>23 DEF NapiDisabled, Idle
<1>24. CASE SameChip /\ Cleanup
  BY <1>24 DEF Cleanup, Idle
<1>25. CASE SameChip /\ Enable
  BY <1>25 DEF Enable, Idle, RxInit
<1>26. CASE SameChip /\ OpenFails
  BY <1>26 DEF OpenFails, Idle
<1>27. CASE SameChip /\ RestartFails
  BY <1>27 DEF RestartFails, Idle, RxInit
<1>28. CASE SameChip /\ OpenDone
  BY <1>28 DEF OpenDone, Idle
<1>29. CASE SameChip /\ RestartDone
  BY <1>29 DEF RestartDone, Idle, HwStart
<1> QED
  BY <1>1, <1>2, <1>3, <1>4, <1>5, <1>6, <1>7, <1>8, <1>9, <1>10, <1>11, <1>12, <1>13, <1>14, <1>15, <1>16, <1>17, <1>18, <1>19, <1>20, <1>21, <1>22, <1>23, <1>24, <1>25, <1>26, <1>27, <1>28, <1>29 DEF Next, Poll, Job

LEMMA PlaceTypeStep ==
  ASSUME PlaceTypes, [Next]_vars
  PROVE  PlaceTypes'
<1> USE DEF PlaceTypes, ringVars, hwVars, pollVars, jobVars, SameChip
<1>1. CASE UNCHANGED vars
  BY <1>1 DEF vars, ringVars, hwVars, pollVars, jobVars
<1>2. CASE SameChip /\ EngineReceive
  BY <1>2 DEF EngineReceive
<1>3. CASE SameChip /\ EngineOverflow
  BY <1>3 DEF EngineOverflow
<1>4. CASE SameChip /\ EngineSent
  BY <1>4 DEF EngineSent
<1>5. CASE SameChip /\ Interrupt
  BY <1>5 DEF Interrupt, Scheduled
<1>6. CASE SameChip /\ OomTimer
  BY <1>6 DEF OomTimer, Scheduled, Idle
<1>7. CASE SameChip /\ PollTx
  BY <1>7 DEF PollTx, Idle
<1>8. CASE SameChip /\ PollTake
  BY <1>8 DEF PollTake, Plus, Slot
<1>9. CASE SameChip /\ PollAssert
  BY <1>9 DEF PollAssert
<1>10. CASE SameChip /\ PollRefill
  BY <1>10 DEF PollRefill, Plus, Slot, Used
<1>11. CASE SameChip /\ PollOom
  BY <1>11 DEF PollOom
<1>12. CASE SameChip /\ PollRxStatus
  BY <1>12 DEF PollRxStatus, More
<1>13. CASE SameChip /\ PollTxStatus
  BY <1>13 DEF PollTxStatus, More
<1>14. CASE SameChip /\ PollComplete
  BY <1>14 DEF PollComplete
<1>15. CASE SameChip /\ PollEnable
  BY <1>15 DEF PollEnable
<1>16. CASE SameChip /\ LinkUp
  BY <1>16 DEF LinkUp, MayReport, Idle, HwStart
<1>17. CASE SameChip /\ LinkDown
  BY <1>17 DEF LinkDown, MayReport, Idle
<1>18. CASE SameChip /\ TxTimeout
  BY <1>18 DEF TxTimeout, Idle
<1>19. CASE SameChip /\ OpenBegin
  BY <1>19 DEF OpenBegin, Idle
<1>20. CASE SameChip /\ StopBegin
  BY <1>20 DEF StopBegin, Idle
<1>21. CASE SameChip /\ RestartDisable
  BY <1>21 DEF RestartDisable, Idle, Disable
<1>22. CASE SameChip /\ StopDisable
  BY <1>22 DEF StopDisable, Idle, Disable
<1>23. CASE SameChip /\ NapiDisabled
  BY <1>23 DEF NapiDisabled, Idle
<1>24. CASE SameChip /\ Cleanup
  BY <1>24 DEF Cleanup, Idle
<1>25. CASE SameChip /\ Enable
  BY <1>25 DEF Enable, Idle, RxInit
<1>26. CASE SameChip /\ OpenFails
  BY <1>26 DEF OpenFails, Idle
<1>27. CASE SameChip /\ RestartFails
  BY <1>27 DEF RestartFails, Idle, RxInit
<1>28. CASE SameChip /\ OpenDone
  BY <1>28 DEF OpenDone, Idle
<1>29. CASE SameChip /\ RestartDone
  BY <1>29 DEF RestartDone, Idle, HwStart
<1> QED
  BY <1>1, <1>2, <1>3, <1>4, <1>5, <1>6, <1>7, <1>8, <1>9, <1>10, <1>11, <1>12, <1>13, <1>14, <1>15, <1>16, <1>17, <1>18, <1>19, <1>20, <1>21, <1>22, <1>23, <1>24, <1>25, <1>26, <1>27, <1>28, <1>29 DEF Next, Poll, Job

LEMMA ShapeStep ==
  ASSUME TypeOK, Shape, [Next]_vars
  PROVE  Shape'
<1> USE DEF Shape, ringVars, hwVars, pollVars, jobVars, SameChip
<1>1. CASE UNCHANGED vars
  BY <1>1 DEF vars, ringVars, hwVars, pollVars, jobVars
<1>2. CASE SameChip /\ EngineReceive
  BY <1>2 DEF EngineReceive
<1>3. CASE SameChip /\ EngineOverflow
  BY <1>3 DEF EngineOverflow
<1>4. CASE SameChip /\ EngineSent
  BY <1>4 DEF EngineSent
<1>5. CASE SameChip /\ Interrupt
  BY <1>5 DEF Interrupt, Scheduled
<1>6. CASE SameChip /\ OomTimer
  BY <1>6 DEF OomTimer, Scheduled, Idle
<1>7. CASE SameChip /\ PollTx
  BY <1>7 DEF PollTx, Idle
<1>8. CASE SameChip /\ PollTake
  BY <1>8 DEF PollTake, Plus, Slot
<1>9. CASE SameChip /\ PollAssert
  BY <1>9 DEF PollAssert
<1>10. CASE SameChip /\ PollRefill
  BY <1>10 DEF PollRefill, Plus, Slot, Used
<1>11. CASE SameChip /\ PollOom
  BY <1>11 DEF PollOom
<1>12. CASE SameChip /\ PollRxStatus
  BY <1>12 DEF PollRxStatus, More
<1>13. CASE SameChip /\ PollTxStatus
  BY <1>13 DEF PollTxStatus, More
<1>14. CASE SameChip /\ PollComplete
  BY <1>14 DEF PollComplete
<1>15. CASE SameChip /\ PollEnable
  BY <1>15 DEF PollEnable
<1>16. CASE SameChip /\ LinkUp
  BY <1>16 DEF LinkUp, MayReport, Idle, HwStart
<1>17. CASE SameChip /\ LinkDown
  BY <1>17 DEF LinkDown, MayReport, Idle
<1>18. CASE SameChip /\ TxTimeout
  BY <1>18 DEF TxTimeout, Idle
<1>19. CASE SameChip /\ OpenBegin
  BY <1>19 DEF OpenBegin, Idle
<1>20. CASE SameChip /\ StopBegin
  BY <1>20 DEF StopBegin, Idle
<1>21. CASE SameChip /\ RestartDisable
  BY <1>21 DEF RestartDisable, Idle, Disable
<1>22. CASE SameChip /\ StopDisable
  BY <1>22 DEF StopDisable, Idle, Disable
<1>23. CASE SameChip /\ NapiDisabled
  BY <1>23 DEF NapiDisabled, Idle
<1>24. CASE SameChip /\ Cleanup
  BY <1>24 DEF Cleanup, Idle
<1>25. CASE SameChip /\ Enable
  BY <1>25 DEF Enable, Idle, RxInit
<1>26. CASE SameChip /\ OpenFails
  BY <1>26 DEF OpenFails, Idle
<1>27. CASE SameChip /\ RestartFails
  BY <1>27 DEF RestartFails, Idle, RxInit
<1>28. CASE SameChip /\ OpenDone
  BY <1>28 DEF OpenDone, Idle
<1>29. CASE SameChip /\ RestartDone
  BY <1>29 DEF RestartDone, Idle, HwStart
<1> QED
  BY <1>1, <1>2, <1>3, <1>4, <1>5, <1>6, <1>7, <1>8, <1>9, <1>10, <1>11, <1>12, <1>13, <1>14, <1>15, <1>16, <1>17, <1>18, <1>19, <1>20, <1>21, <1>22, <1>23, <1>24, <1>25, <1>26, <1>27, <1>28, <1>29 DEF Next, Poll, Job

LEMMA BufferStep ==
  ASSUME TypeOK, Shape, Buffers, [Next]_vars
  PROVE  Buffers'
<1> USE DEF Shape, Buffers, ringVars, hwVars, pollVars, jobVars, SameChip
<1>1. CASE UNCHANGED vars
  BY <1>1 DEF vars, ringVars, hwVars, pollVars, jobVars
<1>2. CASE SameChip /\ EngineReceive
  BY <1>2 DEF EngineReceive
<1>3. CASE SameChip /\ EngineOverflow
  BY <1>3 DEF EngineOverflow
<1>4. CASE SameChip /\ EngineSent
  BY <1>4 DEF EngineSent
<1>5. CASE SameChip /\ Interrupt
  BY <1>5 DEF Interrupt, Scheduled
<1>6. CASE SameChip /\ OomTimer
  BY <1>6 DEF OomTimer, Scheduled, Idle
<1>7. CASE SameChip /\ PollTx
  BY <1>7 DEF PollTx, Idle
<1>8. CASE SameChip /\ PollTake
  BY <1>8 DEF PollTake, Plus, Slot
<1>9. CASE SameChip /\ PollAssert
  BY <1>9 DEF PollAssert
<1>10. CASE SameChip /\ PollRefill
  BY <1>10 DEF PollRefill, Plus, Slot, Used
<1>11. CASE SameChip /\ PollOom
  BY <1>11 DEF PollOom
<1>12. CASE SameChip /\ PollRxStatus
  BY <1>12 DEF PollRxStatus, More
<1>13. CASE SameChip /\ PollTxStatus
  BY <1>13 DEF PollTxStatus, More
<1>14. CASE SameChip /\ PollComplete
  BY <1>14 DEF PollComplete
<1>15. CASE SameChip /\ PollEnable
  BY <1>15 DEF PollEnable
<1>16. CASE SameChip /\ LinkUp
  BY <1>16 DEF LinkUp, MayReport, Idle, HwStart
<1>17. CASE SameChip /\ LinkDown
  BY <1>17 DEF LinkDown, MayReport, Idle
<1>18. CASE SameChip /\ TxTimeout
  BY <1>18 DEF TxTimeout, Idle
<1>19. CASE SameChip /\ OpenBegin
  BY <1>19 DEF OpenBegin, Idle
<1>20. CASE SameChip /\ StopBegin
  BY <1>20 DEF StopBegin, Idle
<1>21. CASE SameChip /\ RestartDisable
  BY <1>21 DEF RestartDisable, Idle, Disable
<1>22. CASE SameChip /\ StopDisable
  BY <1>22 DEF StopDisable, Idle, Disable
<1>23. CASE SameChip /\ NapiDisabled
  BY <1>23 DEF NapiDisabled, Idle
<1>24. CASE SameChip /\ Cleanup
  BY <1>24 DEF Cleanup, Idle
<1>25. CASE SameChip /\ Enable
  BY <1>25 DEF Enable, Idle, RxInit
<1>26. CASE SameChip /\ OpenFails
  BY <1>26 DEF OpenFails, Idle
<1>27. CASE SameChip /\ RestartFails
  BY <1>27 DEF RestartFails, Idle, RxInit
<1>28. CASE SameChip /\ OpenDone
  BY <1>28 DEF OpenDone, Idle
<1>29. CASE SameChip /\ RestartDone
  BY <1>29 DEF RestartDone, Idle, HwStart
<1> QED
  BY <1>1, <1>2, <1>3, <1>4, <1>5, <1>6, <1>7, <1>8, <1>9, <1>10, <1>11, <1>12, <1>13, <1>14, <1>15, <1>16, <1>17, <1>18, <1>19, <1>20, <1>21, <1>22, <1>23, <1>24, <1>25, <1>26, <1>27, <1>28, <1>29 DEF Next, Poll, Job

LEMMA OrderStep ==
  ASSUME TypeOK, Shape, Buffers, Order, [Next]_vars
  PROVE  Order'
<1> USE DEF Shape, Buffers, Order, Quiet, ringVars, hwVars, pollVars, jobVars, SameChip
<1>1. CASE UNCHANGED vars
  BY <1>1 DEF vars, ringVars, hwVars, pollVars, jobVars
<1>2. CASE SameChip /\ EngineReceive
  BY <1>2 DEF EngineReceive
<1>3. CASE SameChip /\ EngineOverflow
  BY <1>3 DEF EngineOverflow
<1>4. CASE SameChip /\ EngineSent
  BY <1>4 DEF EngineSent
<1>5. CASE SameChip /\ Interrupt
  BY <1>5 DEF Interrupt, Scheduled
<1>6. CASE SameChip /\ OomTimer
  BY <1>6 DEF OomTimer, Scheduled, Idle
<1>7. CASE SameChip /\ PollTx
  BY <1>7 DEF PollTx, Idle
<1>8. CASE SameChip /\ PollTake
  BY <1>8 DEF PollTake, Plus, Slot
<1>9. CASE SameChip /\ PollAssert
  BY <1>9 DEF PollAssert
<1>10. CASE SameChip /\ PollRefill
  BY <1>10 DEF PollRefill, Plus, Slot, Used
<1>11. CASE SameChip /\ PollOom
  BY <1>11 DEF PollOom
<1>12. CASE SameChip /\ PollRxStatus
  BY <1>12 DEF PollRxStatus, More
<1>13. CASE SameChip /\ PollTxStatus
  BY <1>13 DEF PollTxStatus, More
<1>14. CASE SameChip /\ PollComplete
  BY <1>14 DEF PollComplete
<1>15. CASE SameChip /\ PollEnable
  BY <1>15 DEF PollEnable
<1>16. CASE SameChip /\ LinkUp
  BY <1>16 DEF LinkUp, MayReport, Idle, HwStart
<1>17. CASE SameChip /\ LinkDown
  BY <1>17 DEF LinkDown, MayReport, Idle
<1>18. CASE SameChip /\ TxTimeout
  BY <1>18 DEF TxTimeout, Idle
<1>19. CASE SameChip /\ OpenBegin
  BY <1>19 DEF OpenBegin, Idle
<1>20. CASE SameChip /\ StopBegin
  BY <1>20 DEF StopBegin, Idle
<1>21. CASE SameChip /\ RestartDisable
  BY <1>21 DEF RestartDisable, Idle, Disable
<1>22. CASE SameChip /\ StopDisable
  BY <1>22 DEF StopDisable, Idle, Disable
<1>23. CASE SameChip /\ NapiDisabled
  BY <1>23 DEF NapiDisabled, Idle
<1>24. CASE SameChip /\ Cleanup
  BY <1>24 DEF Cleanup, Idle
<1>25. CASE SameChip /\ Enable
  BY <1>25 DEF Enable, Idle, RxInit
<1>26. CASE SameChip /\ OpenFails
  BY <1>26 DEF OpenFails, Idle
<1>27. CASE SameChip /\ RestartFails
  BY <1>27 DEF RestartFails, Idle, RxInit
<1>28. CASE SameChip /\ OpenDone
  BY <1>28 DEF OpenDone, Idle
<1>29. CASE SameChip /\ RestartDone
  BY <1>29 DEF RestartDone, Idle, HwStart
<1> QED
  BY <1>1, <1>2, <1>3, <1>4, <1>5, <1>6, <1>7, <1>8, <1>9, <1>10, <1>11, <1>12, <1>13, <1>14, <1>15, <1>16, <1>17, <1>18, <1>19, <1>20, <1>21, <1>22, <1>23, <1>24, <1>25, <1>26, <1>27, <1>28, <1>29 DEF Next, Poll, Job

LEMMA NapiInvariant == Spec => []NapiInv
<1>1. NapiInv /\ [Next]_vars => NapiInv'
  <2> SUFFICES ASSUME NapiInv, [Next]_vars PROVE NapiInv'
    OBVIOUS
  <2>1. RingTypes' /\ CounterTypes' /\ FlagTypes' /\ PlaceTypes'
    BY TypeParts, RingTypeStep, CounterTypeStep, FlagTypeStep, PlaceTypeStep DEF NapiInv
  <2>2. TypeOK'
    BY <2>1 DEF TypeOK, RingTypes, CounterTypes, FlagTypes, PlaceTypes
  <2> QED
    BY <2>2, ShapeStep, BufferStep, OrderStep DEF NapiInv
<1> QED
  BY NapiInit, <1>1, PTL DEF Spec

\* The engine never writes into a buffer that was passed to the stack or
\* freed, whatever the size of the ring and wherever memory runs out.
THEOREM EngineAlwaysHasBuffer == Spec => []EngineHasBuffer
<1>1. NapiInv => EngineHasBuffer
  BY DEF NapiInv, Buffers, EngineHasBuffer
<1> QED
  BY NapiInvariant, <1>1, PTL

\* Open, stop and restart leave every variable in its type and a closed
\* interface quiet, and napi_disable waits for ever only after a restart that
\* could not allocate or in one that outlived the interface.
THEOREM JobsAlwaysLeaveOrder == Spec => []JobsLeaveOrder
<1>1. NapiInv => ClosedIsQuiet
  BY DEF NapiInv, Shape, Order, Quiet, ClosedIsQuiet
<1>2. NapiInv => HangHasCause
  BY DEF NapiInv, Shape, Order, HangHasCause, Hung
<1>3. NapiInv => JobsLeaveOrder
  BY <1>1, <1>2 DEF NapiInv, JobsLeaveOrder
<1> QED
  BY NapiInvariant, <1>3, PTL

----------------------------------------------------------------------------
(* Interrupts and frames.                                                   *)

\* A device that is masked while its link is up has a reason, and an interface
\* that is open and whose last restart went well has its rings, with the engine
\* on them.
Awake ==
    /\ ~up \/ job = "stop" => ~link
    /\ step = "init" => fetch = StopDesc
    /\ ~failed /\ (step = "adjust" \/ (up /\ job = "none")) => rings /\ fetch # StopDesc
    /\ MaskedHasReason

LEMMA AwakeStep ==
  ASSUME NapiInv, Awake, [Next]_vars
  PROVE  Awake'
<1>0. /\ \A n \in Int : n % Size # StopDesc
      /\ 0 # StopDesc /\ napi \in {"off", "idle", "sched"} /\ (fetch # StopDesc => fetch \in Slots)
  BY Index, StopAssumption DEF NapiInv, TypeOK
<1> USE DEF NapiInv, Shape, Order, Quiet, Awake, MaskedHasReason, ringVars, hwVars, pollVars, jobVars, SameChip
<1>1. CASE UNCHANGED vars
  BY <1>1 DEF vars, ringVars, hwVars, pollVars, jobVars
<1>2. CASE SameChip /\ EngineReceive
  <2>1. fetch \in Slots /\ fetch' = (fetch + 1) % Size /\ fetch # StopDesc
    BY <1>2, <1>0 DEF EngineReceive
  <2>2. fetch' # StopDesc
    BY <2>1, <1>0 DEF Slots
  <2> QED
    BY <1>2, <2>1, <2>2 DEF EngineReceive
<1>3. CASE SameChip /\ EngineOverflow
  BY <1>3 DEF EngineOverflow
<1>4. CASE SameChip /\ EngineSent
  BY <1>4 DEF EngineSent
<1>5. CASE SameChip /\ Interrupt
  BY <1>5, <1>0 DEF Interrupt, Scheduled
<1>6. CASE SameChip /\ OomTimer
  BY <1>6, <1>0 DEF OomTimer, Scheduled, Idle
<1>7. CASE SameChip /\ PollTx
  BY <1>7 DEF PollTx, Idle
<1>8. CASE SameChip /\ PollTake
  BY <1>8 DEF PollTake, Plus, Slot
<1>9. CASE SameChip /\ PollAssert
  BY <1>9 DEF PollAssert
<1>10. CASE SameChip /\ PollRefill
  BY <1>10 DEF PollRefill, Plus, Slot, Used
<1>11. CASE SameChip /\ PollOom
  BY <1>11 DEF PollOom
<1>12. CASE SameChip /\ PollRxStatus
  BY <1>12 DEF PollRxStatus, More
<1>13. CASE SameChip /\ PollTxStatus
  BY <1>13 DEF PollTxStatus, More
<1>14. CASE SameChip /\ PollComplete
  BY <1>14 DEF PollComplete
<1>15. CASE SameChip /\ PollEnable
  BY <1>15 DEF PollEnable
<1>16. CASE SameChip /\ LinkUp
  BY <1>16 DEF LinkUp, MayReport, Idle, HwStart
<1>17. CASE SameChip /\ LinkDown
  BY <1>17 DEF LinkDown, MayReport, Idle
<1>18. CASE SameChip /\ TxTimeout
  BY <1>18 DEF TxTimeout, Idle
<1>19. CASE SameChip /\ OpenBegin
  BY <1>19 DEF OpenBegin, Idle
<1>20. CASE SameChip /\ StopBegin
  BY <1>20 DEF StopBegin, Idle
<1>21. CASE SameChip /\ RestartDisable
  BY <1>21 DEF RestartDisable, Idle, Disable
<1>22. CASE SameChip /\ StopDisable
  BY <1>22 DEF StopDisable, Idle, Disable
<1>23. CASE SameChip /\ NapiDisabled
  BY <1>23 DEF NapiDisabled, Idle
<1>24. CASE SameChip /\ Cleanup
  BY <1>24 DEF Cleanup, Idle, Buffers
<1>25. CASE SameChip /\ Enable
  BY <1>25, <1>0 DEF Enable, Idle, RxInit
<1>26. CASE SameChip /\ OpenFails
  BY <1>26 DEF OpenFails, Idle
<1>27. CASE SameChip /\ RestartFails
  BY <1>27 DEF RestartFails, Idle, RxInit
<1>28. CASE SameChip /\ OpenDone
  BY <1>28 DEF OpenDone, Idle
<1>29. CASE SameChip /\ RestartDone
  BY <1>29 DEF RestartDone, Idle, HwStart
<1> QED
  BY <1>1, <1>2, <1>3, <1>4, <1>5, <1>6, <1>7, <1>8, <1>9, <1>10, <1>11, <1>12, <1>13, <1>14, <1>15, <1>16, <1>17, <1>18, <1>19, <1>20, <1>21, <1>22, <1>23, <1>24, <1>25, <1>26, <1>27, <1>28, <1>29 DEF Next, Poll, Job


\* From dirty on come n descriptors that were taken, r that hold a frame, and
\* then those that are the engine's, which goes on behind the frames.
Ring(n, r) ==
    /\ n + r <= Size /\ fetch = Slot(dirty + (n + r))
    /\ \A k \in 0 .. n - 1 : ~own[Slot(dirty + k)]
    /\ \A k \in n .. n + r - 1 : ~own[Slot(dirty + k)] /\ has[Slot(dirty + k)]
    /\ \A k \in n + r .. Size - 1 : own[Slot(dirty + k)]

\* The driver's counters say how many were taken; the counter of the MAC counts
\* the frames that are left, unless a fast reset has cleared it.
Aligned ==
    rings /\ fetch # StopDesc =>
        \E n, r \in 0 .. Size :
            /\ curr = (dirty + n) % Wrap /\ Ring(n, r)
            /\ ~fastReset => r <= pr


\* Where the counters stay, they still point at the same descriptors.
LEMMA UsedTells ==
    ASSUME dirty \in 0 .. Wrap - 1, NEW n \in 0 .. Size, curr = (dirty + n) % Wrap
    PROVE  /\ Used = n
           /\ \A k \in 0 .. Size : Slot(curr + k) = Slot(dirty + (n + k))
BY SizeAssumption DEF Used, Slot, Wrap

LEMMA SlotsDiffer ==
    ASSUME NEW d \in 0 .. Wrap - 1, NEW a \in 0 .. Size - 1, NEW b \in 0 .. Size - 1, a # b
    PROVE  Slot(d + a) # Slot(d + b)
BY SizeAssumption DEF Slot, Wrap

LEMMA SlotAround ==
    ASSUME NEW d \in 0 .. Wrap - 1, NEW a \in 0 .. Size
    PROVE  /\ Slot(d + a) \in Slots
           /\ Slot(d + Size) = Slot(d + 0)
           /\ (Slot(d + a) + 1) % Size = Slot(d + (a + 1))
BY SizeAssumption DEF Slot, Slots, Wrap

LEMMA SameRing ==
    ASSUME Aligned, UNCHANGED <<fastReset, own, has, curr, dirty, fetch, rings>>,
           pr' = pr \/ fastReset
    PROVE  Aligned'
<1> SUFFICES ASSUME rings, fetch # StopDesc
             PROVE  \E n, r \in 0 .. Size :
                      /\ curr' = (dirty' + n) % Wrap /\ Ring(n, r)'
                      /\ ~fastReset' => r <= pr'
  BY DEF Aligned
<1>1. PICK n \in 0 .. Size, r \in 0 .. Size :
         curr = (dirty + n) % Wrap /\ Ring(n, r) /\ (~fastReset => r <= pr)
  BY DEF Aligned
<1>2. Ring(n, r)'
  BY <1>1 DEF Ring, Slot
<1> QED
  BY <1>1, <1>2

LEMMA ReceiveAligned ==
    ASSUME NapiInv, Aligned, SameChip, EngineReceive
    PROVE  Aligned'
<1> SUFFICES ASSUME rings
             PROVE  \E n, r \in 0 .. Size :
                      /\ curr' = (dirty' + n) % Wrap /\ Ring(n, r)'
                      /\ ~fastReset' => r <= pr'
  BY DEF Aligned, EngineReceive, jobVars
<1>0. /\ Size \in Nat /\ Size > 0 /\ dirty \in Nat /\ pr \in 0 .. Size
      /\ own \in [Slots -> BOOLEAN] /\ dirty \in 0 .. Wrap - 1
  BY SizeAssumption DEF NapiInv, TypeOK
<1>1. /\ own[fetch] /\ own' = [own EXCEPT ![fetch] = FALSE] /\ fetch' = (fetch + 1) % Size
      /\ pr' = (IF pr < Size THEN pr + 1 ELSE pr) /\ has' = has /\ curr' = curr
      /\ dirty' = dirty /\ fastReset' = fastReset /\ fetch \in Slots /\ has[fetch]
  BY DEF EngineReceive, SameChip, NapiInv, TypeOK, Buffers
<1>2. PICK n \in 0 .. Size, r \in 0 .. Size :
         curr = (dirty + n) % Wrap /\ Ring(n, r) /\ (~fastReset => r <= pr)
  BY DEF Aligned, EngineReceive
<1>3. fetch = Slot(dirty + (n + r))
  BY <1>2 DEF Ring
<1>4. n + r < Size
  <2> SUFFICES ASSUME n + r = Size
               PROVE  FALSE
    BY <1>0, <1>2 DEF Ring
  <2>1. fetch = Slot(dirty + 0)
    BY <1>0, <1>3, SlotAround
  <2>2. ~own[Slot(dirty + 0)]
    <3>1. 0 \in 0 .. n - 1 \/ 0 \in n .. n + r - 1
      BY <1>0
    <3> QED
      BY <1>2, <3>1 DEF Ring
  <2> QED
    BY <1>1, <2>1, <2>2
<1>5. ASSUME NEW k \in 0 .. Size - 1, k # n + r
      PROVE  own'[Slot(dirty + k)] = own[Slot(dirty + k)]
  <2>1. n + r \in 0 .. Size - 1
    BY <1>0, <1>4
  <2>2. Slot(dirty + k) # fetch
    BY <1>0, <1>3, <1>5, <2>1, SlotsDiffer
  <2>3. Slot(dirty + k) \in Slots
    BY <1>0, SlotAround
  <2> QED
    BY <1>0, <1>1, <2>2, <2>3
<1>6. own'[Slot(dirty + (n + r))] = FALSE
  BY <1>0, <1>1, <1>3
<1>7. fetch' = Slot(dirty + (n + (r + 1)))
  <2>1. n + r \in 0 .. Size /\ (n + r) + 1 = n + (r + 1)
    BY <1>0, <1>4
  <2>2. (Slot(dirty + (n + r)) + 1) % Size = Slot(dirty + ((n + r) + 1))
    BY <1>0, <2>1, SlotAround
  <2> QED
    BY <1>1, <1>3, <2>1, <2>2
<1>8. r + 1 \in 0 .. Size /\ n + (r + 1) <= Size
  BY <1>0, <1>4
<1>9. \A k \in 0 .. n - 1 : ~own'[Slot(dirty + k)]
  <2>1. \A k \in 0 .. n - 1 : k \in 0 .. Size - 1 /\ k # n + r
    BY <1>0
  <2> QED
    BY <1>2, <1>5, <2>1 DEF Ring
<1>10. \A k \in n .. n + (r + 1) - 1 : ~own'[Slot(dirty + k)] /\ has'[Slot(dirty + k)]
  <2> SUFFICES ASSUME NEW k \in n .. n + (r + 1) - 1
               PROVE  ~own'[Slot(dirty + k)] /\ has'[Slot(dirty + k)]
    OBVIOUS
  <2>1. CASE k = n + r
    BY <1>1, <1>3, <1>6, <2>1
  <2>2. CASE k # n + r
    <3>1. k \in n .. n + r - 1 /\ k \in 0 .. Size - 1
      BY <1>0, <1>4, <2>2
    <3> QED
      BY <1>1, <1>2, <1>5, <2>2, <3>1 DEF Ring
  <2> QED
    BY <2>1, <2>2
<1>11. \A k \in n + (r + 1) .. Size - 1 : own'[Slot(dirty + k)]
  <2>1. \A k \in n + (r + 1) .. Size - 1 :
           k \in n + r .. Size - 1 /\ k \in 0 .. Size - 1 /\ k # n + r
    BY <1>0
  <2> QED
    BY <1>2, <1>5, <2>1 DEF Ring
<1>12. Ring(n, r + 1)'
  BY <1>1, <1>7, <1>8, <1>9, <1>10, <1>11 DEF Ring, Slot
<1>13. ~fastReset' => r + 1 <= pr'
  BY <1>0, <1>1, <1>2, <1>8
<1> QED
  BY <1>1, <1>2, <1>8, <1>12, <1>13

LEMMA TakeAligned ==
    ASSUME NapiInv, Aligned, SameChip, PollTake
    PROVE  Aligned'
<1> SUFFICES ASSUME rings, fetch # StopDesc
             PROVE  \E n, r \in 0 .. Size :
                      /\ curr' = (dirty' + n) % Wrap /\ Ring(n, r)'
                      /\ ~fastReset' => r <= pr'
  BY DEF Aligned, PollTake, jobVars
<1>0. /\ Size \in Nat /\ Size > 0 /\ dirty \in Nat /\ pr \in 0 .. Size /\ Wrap = 2 * Size
      /\ has \in [Slots -> BOOLEAN] /\ dirty \in 0 .. Wrap - 1 /\ curr \in 0 .. Wrap - 1
  BY SizeAssumption DEF NapiInv, TypeOK, Wrap
<1>1. /\ ~own[Slot(curr)] /\ Used # Size /\ pr' = (IF pr > 0 THEN pr - 1 ELSE 0)
      /\ has' = [has EXCEPT ![Slot(curr)] = FALSE] /\ curr' = (curr + 1) % Wrap
      /\ own' = own /\ dirty' = dirty /\ fetch' = fetch /\ fastReset' = fastReset
  BY DEF PollTake, SameChip, Plus
<1>2. PICK n \in 0 .. Size, r \in 0 .. Size :
         curr = (dirty + n) % Wrap /\ Ring(n, r) /\ (~fastReset => r <= pr)
  BY DEF Aligned
<1>3. Used = n /\ Slot(curr) = Slot(dirty + n)
  <2>1. Used = n /\ \A k \in 0 .. Size : Slot(curr + k) = Slot(dirty + (n + k))
    BY <1>0, <1>2, UsedTells
  <2>2. 0 \in 0 .. Size /\ curr + 0 = curr /\ n + 0 = n
    BY <1>0
  <2> QED
    BY <2>1, <2>2
<1>4. n < Size /\ n \in 0 .. Size - 1
  BY <1>0, <1>1, <1>3
<1>5. r > 0
  <2> SUFFICES ASSUME r = 0
               PROVE  own[Slot(dirty + n)]
    BY <1>0, <1>1, <1>3
  <2>1. n \in n + r .. Size - 1
    BY <1>0, <1>4
  <2> QED
    BY <1>2, <2>1 DEF Ring
<1>6. curr' = (dirty + (n + 1)) % Wrap
  <2>1. (((dirty + n) % Wrap) + 1) % Wrap = (dirty + (n + 1)) % Wrap
    BY <1>0, <1>4
  <2> QED
    BY <1>1, <1>2, <2>1
<1>7. ASSUME NEW k \in 0 .. Size - 1, k # n
      PROVE  has'[Slot(dirty + k)] = has[Slot(dirty + k)]
  <2>1. Slot(dirty + k) # Slot(dirty + n)
    BY <1>0, <1>4, <1>7, SlotsDiffer
  <2>2. Slot(dirty + k) \in Slots
    <3>1. k \in 0 .. Size
      BY <1>0
    <3> QED
      BY <1>0, <3>1, SlotAround
  <2> QED
    BY <1>0, <1>1, <1>3, <2>1, <2>2
<1>8. n + 1 \in 0 .. Size /\ r - 1 \in 0 .. Size /\ (n + 1) + (r - 1) = n + r
  BY <1>0, <1>4, <1>5
<1>9. \A k \in 0 .. (n + 1) - 1 : ~own[Slot(dirty + k)]
  <2>1. \A k \in 0 .. (n + 1) - 1 : k \in 0 .. n - 1 \/ k = n
    BY <1>0
  <2> QED
    BY <1>1, <1>2, <1>3, <2>1 DEF Ring
<1>10. \A k \in n + 1 .. (n + 1) + (r - 1) - 1 : ~own[Slot(dirty + k)] /\ has'[Slot(dirty + k)]
  <2>1. \A k \in n + 1 .. (n + 1) + (r - 1) - 1 :
           k \in n .. n + r - 1 /\ k \in 0 .. Size - 1 /\ k # n
    <3>1. n + r <= Size
      BY <1>2 DEF Ring
    <3> QED
      BY <1>0, <1>8, <3>1
  <2> QED
    BY <1>2, <1>7, <2>1 DEF Ring
<1>11. Ring(n + 1, r - 1)'
  BY <1>1, <1>2, <1>8, <1>9, <1>10 DEF Ring, Slot
<1>12. ~fastReset' => r - 1 <= pr'
  BY <1>0, <1>1, <1>2, <1>5
<1> QED
  BY <1>1, <1>6, <1>8, <1>11, <1>12

\* What a refill does to the numbers.
LEMMA RefillMoves ==
    ASSUME dirty \in 0 .. Wrap - 1, NEW n \in 0 .. Size, NEW k \in 0 .. n
    PROVE  /\ (dirty + n) % Wrap = (Plus(dirty, k) + (n - k)) % Wrap
           /\ \A j \in 0 .. Size : Slot(Plus(dirty, k) + j) = Slot(dirty + (k + j))
           /\ \A j \in 0 .. Size - 1 : Slot(dirty + (Size + j)) = Slot(dirty + j)
<1>1. (dirty + n) % Wrap = (Plus(dirty, k) + (n - k)) % Wrap
  BY SizeAssumption DEF Plus, Wrap
<1>2. \A j \in 0 .. Size : Slot(Plus(dirty, k) + j) = Slot(dirty + (k + j))
  BY SizeAssumption DEF Plus, Slot, Wrap
<1>3. \A j \in 0 .. Size - 1 : Slot(dirty + (Size + j)) = Slot(dirty + j)
  BY SizeAssumption DEF Slot, Wrap
<1> QED
  BY <1>1, <1>2, <1>3

\* The descriptors a refill hands back.
Filled(k) == {Slot(dirty + j) : j \in 0 .. k - 1}

LEMMA RefillAligned ==
    ASSUME NapiInv, Aligned, SameChip, PollRefill
    PROVE  Aligned'
<1> SUFFICES ASSUME rings, fetch # StopDesc
             PROVE  \E n, r \in 0 .. Size :
                      /\ curr' = (dirty' + n) % Wrap /\ Ring(n, r)'
                      /\ ~fastReset' => r <= pr'
  BY DEF Aligned, PollRefill, jobVars, hwVars
<1>0. /\ Size \in Nat /\ Size > 0 /\ dirty \in Nat /\ dirty \in 0 .. Wrap - 1
      /\ own \in [Slots -> BOOLEAN] /\ has \in [Slots -> BOOLEAN]
  BY SizeAssumption DEF NapiInv, TypeOK
<1>1. PICK n \in 0 .. Size, r \in 0 .. Size :
         curr = (dirty + n) % Wrap /\ Ring(n, r) /\ (~fastReset => r <= pr)
  BY DEF Aligned
<1>2. Used = n
  BY <1>0, <1>1, UsedTells
<1>3. PICK k \in 0 .. n : /\ own' = [s \in Slots |-> own[s] \/ s \in Filled(k)]
                          /\ has' = [s \in Slots |-> has[s] \/ s \in Filled(k)]
                          /\ dirty' = Plus(dirty, k)
  BY <1>2 DEF PollRefill, Filled
<1>4. curr' = curr /\ fetch' = fetch /\ pr' = pr /\ fastReset' = fastReset
  BY DEF PollRefill, SameChip, hwVars
<1>5. \A i \in 0 .. Size - 1 : /\ Slot(dirty + i) \in Slots
                               /\ Slot(dirty + i) \in Filled(k) <=> i < k
  <2> SUFFICES ASSUME NEW i \in 0 .. Size - 1
               PROVE  Slot(dirty + i) \in Slots /\ (Slot(dirty + i) \in Filled(k) <=> i < k)
    OBVIOUS
  <2>1. Slot(dirty + i) \in Slots
    BY <1>0, SlotAround
  <2>2. i < k => i \in 0 .. k - 1
    BY <1>0, <1>3
  <2>3. ASSUME NEW j \in 0 .. k - 1, ~(i < k)
        PROVE  Slot(dirty + i) # Slot(dirty + j)
    <3>1. j \in 0 .. Size - 1 /\ j # i
      BY <1>0, <1>3, <2>3
    <3> QED
      BY <1>0, <3>1, SlotsDiffer
  <2> QED
    BY <2>1, <2>2, <2>3 DEF Filled
<1>6. \A i \in 0 .. Size - 1 :
         /\ own'[Slot(dirty + i)] <=> own[Slot(dirty + i)] \/ i < k
         /\ has[Slot(dirty + i)] => has'[Slot(dirty + i)]
  <2>1. \A s \in Slots : /\ own'[s] = (own[s] \/ s \in Filled(k))
                         /\ has'[s] = (has[s] \/ s \in Filled(k))
    BY <1>3
  <2> SUFFICES ASSUME NEW i \in 0 .. Size - 1
               PROVE  /\ own'[Slot(dirty + i)] <=> own[Slot(dirty + i)] \/ i < k
                      /\ has[Slot(dirty + i)] => has'[Slot(dirty + i)]
    OBVIOUS
  <2>2. Slot(dirty + i) \in Slots
    BY <1>5, Zenon
  <2>3. Slot(dirty + i) \in Filled(k) <=> i < k
    BY <1>5, Zenon
  <2>4. /\ own'[Slot(dirty + i)] = (own[Slot(dirty + i)] \/ Slot(dirty + i) \in Filled(k))
        /\ has'[Slot(dirty + i)] = (has[Slot(dirty + i)] \/ Slot(dirty + i) \in Filled(k))
    BY <2>1, <2>2, Zenon
  <2> QED
    BY <2>3, <2>4, Zenon
<1>7. \A j \in 0 .. Size : Slot(dirty' + j) = Slot(dirty + (k + j))
  BY <1>0, <1>3, RefillMoves
<1>8. n - k \in 0 .. Size /\ (n - k) + r <= Size /\ n + r <= Size
  BY <1>0, <1>1, <1>3 DEF Ring
<1>9. fetch' = Slot(dirty' + ((n - k) + r))
  <2>1. (n - k) + r \in 0 .. Size /\ k + ((n - k) + r) = n + r
    BY <1>0, <1>3, <1>8
  <2> QED
    BY <1>1, <1>4, <1>7, <2>1 DEF Ring
<1>10. \A j \in 0 .. (n - k) - 1 : ~own'[Slot(dirty' + j)]
  <2>1. \A j \in 0 .. (n - k) - 1 :
           j \in 0 .. Size /\ k + j \in 0 .. n - 1 /\ k + j \in 0 .. Size - 1 /\ ~(k + j < k)
    BY <1>0, <1>3
  <2> QED
    BY <1>1, <1>6, <1>7, <2>1 DEF Ring
<1>11. \A j \in n - k .. (n - k) + r - 1 : ~own'[Slot(dirty' + j)] /\ has'[Slot(dirty' + j)]
  <2>1. \A j \in n - k .. (n - k) + r - 1 :
           /\ j \in 0 .. Size /\ k + j \in n .. n + r - 1 /\ k + j \in 0 .. Size - 1
           /\ ~(k + j < k)
    BY <1>0, <1>3, <1>8
  <2> QED
    BY <1>1, <1>6, <1>7, <2>1 DEF Ring
<1>12. \A j \in (n - k) + r .. Size - 1 : own'[Slot(dirty' + j)]
  <2> SUFFICES ASSUME NEW j \in (n - k) + r .. Size - 1
               PROVE  own'[Slot(dirty' + j)]
    OBVIOUS
  <2>1. j \in 0 .. Size /\ Slot(dirty' + j) = Slot(dirty + (k + j))
    BY <1>0, <1>3, <1>7, <1>8
  <2>2. CASE k + j < Size
    <3>1. k + j \in n + r .. Size - 1 /\ k + j \in 0 .. Size - 1
      BY <1>0, <1>3, <1>8, <2>2
    <3> QED
      BY <1>1, <1>6, <2>1, <3>1 DEF Ring
  <2>3. CASE k + j >= Size
    <3>1. PICK i \in 0 .. Size - 1 : k + j = Size + i /\ i < k
      <4>1. (k + j) - Size \in 0 .. Size - 1 /\ k + j = Size + ((k + j) - Size)
            /\ (k + j) - Size < k
        BY <1>0, <1>3, <1>8, <2>3
      <4> QED
        BY <4>1
    <3>2. Slot(dirty + (Size + i)) = Slot(dirty + i)
      BY <1>0, <1>3, RefillMoves
    <3> QED
      BY <1>6, <2>1, <3>1, <3>2
  <2> QED
    BY <1>0, <1>3, <2>2, <2>3
<1>13. Ring(n - k, r)'
  BY <1>8, <1>9, <1>10, <1>11, <1>12 DEF Ring, Slot
<1>14. curr' = (dirty' + (n - k)) % Wrap
  BY <1>0, <1>1, <1>3, <1>4, RefillMoves
<1> QED
  BY <1>1, <1>4, <1>8, <1>13, <1>14

LEMMA EnableAligned ==
    ASSUME NapiInv, SameChip, Enable
    PROVE  Aligned'
<1>0. Size \in Nat /\ Size > 0 /\ Wrap = 2 * Size /\ pr \in 0 .. Size
  BY SizeAssumption DEF Wrap, NapiInv, TypeOK
<1>1. /\ own' = [s \in Slots |-> s < Size] /\ curr' = 0 /\ dirty' = 0 /\ fetch' = 0 /\ pr' = pr
  BY DEF Enable, RxInit
<1>2. \A k \in 0 .. Size - 1 : own'[Slot(0 + k)]
  <2>1. \A k \in 0 .. Size - 1 : Slot(0 + k) \in Slots /\ Slot(0 + k) < Size
    BY <1>0 DEF Slot, Slots
  <2> QED
    BY <1>1, <2>1
<1>3. Slot(0 + (0 + 0)) = 0 /\ (0 + 0) % Wrap = 0
  BY <1>0 DEF Slot
<1>4. Ring(0, 0)'
  <2>1. \A k \in 0 .. 0 - 1 : FALSE
    OBVIOUS
  <2>2. \A k \in 0 .. 0 + 0 - 1 : FALSE
    OBVIOUS
  <2>3. \A k \in 0 + 0 .. Size - 1 : own'[Slot(dirty' + k)]
    BY <1>1, <1>2
  <2> QED
    BY <1>0, <1>1, <1>3, <2>1, <2>2, <2>3 DEF Ring, Slot
<1> QED
  BY <1>0, <1>1, <1>3, <1>4 DEF Aligned

LEMMA AlignedStep ==
    ASSUME NapiInv, Awake, Aligned, [Next]_vars
    PROVE  Aligned'
<1>1. CASE UNCHANGED <<fastReset, own, has, curr, dirty, fetch, rings>> /\ (pr' = pr \/ fastReset)
  BY <1>1, SameRing
<1>2. CASE SameChip /\ EngineReceive
  BY <1>2, ReceiveAligned
<1>3. CASE SameChip /\ PollTake
  BY <1>3, TakeAligned
<1>4. CASE SameChip /\ PollRefill
  BY <1>4, RefillAligned
<1>5. CASE SameChip /\ Enable
  BY <1>5, EnableAligned
<1>6. CASE ~rings' \/ fetch' = StopDesc
  BY <1>6 DEF Aligned
<1> USE DEF SameChip, ringVars, hwVars, pollVars, jobVars
<1>7. CASE UNCHANGED vars
  BY <1>1, <1>7 DEF vars
<1>8. CASE SameChip /\ (EngineOverflow \/ EngineSent \/ Interrupt \/ OomTimer)
  BY <1>1, <1>8 DEF EngineOverflow, EngineSent, Interrupt, OomTimer
<1>9. CASE SameChip /\ (PollTx \/ PollAssert \/ PollOom \/ PollRxStatus)
  BY <1>1, <1>9 DEF PollTx, PollAssert, PollOom, PollRxStatus
<1>10. CASE SameChip /\ (PollTxStatus \/ PollComplete \/ PollEnable)
  BY <1>1, <1>10 DEF PollTxStatus, PollComplete, PollEnable
<1>11. CASE SameChip /\ (LinkUp \/ RestartDone)
  BY <1>1, <1>11 DEF LinkUp, RestartDone, HwStart
<1>12. CASE SameChip /\ (LinkDown \/ TxTimeout \/ OpenBegin \/ StopBegin)
  BY <1>1, <1>12 DEF LinkDown, TxTimeout, OpenBegin, StopBegin
<1>13. CASE SameChip /\ (NapiDisabled \/ OpenDone)
  BY <1>1, <1>13 DEF NapiDisabled, OpenDone
<1>14. CASE SameChip /\ (RestartDisable \/ StopDisable)
  BY <1>6, <1>14 DEF RestartDisable, StopDisable, Disable
<1>15. CASE SameChip /\ Cleanup
  BY <1>6, <1>15 DEF Cleanup
<1>16. CASE SameChip /\ (OpenFails \/ RestartFails)
  <2>1. fetch = StopDesc
    BY <1>16 DEF OpenFails, RestartFails, Awake
  <2> QED
    BY <1>6, <1>16, <2>1 DEF OpenFails, RestartFails
<1> QED
  BY <1>2, <1>3, <1>4, <1>5, <1>7, <1>8, <1>9, <1>10, <1>11, <1>12, <1>13, <1>14, <1>15, <1>16
     DEF Next, Poll, Job

LEMMA AlwaysAligned == Spec => [](NapiInv /\ Awake /\ Aligned)
<1>1. Init => Awake /\ Aligned
  BY DEF Init, Awake, Aligned, MaskedHasReason
<1>2. NapiInv /\ Awake /\ Aligned /\ [Next]_vars => (Awake /\ Aligned)'
  BY AwakeStep, AlignedStep
<1> QED
  BY NapiInvariant, <1>1, <1>2, PTL DEF Spec

\* What Received finds behind curr are the frames of the ring.
LEMMA ReceivedIsRing ==
    ASSUME TypeOK, NEW n \in 0 .. Size, NEW r \in 0 .. Size,
           curr = (dirty + n) % Wrap, Ring(n, r)
    PROVE  Used = n /\ Received = 0 .. r - 1 /\ fetch = Slot(curr + r)
<1>0. Size \in Nat /\ Size > 0 /\ dirty \in 0 .. Wrap - 1
  BY SizeAssumption DEF TypeOK
<1>1. Used = n /\ \A k \in 0 .. Size : Slot(curr + k) = Slot(dirty + (n + k))
  BY <1>0, UsedTells
<1>2. n + r <= Size
  BY DEF Ring
<1>3. ASSUME NEW k \in 0 .. r - 1
      PROVE  k \in 0 .. Size - 1 - n /\ has[Slot(curr + k)] /\ ~own[Slot(curr + k)]
  <2>1. k \in 0 .. Size - 1 - n /\ k \in 0 .. Size /\ n + k \in n .. n + r - 1
    BY <1>0, <1>2
  <2> QED
    BY <1>1, <2>1 DEF Ring
<1>4. ASSUME NEW k \in 0 .. Size - 1 - n, ~own[Slot(curr + k)]
      PROVE  k \in 0 .. r - 1
  <2> SUFFICES ASSUME k >= r
               PROVE  FALSE
    BY <1>0
  <2>1. k \in 0 .. Size /\ n + k \in n + r .. Size - 1
    BY <1>0, <1>2
  <2> QED
    BY <1>1, <1>4, <2>1 DEF Ring
<1>5. Received = 0 .. r - 1
  BY <1>1, <1>3, <1>4 DEF Received
<1> QED
  BY <1>1, <1>5 DEF Ring

\* Driver and engine agree on the ring whenever no poll is taking frames: what
\* was taken and not refilled, then what was received, then what the engine
\* may fill, for every ring size.
THEOREM RingStaysInStep == Spec => []RingInStep
<1>1. ASSUME NapiInv, Aligned
      PROVE  RingInStep
  <2> SUFFICES ASSUME rings, fetch # StopDesc
               PROVE  /\ Used <= Size
                      /\ \A k \in 0 .. Used - 1 : ~own[Slot(dirty + k)]
                      /\ \A k \in Received : \A j \in 0 .. k : j \in Received
                      /\ \E k \in 0 .. Size - Used :
                            fetch = Slot(curr + k) /\ Received = 0 .. k - 1
    BY DEF RingInStep
  <2>1. PICK n \in 0 .. Size, r \in 0 .. Size : curr = (dirty + n) % Wrap /\ Ring(n, r)
    BY <1>1 DEF Aligned
  <2>2. Used = n /\ Received = 0 .. r - 1 /\ fetch = Slot(curr + r)
    BY <1>1, <2>1, ReceivedIsRing DEF NapiInv
  <2>3. n + r <= Size /\ \A k \in 0 .. n - 1 : ~own[Slot(dirty + k)]
    BY <2>1 DEF Ring
  <2>4. Size \in Nat /\ n <= Size /\ r \in 0 .. Size - n
    BY <2>3, SizeAssumption
  <2>5. \A k \in 0 .. r - 1 : \A j \in 0 .. k : j \in 0 .. r - 1
    OBVIOUS
  <2> QED
    BY <2>2, <2>3, <2>4, <2>5
<1> QED
  BY AlwaysAligned, <1>1, PTL

\* No frame and no refill waits for an interrupt that does not come: a masked
\* device has a poll or the timer, and a frame in the ring is counted in
\* RX_STATUS or a poll is due.
THEOREM InterruptIsKept == Spec => []InterruptKept
<1>1. ASSUME NapiInv, Awake, Aligned
      PROVE  InterruptKept
  <2>1. ASSUME up, link, job = "none", ~failed, Received # {}, ~fastReset
        PROVE  pr > 0
    <3>1. rings /\ fetch # StopDesc
      BY <1>1, <2>1 DEF Awake
    <3>2. PICK n \in 0 .. Size, r \in 0 .. Size :
             curr = (dirty + n) % Wrap /\ Ring(n, r) /\ r <= pr
      BY <1>1, <2>1, <3>1 DEF Aligned
    <3>3. Received = 0 .. r - 1
      BY <1>1, <3>2, ReceivedIsRing DEF NapiInv
    <3>4. pr \in 0 .. Size /\ Size \in Nat
      BY <1>1, SizeAssumption DEF NapiInv, TypeOK
    <3> QED
      BY <2>1, <3>2, <3>3, <3>4
  <2>2. FrameIsNoticed
    BY <2>1 DEF FrameIsNoticed
  <2> QED
    BY <1>1, <2>2 DEF InterruptKept, Awake
<1> QED
  BY AlwaysAligned, <1>1, PTL
=============================================================================

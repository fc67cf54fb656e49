--------------------------- MODULE GpioButtonProofs ---------------------------
(* GpioButton for every poll rate, debounce threshold and queue.            *)
EXTENDS GpioButton, SequenceTheorems, TLAPS

LEMMA MinOfTwo ==
  ASSUME NEW a \in Nat, NEW b \in Nat
  PROVE  Min({a, b}) \in 0 .. b
<1>1. PICK x \in {a, b} : \A y \in {a, b} : x <= y
  OBVIOUS
<1>2. Min({a, b}) \in {a, b} /\ \A y \in {a, b} : Min({a, b}) <= y
  BY <1>1 DEF Min
<1> QED
  BY <1>2

LEMMA MaxOfTwo ==
  ASSUME NEW n \in Nat, NEW a \in 0 .. n, NEW b \in 0 .. n
  PROVE  Max({a, b}) \in 0 .. n
<1>1. PICK x \in {a, b} : \A y \in {a, b} : x >= y
  OBVIOUS
<1>2. Max({a, b}) \in {a, b}
  BY <1>1 DEF Max
<1> QED
  BY <1>2

LEMMA SecondsBound ==
  ASSUME NEW n \in Nat, NEW h \in Nat \ {0}, NEW l \in Nat, n <= l * h
  PROVE  n \div h \in 0 .. l
<1>1. PICK q \in Nat : q = n \div h
  OBVIOUS
<1>2. q * h <= n
  BY <1>1
<1>3. q > l => q * h >= (l + 1) * h
  OBVIOUS
<1>4. (l + 1) * h = l * h + h
  OBVIOUS
<1> QED
  BY <1>1, <1>2, <1>3, <1>4

\* A work item leaves the queue, and the others keep their order.
LEMMA Removed ==
  ASSUME NEW S, NEW s \in Seq(S), NEW i \in 1 .. Len(s)
  PROVE  /\ RemoveAt(s, i) \in Seq(S) /\ Len(RemoveAt(s, i)) = Len(s) - 1
         /\ \A k \in 1 .. Len(s) - 1 : RemoveAt(s, i)[k] = IF k < i THEN s[k] ELSE s[k + 1]
<1> DEFINE a == SubSeq(s, 1, i - 1)
           b == SubSeq(s, i + 1, Len(s))
<1>1. Len(s) \in Nat /\ \A k \in 1 .. Len(s) : s[k] \in S
  OBVIOUS
<1>2. /\ a \in Seq(S) /\ Len(a) = i - 1
      /\ \A k \in 1 .. i - 1 : a[k] = s[k]
  <2>1. \A k \in 1 .. i - 1 : s[k] \in S
    BY <1>1
  <2> QED
    BY <2>1, SubSeqProperties
<1>3. /\ b \in Seq(S) /\ Len(b) = Len(s) - i
      /\ \A k \in 1 .. Len(s) - i : b[k] = s[i + k]
  <2>1. \A k \in i + 1 .. Len(s) : s[k] \in S
    BY <1>1
  <2>2. /\ b \in Seq(S) /\ Len(b) = IF i + 1 <= Len(s) THEN Len(s) - (i + 1) + 1 ELSE 0
        /\ \A k \in 1 .. Len(s) - (i + 1) + 1 : b[k] = s[i + 1 + k - 1]
    BY <1>1, <2>1, SubSeqProperties
  <2> QED
    BY <1>1, <2>2
<1>4. RemoveAt(s, i) = a \o b
  BY DEF RemoveAt
<1> HIDE DEF a, b
<1>5. /\ a \o b \in Seq(S) /\ Len(a \o b) = Len(s) - 1
      /\ \A k \in 1 .. Len(s) - 1 : (a \o b)[k] = IF k <= i - 1 THEN a[k] ELSE b[k - (i - 1)]
  <2>1. /\ a \o b \in Seq(S) /\ Len(a \o b) = Len(a) + Len(b)
        /\ \A k \in 1 .. Len(a) + Len(b) :
              (a \o b)[k] = IF k <= Len(a) THEN a[k] ELSE b[k - Len(a)]
    BY <1>2, <1>3, ConcatProperties
  <2>2. Len(a) = i - 1 /\ Len(a) + Len(b) = Len(s) - 1
    BY <1>1, <1>2, <1>3
  <2> QED
    BY <2>1, <2>2
<1> QED
  BY <1>1, <1>2, <1>3, <1>4, <1>5

LEMMA QueueIsSequence ==
  ASSUME NEW S, NEW n \in Nat, NEW s
  PROVE  s \in BoundedSeq(S, n) <=> s \in Seq(S) /\ Len(s) <= n
  BY DEF BoundedSeq, SeqOf

\* A polled button has no interrupt. While it was not pressed again and no event
\* came late, an event that resets is the last one, and after it none is left.
ResetInv ==
    /\ irq => ~polled
    /\ polled /\ ~again /\ ~late =>
          /\ ~cut
          /\ reset => queue = <<>> /\ last = "released"
          /\ \A i \in DOMAIN queue : Resets(queue[i]) => i = Len(queue) /\ last = "released"

ButtonInv == TypeOK /\ ResetInv

Consts == /\ Hz \in Nat \ {0} /\ LongPress \in Nat /\ Threshold \in Nat \ {0}
          /\ MaxQueue \in Nat \ {0} /\ Cap \in Nat /\ Long \in Nat

LEMMA ConstTypes == Consts
<1>1. Cap \in Nat
  BY HzAssumption, LongPressAssumption DEF Cap
<1> QED
  BY <1>1, HzAssumption, LongPressAssumption, ThresholdAssumption, QueueAssumption
  DEF Consts, Long

LEMMA ButtonInit == Init => ButtonInv
<1> SUFFICES ASSUME Init PROVE ButtonInv
  OBVIOUS
<1> USE DEF Init
<1>1. queue \in BoundedSeq(Event, MaxQueue)
  <2>1. queue \in Seq(Event) /\ Len(queue) <= MaxQueue
    BY ConstTypes DEF Consts
  <2> QED
    BY <2>1, ConstTypes, QueueIsSequence DEF Consts
<1>2. <<low, row, high, held>> \in (0 .. Threshold + 1) \X (0 .. Long) \X (0 .. Long) \X (0 .. Cap)
  BY ConstTypes DEF Consts
<1>3. count \in 0 .. Threshold /\ since \in 0 .. Cap
  BY ConstTypes DEF Consts
<1>4. TypeOK
  BY <1>1, <1>2, <1>3 DEF TypeOK
<1> QED
  BY <1>4 DEF ButtonInv, ResetInv

-----------------------------------------------------------------------------

\* What an event does to the queue, and to the invariant.
LEMMA EventStep ==
  ASSUME ButtonInv, NEW action \in Button, ButtonEvent(action),
         polled => last # "none" /\ action # last /\ last' = action,
         UNCHANGED <<polled, reset, late, cut>>, irq' => ~polled
  PROVE  /\ (queue \in BoundedSeq(Event, MaxQueue))' /\ (since \in 0 .. Cap)'
         /\ (first \in BOOLEAN)' /\ (again \in BOOLEAN)'
         /\ ResetInv'
<1> USE DEF ButtonEvent
<1> DEFINE ev == [action |-> action, seen |-> since \div Hz]
<1>1. ev \in Event
  <2>1. since \div Hz \in 0 .. LongPress
    <3>1. since \in Nat /\ since <= LongPress * Hz
      BY ConstTypes DEF ButtonInv, TypeOK, Consts, Cap
    <3> QED
      BY <3>1, ConstTypes, SecondsBound DEF Consts
  <2> QED
    BY <2>1 DEF Event
<1>2. queue \in Seq(Event) /\ Len(queue) <= MaxQueue /\ Len(queue) \in Nat
  BY ConstTypes, QueueIsSequence DEF ButtonInv, TypeOK, Consts
<1>3. queue' = queue \/ (Len(queue) < MaxQueue /\ queue' = Append(queue, ev))
  OBVIOUS
<1>4. ev.action = action
  OBVIOUS
<1> HIDE DEF ev
<1>5. queue' \in Seq(Event) /\ Len(queue') <= MaxQueue
  BY <1>1, <1>2, <1>3, ConstTypes, SMTT(30) DEF Consts
<1>6. (queue \in BoundedSeq(Event, MaxQueue))'
  BY <1>5, ConstTypes, QueueIsSequence DEF Consts
<1>7. (since \in 0 .. Cap)' /\ (first \in BOOLEAN)' /\ (again \in BOOLEAN)'
  <2>1. (since \in 0 .. Cap)'
    BY ConstTypes DEF Consts
  <2> QED
    BY <2>1 DEF ButtonInv, TypeOK
<1>8. ResetInv'
  <2> SUFFICES ASSUME polled, ~again', ~late
               PROVE  /\ ~cut /\ (reset => queue' = <<>> /\ last' = "released")
                      /\ \A i \in DOMAIN queue' : Resets(queue'[i]) =>
                            i = Len(queue') /\ last' = "released"
    BY DEF ResetInv
  <2>1. /\ ~again /\ ~cut
        /\ action = "pressed" => ~reset /\ \A i \in DOMAIN queue : ~Resets(queue[i])
    BY DEF ButtonInv, TypeOK, ResetInv
  <2>2. action = "released" => last = "pressed"
    BY DEF Button, ButtonInv, TypeOK
  <2>3. ~reset /\ \A i \in DOMAIN queue : ~Resets(queue[i])
    BY <2>1, <2>2 DEF Button, ButtonInv, ResetInv
  <2>4. CASE queue' = queue
    BY <2>1, <2>3, <2>4
  <2>5. CASE queue' = Append(queue, ev)
    <3>1. /\ DOMAIN queue' = DOMAIN queue \union {Len(queue')}
          /\ \A i \in DOMAIN queue : queue'[i] = queue[i]
          /\ queue'[Len(queue')] = ev
      BY <1>1, <1>2, <2>5
    <3>2. Resets(ev) => last' = "released"
      BY <1>4 DEF Resets
    <3> QED
      BY <2>1, <2>3, <3>1, <3>2
  <2> QED
    BY <1>3, <2>4, <2>5
<1> QED
  BY <1>6, <1>7, <1>8

LEMMA PollStep ==
  ASSUME ButtonInv, Poll
  PROVE  ButtonInv'
<1> USE DEF Poll
<1>0. /\ pin \in Button /\ last \in Button \union {"none"}
      /\ count \in 0 .. Threshold /\ since \in 0 .. Cap /\ Threshold \in Nat /\ Cap \in Nat
      /\ low \in 0 .. Threshold + 1 /\ row \in 0 .. Long /\ high \in 0 .. Long
      /\ held \in 0 .. Cap /\ Long \in Nat
  BY ConstTypes DEF ButtonInv, TypeOK, Consts
<1>1. low' \in 0 .. Threshold + 1 /\ row' \in 0 .. Long
  BY <1>0, MinOfTwo
<1>2. high' \in 0 .. Long /\ held' \in 0 .. Cap
  BY <1>0, <1>1, MinOfTwo, MaxOfTwo
<1>3. (last \in Button \union {"none"})' /\ (count \in 0 .. Threshold)'
  BY <1>0 DEF CheckState
<1>4. /\ (queue \in BoundedSeq(Event, MaxQueue))' /\ (since \in 0 .. Cap)'
      /\ (first \in BOOLEAN)' /\ (again \in BOOLEAN)' /\ ResetInv'
  <2>1. CASE pin # last /\ last # "none" /\ ButtonEvent(pin) /\ last' = pin
    BY <1>0, <2>1, EventStep DEF ButtonInv, ResetInv
  <2>2. CASE NoEvent /\ last' = last
    BY <2>2 DEF NoEvent, ButtonInv, TypeOK, ResetInv
  <2>3. CASE NoEvent /\ last = "none"
    BY <2>3 DEF NoEvent, ButtonInv, TypeOK, ResetInv
  <2> QED
    BY <2>1, <2>2, <2>3 DEF CheckState
<1>5. /\ polled' = polled /\ overlay' = overlay /\ pin' = pin /\ irq' = irq /\ over' = over
      /\ reset' = reset /\ down' = down /\ late' = late /\ cut' = cut /\ due' = FALSE
  OBVIOUS
<1>6. <<low, row, high, held>>' \in (0 .. Threshold + 1) \X (0 .. Long) \X (0 .. Long) \X (0 .. Cap)
  BY <1>1, <1>2
<1> HIDE DEF Poll
<1>7. TypeOK'
  BY <1>3, <1>4, <1>5, <1>6 DEF ButtonInv, TypeOK
<1> QED
  BY <1>4, <1>7 DEF ButtonInv

-----------------------------------------------------------------------------
(* The work items                                                           *)

\* An item leaves the queue; cutting and resetting are told apart by what the
\* script makes of it.
LEMMA TakeStep ==
  ASSUME ButtonInv, NEW i \in DOMAIN queue, Take(i),
         UNCHANGED <<polled, irq, last, again>>,
         (cut' = cut /\ reset' = reset) \/ Script(queue[i])
  PROVE  (queue \in BoundedSeq(Event, MaxQueue))' /\ ResetInv'
<1>1. queue \in Seq(Event) /\ Len(queue) <= MaxQueue /\ Len(queue) \in Nat
  BY ConstTypes, QueueIsSequence DEF ButtonInv, TypeOK, Consts
<1>2. i \in 1 .. Len(queue)
  BY <1>1
<1>3. /\ queue' \in Seq(Event) /\ Len(queue') = Len(queue) - 1
      /\ \A k \in 1 .. Len(queue) - 1 : queue'[k] = IF k < i THEN queue[k] ELSE queue[k + 1]
  BY <1>1, <1>2, Removed DEF Take
<1>4. (queue \in BoundedSeq(Event, MaxQueue))'
  BY <1>1, <1>3, ConstTypes, QueueIsSequence DEF Consts
<1>5. ResetInv'
  <2> SUFFICES ASSUME polled, ~again, ~late'
               PROVE  /\ ~cut' /\ (reset' => queue' = <<>> /\ last = "released")
                      /\ \A k \in DOMAIN queue' : Resets(queue'[k]) =>
                            k = Len(queue') /\ last = "released"
    BY DEF ResetInv, ButtonInv
  <2>1. i = 1 /\ ~late
    <3>1. ~late /\ ~(i > 1)
      BY DEF Take
    <3> QED
      BY <1>1, <1>2, <3>1
  <2>2. /\ ~cut /\ ~reset
        /\ \A k \in 1 .. Len(queue) : Resets(queue[k]) => k = Len(queue) /\ last = "released"
    BY <1>1, <1>2, <2>1 DEF ButtonInv, ResetInv
  <2>3. \A k \in 1 .. Len(queue') : Resets(queue'[k]) => k = Len(queue') /\ last = "released"
    BY <1>1, <1>3, <2>1, <2>2
  <2>4. ~cut'
    BY <2>2 DEF Script
  <2>5. reset' => Resets(queue[1])
    BY <2>1, <2>2 DEF Script
  <2>6. Resets(queue[1]) => Len(queue') = 0 /\ last = "released"
    BY <1>1, <1>2, <1>3, <2>1, <2>2
  <2> QED
    BY <1>3, <2>3, <2>4, <2>5, <2>6
<1> QED
  BY <1>4, <1>5

LEMMA ButtonStep ==
  ASSUME ButtonInv, [Next]_vars
  PROVE  ButtonInv'
<1> USE DEF ButtonInv
<1>1. CASE Press
  <2> USE <1>1 DEF Press, histVars, userVars
  <2> QED
    BY DEF TypeOK, ResetInv
<1>2. CASE Tick
  <2> USE <1>2 DEF Tick, histVars, userVars
  <2>1. since' \in 0 .. Cap
    BY ConstTypes, MinOfTwo DEF TypeOK, Consts
  <2> QED
    BY <2>1 DEF TypeOK, ResetInv
<1>3. CASE Overflow
  <2> USE <1>3 DEF Overflow, histVars, userVars
  <2>1. since' \in 0 .. Cap
    BY ConstTypes DEF TypeOK, Consts
  <2> QED
    BY <2>1 DEF TypeOK, ResetInv
<1>4. CASE Poll
  BY <1>4, PollStep
<1>5. CASE HandleIrq
  <2>1. ~polled /\ pin \in Button
    BY <1>5 DEF HandleIrq, ResetInv, TypeOK
  <2>2. /\ (queue \in BoundedSeq(Event, MaxQueue))' /\ (since \in 0 .. Cap)'
        /\ (first \in BOOLEAN)' /\ (again \in BOOLEAN)' /\ ResetInv'
    BY <1>5, <2>1, EventStep DEF HandleIrq
  <2> QED
    BY <1>5, <2>2 DEF HandleIrq, histVars, TypeOK
<1>6. CASE Lose
  <2> USE <1>6 DEF Lose, driverVars, histVars
  <2>1. /\ (queue \in BoundedSeq(Event, MaxQueue))' /\ ResetInv'
    BY TakeStep
  <2>2. (late \in BOOLEAN)'
    BY DEF Take, TypeOK
  <2> QED
    BY <2>1, <2>2 DEF TypeOK
<1>7. CASE Tell
  <2> USE <1>7 DEF Tell, driverVars, histVars
  <2>1. /\ (queue \in BoundedSeq(Event, MaxQueue))' /\ ResetInv'
    BY TakeStep
  <2>2. <<reset, down, again, late, cut>>' \in BOOLEAN \X BOOLEAN \X BOOLEAN \X BOOLEAN \X BOOLEAN
    BY DEF Take, Script, TypeOK
  <2> QED
    BY <2>1, <2>2 DEF TypeOK
<1>8. CASE ResetDone
  <2> USE <1>8 DEF ResetDone, driverVars, histVars
  <2> QED
    BY DEF TypeOK, ResetInv
<1>9. CASE UNCHANGED vars
  BY <1>9 DEF TypeOK, ResetInv, vars, driverVars, histVars, userVars
<1> QED
  BY <1>1, <1>2, <1>3, <1>4, <1>5, <1>6, <1>7, <1>8, <1>9 DEF Next

-----------------------------------------------------------------------------

\* For every poll rate, threshold, long press and length of the queue: types.
THEOREM ButtonTypeCorrect == Spec => []TypeOK
<1>1. ButtonInv => TypeOK
  BY DEF ButtonInv
<1> QED
  BY <1>1, ButtonInit, ButtonStep, PTL DEF Spec

\* The reboot for a click does not come while jffs2reset runs, for a polled
\* button that is not pressed again and whose events come in order.
THEOREM ResetIsUncut == Spec => []ResetUncut
<1>1. ButtonInv => ResetUncut
  BY DEF ButtonInv, ResetInv, ResetUncut
<1> QED
  BY <1>1, ButtonInit, ButtonStep, PTL DEF Spec

-----------------------------------------------------------------------------
(* Time.                                                                    *)

LEMMA MinIs ==
  ASSUME NEW a \in Nat, NEW b \in Nat
  PROVE  Min({a, b}) = IF a <= b THEN a ELSE b
<1>1. PICK x \in {a, b} : \A y \in {a, b} : x <= y
  OBVIOUS
<1>2. Min({a, b}) \in {a, b} /\ \A y \in {a, b} : Min({a, b}) <= y
  BY <1>1 DEF Min
<1> QED
  BY <1>2

LEMMA MaxIs ==
  ASSUME NEW a \in Nat, NEW b \in Nat
  PROVE  Max({a, b}) = IF a >= b THEN a ELSE b
<1>1. PICK x \in {a, b} : \A y \in {a, b} : x >= y
  OBVIOUS
<1>2. Max({a, b}) \in {a, b} /\ \A y \in {a, b} : Max({a, b}) >= y
  BY <1>1 DEF Max
<1> QED
  BY <1>2

\* The ticks that no poll has followed yet.
Ahead == IF due THEN 1 ELSE 0

\* The debounce counter counts the polls in a row that differ from last_state,
\* so no row of a state that was not taken over is longer than the threshold;
\* once "pressed" was taken over, ticks and polls keep step.
HoldInv ==
    /\ due \/ last # "none" => polled
    /\ row <= high
    /\ last = "none" => held = Cap /\ low <= count /\ high <= count /\ (polled => first)
    /\ last = "released" => row = count /\ high <= Threshold
    /\ last = "pressed" =>
          /\ low = count /\ since <= held + Ahead
          /\ ~first /\ since < Cap => high + Ahead <= since + Threshold + 1

LEMMA HoldInit == Init => HoldInv
  BY ConstTypes DEF Init, HoldInv, Consts

\* What one poll makes of the rows.
LEMMA PollRows ==
  ASSUME ButtonInv, HoldInv, Poll
  PROVE  /\ pin = "released" => row' = 0 /\ low' = IF low <= Threshold THEN low + 1 ELSE low
         /\ pin = "pressed" => low' = 0 /\ row' = IF row < Long THEN row + 1 ELSE row
         /\ low' = Threshold + 1 => held' = 0 /\ high' = 0
         /\ low' # Threshold + 1 => /\ held' = IF held < Cap THEN held + 1 ELSE held
                                    /\ high' = IF high >= row' THEN high ELSE row'
<1>0. /\ pin \in Button /\ Threshold \in Nat \ {0} /\ Cap \in Nat /\ Long \in Nat
      /\ low \in 0 .. Threshold + 1 /\ row \in 0 .. Long /\ high \in 0 .. Long /\ held \in 0 .. Cap
  BY ConstTypes DEF ButtonInv, TypeOK, Consts
<1>1. /\ Min({low + 1, Threshold + 1}) = IF low <= Threshold THEN low + 1 ELSE low
      /\ Min({row + 1, Long}) = IF row < Long THEN row + 1 ELSE row
      /\ Min({held + 1, Cap}) = IF held < Cap THEN held + 1 ELSE held
  BY <1>0, MinIs
<1>2. row' \in Nat
  BY <1>0, <1>1 DEF Poll
<1>3. Max({high, row'}) = IF high >= row' THEN high ELSE row'
  BY <1>0, <1>2, MaxIs
<1> QED
  BY <1>1, <1>3 DEF Poll

LEMMA HoldPoll ==
  ASSUME ButtonInv, HoldInv, Poll
  PROVE  HoldInv'
<1>0. /\ pin \in {"pressed", "released"} /\ last \in {"pressed", "released", "none"}
      /\ count \in 0 .. Threshold /\ since \in 0 .. Cap
      /\ Threshold \in Nat \ {0} /\ Cap \in Nat /\ Long = Cap + Threshold + 2
      /\ low \in 0 .. Threshold + 1 /\ row \in 0 .. Long /\ high \in 0 .. Long /\ held \in 0 .. Cap
  BY ConstTypes DEF ButtonInv, TypeOK, Consts, Button, Long
<1>1. due /\ ~due' /\ polled /\ polled' = polled /\ Ahead = 1 /\ Ahead' = 0
  BY DEF Poll, HoldInv, Ahead
<1>2. /\ pin = "released" => row' = 0 /\ low' = IF low <= Threshold THEN low + 1 ELSE low
      /\ pin = "pressed" => low' = 0 /\ row' = IF row < Long THEN row + 1 ELSE row
      /\ low' = Threshold + 1 => held' = 0 /\ high' = 0
      /\ low' # Threshold + 1 => /\ held' = IF held < Cap THEN held + 1 ELSE held
                                 /\ high' = IF high >= row' THEN high ELSE row'
  BY PollRows
<1>3. row' <= high'
  BY <1>0, <1>2
<1>4. CASE pin # last /\ count < Threshold
  <2>1. count' = count + 1 /\ last' = last /\ since' = since /\ first' = first
    BY <1>4 DEF Poll, CheckState, NoEvent
  <2>2. CASE last = "none"
    BY <1>0, <1>1, <1>2, <1>3, <1>4, <2>1, <2>2 DEF HoldInv
  <2>3. CASE last = "released"
    BY <1>0, <1>1, <1>2, <1>3, <1>4, <2>1, <2>3 DEF HoldInv
  <2>4. CASE last = "pressed"
    BY <1>0, <1>1, <1>2, <1>3, <1>4, <2>1, <2>4 DEF HoldInv
  <2> QED
    BY <1>0, <2>2, <2>3, <2>4
<1>5. CASE pin = last
  <2>1. count' = 0 /\ last' = last /\ since' = since /\ first' = first
    BY <1>5 DEF Poll, CheckState, NoEvent
  <2>2. CASE last = "released"
    BY <1>0, <1>1, <1>2, <1>3, <1>5, <2>1, <2>2 DEF HoldInv
  <2>3. CASE last = "pressed"
    BY <1>0, <1>1, <1>2, <1>3, <1>5, <2>1, <2>3 DEF HoldInv
  <2> QED
    BY <1>0, <1>5, <2>2, <2>3
<1>6. CASE pin # last /\ count = Threshold
  <2>0. ~(count < Threshold)
    BY <1>0, <1>6
  <2>1. count' = 0 /\ last' = pin
    BY <1>6, <2>0 DEF Poll, CheckState
  <2>2. CASE last = "none"
    <3>1. since' = since /\ first' = first
      BY <1>6, <2>0, <2>2 DEF Poll, CheckState, NoEvent
    <3> QED
      BY <1>0, <1>1, <1>2, <1>3, <1>6, <2>1, <2>2, <3>1 DEF HoldInv
  <2>3. CASE last # "none"
    <3>1. since' = 0 /\ first' = FALSE
      BY <1>6, <2>0, <2>3 DEF Poll, CheckState, ButtonEvent
    <3> QED
      BY <1>0, <1>1, <1>2, <1>3, <1>6, <2>1, <2>3, <3>1 DEF HoldInv
  <2> QED
    BY <2>2, <2>3
<1> QED
  BY <1>0, <1>4, <1>5, <1>6

LEMMA HoldStep ==
  ASSUME ButtonInv, HoldInv, [Next]_vars
  PROVE  HoldInv'
<1>0. since \in 0 .. Cap /\ held \in 0 .. Cap /\ Cap \in Nat /\ Threshold \in Nat /\ high \in Nat
  BY ConstTypes DEF ButtonInv, TypeOK, Consts
<1>1. CASE Poll
  BY <1>1, HoldPoll
<1>2. CASE Tick
  <2>1. since' = IF since < Cap THEN since + 1 ELSE since
    <3>1. Min({since + 1, Cap}) = IF since < Cap THEN since + 1 ELSE since
      BY <1>0, MinIs
    <3> QED
      BY <1>2, <3>1 DEF Tick
  <2>2. /\ UNCHANGED <<polled, last, count, first, low, high, row, held>>
        /\ ~due /\ due' = polled
    BY <1>2 DEF Tick, histVars
  <2> QED
    BY <1>0, <2>1, <2>2 DEF HoldInv, Ahead
<1>3. CASE Overflow
  <2>1. /\ UNCHANGED <<polled, due, last, count, first, low, high, row, held>>
        /\ since' = IF first THEN 0 ELSE since
    BY <1>3 DEF Overflow, histVars
  <2> QED
    BY <1>0, <2>1 DEF HoldInv, Ahead
<1>4. CASE HandleIrq
  <2>1. /\ UNCHANGED <<polled, due, last, count, low, high, row, held>>
        /\ ~polled
    BY <1>4 DEF HandleIrq, histVars, ButtonInv, ResetInv
  <2>2. last = "none"
    BY <2>1 DEF HoldInv
  <2> QED
    BY <2>1, <2>2 DEF HoldInv
<1>5. CASE UNCHANGED <<polled, due, last, count, since, first, low, high, row, held>>
  BY <1>5 DEF HoldInv, Ahead
<1>6. CASE Press \/ Lose \/ Tell \/ ResetDone \/ UNCHANGED vars
  BY <1>5, <1>6 DEF Press, Lose, Tell, ResetDone, vars, driverVars, histVars
<1> QED
  BY <1>1, <1>2, <1>3, <1>4, <1>6 DEF Next

\* Whole seconds of n polls.
LEMMA SecondsTell ==
  ASSUME NEW n \in Nat, NEW h \in Nat \ {0}
  PROVE  /\ n \div h \in Nat /\ (n \div h) * h <= n /\ n < ((n \div h) + 1) * h
<1>1. n = h * (n \div h) + (n % h) /\ n % h \in 0 .. h - 1 /\ n \div h \in Nat
  OBVIOUS
<1> QED
  BY <1>1

LEMMA SeenIsHold ==
  ASSUME ButtonInv, HoldInv, Next, last = "pressed", last' = "released"
  PROVE  /\ (since \div Hz) * Hz <= Min({held + 1, Cap})
         /\ (since \div Hz) < LongPress /\ ~first =>
               high <= ((since \div Hz) + 1) * Hz + Threshold
<1>0. /\ since \in 0 .. Cap /\ held \in 0 .. Cap /\ Cap \in Nat /\ Threshold \in Nat
      /\ high \in Nat /\ Hz \in Nat \ {0} /\ LongPress \in Nat /\ Cap = LongPress * Hz
  BY ConstTypes DEF ButtonInv, TypeOK, Consts, Cap
<1>1. Poll
  BY DEF Next, Press, Tick, Overflow, HandleIrq, Lose, Tell, ResetDone, driverVars
<1>2. Ahead = 1
  BY <1>1 DEF Poll, Ahead
<1>3. since <= held + 1 /\ (~first /\ since < Cap => high + 1 <= since + Threshold + 1)
  BY <1>2 DEF HoldInv
<1>4. PICK q \in Nat : q = since \div Hz /\ q * Hz <= since /\ since < (q + 1) * Hz
  BY <1>0, SecondsTell
<1>5. Min({held + 1, Cap}) = IF held + 1 <= Cap THEN held + 1 ELSE Cap
  BY <1>0, MinIs
<1>6. q * Hz \in Nat /\ (q + 1) * Hz \in Nat
  BY <1>0
<1>7. q * Hz <= Min({held + 1, Cap})
  BY <1>0, <1>3, <1>4, <1>5, <1>6
<1>8. q < LongPress => since < Cap
  <2>1. q < LongPress => (q + 1) * Hz <= LongPress * Hz
    BY <1>0
  <2> QED
    BY <1>0, <1>4, <1>6, <2>1
<1>9. q < LongPress /\ ~first => high <= (q + 1) * Hz + Threshold
  BY <1>0, <1>3, <1>4, <1>6, <1>8
<1> QED
  BY <1>4, <1>7, <1>9

\* Of a polled button, the seconds that come with "released" are those for which
\* it was held, whatever it bounced and for every poll rate and threshold: short
\* presses never add up, and a long press does not count as a click, except for
\* one that began before the driver.
THEOREM SeenTellsTheHold == Spec => SeenTellsHold
<1>1. ButtonInv /\ HoldInv /\ [Next]_vars =>
        [last = "pressed" /\ last' = "released" =>
           LET seen == since \div Hz
           IN  /\ seen * Hz <= Min({held + 1, Cap})
               /\ seen < LongPress /\ ~first => high <= (seen + 1) * Hz + Threshold]_vars
  BY SeenIsHold
<1>2. ButtonInv /\ HoldInv /\ [Next]_vars => (ButtonInv /\ HoldInv)'
  BY ButtonStep, HoldStep
<1> QED
  BY <1>1, <1>2, ButtonInit, HoldInit, PTL DEF Spec, SeenTellsHold
=============================================================================

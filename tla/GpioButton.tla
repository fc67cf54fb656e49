----------------------------- MODULE GpioButton -----------------------------
(* gpio-button-hotplug and the script of the reset button. The driver polls *)
(* the pin and debounces it, or takes interrupts and does not; each event   *)
(* says how long ago the one before was, and becomes a work item of its own *)
(* that tells user space, where rc.button/reset reboots the device after a  *)
(* click and resets it after a long press. Time goes in polls.              *)
EXTENDS Integers, Sequences, FiniteSetsExt, SequencesExt

CONSTANTS
    Hz,        \* polls in a second
    LongPress, \* seconds after which the script resets: 5
    Threshold, \* polls that the debounce interval takes, rounded up
    MaxQueue   \* bound: work items at a time

ASSUME HzAssumption == Hz \in Nat \ {0}
ASSUME LongPressAssumption == LongPress \in Nat \ {0, 1}
ASSUME ThresholdAssumption == Threshold \in Nat \ {0}
ASSUME QueueAssumption == MaxQueue \in Nat \ {0}

VARIABLES
    polled,   \* the device is a gpio-keys-polled one
    overlay,  \* user space has its overlay mounted
    pin,      \* the button
    due,      \* the poll of this tick has not run yet
    irq,      \* an edge was seen, the interrupt thread has not run yet
    last,     \* last_state
    count,
    since,    \* jiffies - priv->seen, up to Cap
    first,    \* priv->seen is still 0
    over,     \* the jiffies have overflowed, which they do soon after boot
    queue,    \* events whose work has not run
    reset,    \* jffs2reset runs
    down,     \* the device reboots
    low,      \* history: polls in a row that read "released"
    high,     \* history: longest row that read "pressed" since the last release
    row,      \* history: the present one
    held,     \* history: polls since low was Threshold + 1
    again,    \* history: the button was pressed after a release that resets
    late,     \* history: an event overtook another
    cut       \* a reboot came while jffs2reset ran

driverVars == <<due, irq, last, count, since, first, over>>
histVars == <<low, high, row, held>>
userVars == <<reset, down, again, late, cut>>
vars == <<polled, overlay, pin, driverVars, queue, histVars, userVars>>

Cap == LongPress * Hz
Long == Cap + Threshold + 2
Button == {"pressed", "released"}
Event == [action : Button, seen : 0 .. LongPress]

TypeOK ==
    /\ polled \in BOOLEAN /\ overlay \in BOOLEAN
    /\ pin \in Button /\ last \in Button \union {"none"}
    /\ due \in BOOLEAN /\ irq \in BOOLEAN /\ first \in BOOLEAN /\ over \in BOOLEAN
    /\ count \in 0 .. Threshold
    /\ since \in 0 .. Cap
    /\ queue \in BoundedSeq(Event, MaxQueue)
    /\ <<low, row, high, held>> \in (0 .. Threshold + 1) \X (0 .. Long) \X (0 .. Long) \X (0 .. Cap)
    /\ <<reset, down, again, late, cut>> \in BOOLEAN \X BOOLEAN \X BOOLEAN \X BOOLEAN \X BOOLEAN

\* The jiffies begin five minutes before they overflow: priv->seen is far away.
Init ==
    /\ polled \in BOOLEAN /\ overlay \in BOOLEAN
    /\ pin \in Button
    /\ due = polled /\ irq = FALSE
    /\ last = "none" /\ count = 0
    /\ since = Cap /\ first = TRUE /\ over = FALSE
    /\ queue = <<>>
    /\ reset = FALSE /\ down = FALSE
    /\ low = 0 /\ high = 0 /\ row = 0 /\ held = Cap
    /\ again = FALSE /\ late = FALSE /\ cut = FALSE

----------------------------------------------------------------------------
(* Time and the user                                                        *)

Press ==
    /\ pin' \in Button \ {pin}
    /\ irq' = ~polled
    /\ UNCHANGED <<polled, overlay, due, last, count, since, first, over, queue, histVars,
                   userVars>>

\* The poll and the interrupt thread are not late by more than a poll.
Tick ==
    /\ ~due /\ ~irq
    /\ due' = polled
    /\ since' = Min({since + 1, Cap})
    /\ UNCHANGED <<polled, overlay, pin, irq, last, count, first, over, queue, histVars,
                   userVars>>

Overflow ==
    /\ ~over /\ over' = TRUE
    /\ since' = IF first THEN 0 ELSE since
    /\ UNCHANGED <<polled, overlay, pin, due, irq, last, count, first, queue, histVars,
                   userVars>>

----------------------------------------------------------------------------
(* The driver                                                               *)

Resets(e) == e.action = "released" /\ e.seen = LongPress

\* button_hotplug_event: the time is kept whether or not there is memory for
\* the event.
ButtonEvent(action) ==
    /\ \/ Len(queue) < MaxQueue
          /\ queue' = Append(queue, [action |-> action, seen |-> since \div Hz])
       \/ UNCHANGED queue
    /\ since' = 0 /\ first' = FALSE
    /\ again' = (again \/ (/\ action = "pressed"
                           /\ reset \/ \E i \in DOMAIN queue : Resets(queue[i])))

NoEvent == UNCHANGED <<queue, since, first, again>>

\* Mutant: the debouncing begins anew only when the state was taken over.
CheckStateKeepsCount ==
    IF pin # last /\ count < Threshold
      THEN count' = count + 1 /\ UNCHANGED last /\ NoEvent
      ELSE /\ IF pin # last /\ last # "none" THEN ButtonEvent(pin) ELSE NoEvent
           /\ last' = pin
           /\ count' = IF pin # last THEN 0 ELSE count

\* gpio_keys_polled_check_state: the first state after the probe is no event.
CheckState ==
    IF pin # last /\ count < Threshold
      THEN count' = count + 1 /\ UNCHANGED last /\ NoEvent
      ELSE /\ IF pin # last /\ last # "none" THEN ButtonEvent(pin) ELSE NoEvent
           /\ last' = pin
           /\ count' = 0

Poll ==
    /\ due /\ due' = FALSE
    /\ CheckState
    /\ low' = IF pin = "released" THEN Min({low + 1, Threshold + 1}) ELSE 0
    /\ row' = IF pin = "pressed" THEN Min({row + 1, Long}) ELSE 0
    /\ IF low' = Threshold + 1
         THEN held' = 0 /\ high' = 0
         ELSE held' = Min({held + 1, Cap}) /\ high' = Max({high, row'})
    /\ UNCHANGED <<polled, overlay, pin, irq, over, reset, down, late, cut>>

\* button_handle_irq: the pin is read when the thread runs, and last_state is
\* not used.
HandleIrq ==
    /\ irq /\ irq' = FALSE
    /\ ButtonEvent(pin)
    /\ UNCHANGED <<polled, overlay, pin, due, last, count, over, histVars, reset, down,
                   late, cut>>

----------------------------------------------------------------------------
(* The work items, and the script                                           *)

Take(i) ==
    /\ queue' = RemoveAt(queue, i)
    /\ late' = (late \/ i > 1)

\* button_hotplug_work, when there is no memory for the message.
Lose ==
    /\ \E i \in DOMAIN queue : Take(i)
    /\ UNCHANGED <<polled, overlay, pin, driverVars, histVars, reset, down, again, cut>>

\* Mutant: the seconds are counted for "pressed" as well.
ScriptIgnoresAction(e) ==
    /\ down' = (down \/ e.seen < 1)
    /\ reset' = (reset \/ (e.seen = LongPress /\ overlay))
    /\ cut' = (cut \/ (e.seen < 1 /\ reset))

\* rc.button/reset. What procd does with "pressed" is not followed.
Script(e) ==
    LET click == e.action = "released" /\ e.seen < 1
    IN  /\ down' = (down \/ click)
        /\ reset' = (reset \/ (Resets(e) /\ overlay))
        /\ cut' = (cut \/ (click /\ reset))

\* A work item that waits for memory is overtaken by others.
Tell ==
    /\ \E i \in DOMAIN queue : Take(i) /\ Script(queue[i])
    /\ UNCHANGED <<polled, overlay, pin, driverVars, histVars, again>>

ResetDone ==
    /\ reset /\ down' = TRUE
    /\ UNCHANGED <<polled, overlay, pin, driverVars, queue, histVars, reset, again, late,
                   cut>>

Next ==
    /\ ~down
    /\ Press \/ Tick \/ Overflow \/ Poll \/ HandleIrq \/ Lose \/ Tell \/ ResetDone

Spec == Init /\ [][Next]_vars

----------------------------------------------------------------------------
(* Properties                                                               *)

\* Of a polled button, the time that comes with "released" is how long it was
\* held, whatever it bounced and whatever got lost: no sum of short presses
\* counts as a long one, and no long press as a click, except for one that
\* began before the driver and ends when the jiffies overflow.
SeenTellsHold ==
    [][last = "pressed" /\ last' = "released" =>
         LET seen == since \div Hz
         IN  /\ seen * Hz <= Min({held + 1, Cap})
             /\ seen < LongPress /\ ~first => high <= (seen + 1) * Hz + Threshold]_vars

\* A reset is not cut short by the reboot for a click, unless the button was
\* pressed again or an event came late. (An interrupt line that bounces on the
\* release does it too.)
ResetUncut == cut /\ polled => again \/ late
=============================================================================

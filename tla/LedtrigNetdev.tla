---------------------------- MODULE LedtrigNetdev ----------------------------
(* The netdev LED trigger (ledtrig-netdev.c): one LED, its notifier, its    *)
(* sysfs files and its delayed work. The driver is for all targets, so the  *)
(* work, a writer of a file and the network core run in parallel; each      *)
(* cancels the work first and takes the lock afterwards.                    *)
EXTENDS Netdev

CONSTANTS
    LedName,  \* what is written to device_name
    Modes,    \* of {"link", "act"}; act: tx or rx
    MaxLeak   \* bound: references that are lost, of all devices

ASSUME LedNameAssumption == LedName \subseteq IfName
ASSUME ModesAssumption == Modes \subseteq SUBSET {"link", "act"} 
ASSUME LeakAssumption == MaxLeak \in Nat

VARIABLES
    trig,     \* the trigger: "off", "on", or how far deactivate is
    lname,    \* device_name
    ldev,     \* net_dev
    mode,     \* what the LED tells
    linkUp,   \* link_up
    bright,   \* the LED is lit
    timer,    \* work is scheduled
    work,     \* the work function runs and has made its checks
    store,    \* what a writer is about to store, past its cancel
    leaked,   \* history: device -> references the trigger has forgotten
    raced,    \* history: when the work was cancelled last, somebody else was past
              \* his cancel and not yet in the lock
    mixed,    \* history: since the name was written, an event of a device was
              \* handled when another one had the name
    oops      \* a freed device or a NULL pointer was used

ledVars == <<trig, lname, ldev, mode, linkUp, bright, timer, work, store, leaked,
             raced, mixed, oops>>

Stores == [file : {"device_name"}, name : LedName \union {NoName}]
          \union [file : {"mode"}, mode : Modes]
NoStore == [file |-> "none"]

LedTypeOK ==
    /\ trig \in {"off", "on", "unhooked"}
    /\ lname \in LedName \union {NoName}
    /\ ldev \in Dev \union {NoDev}
    /\ mode \in Modes \union {{}}
    /\ linkUp \in BOOLEAN /\ bright \in BOOLEAN /\ timer \in BOOLEAN /\ work \in BOOLEAN
    /\ store \in Stores \union {NoStore}
    /\ leaked \in [Dev -> 0 .. MaxLeak]
    /\ raced \in BOOLEAN /\ mixed \in BOOLEAN
    /\ oops \in {"none", "led"}

LedInit ==
    /\ trig = "off" /\ lname = NoName /\ ldev = NoDev /\ mode = {}
    /\ linkUp = FALSE /\ bright = FALSE /\ timer = FALSE /\ work = FALSE
    /\ store = NoStore
    /\ leaked = [d \in Dev |-> 0]
    /\ raced = FALSE /\ mixed = FALSE /\ oops = "none"

\* set_baseline_state, with the mode and link state that are current.
Baseline(m, l) ==
    /\ bright' = ("link" \in m /\ l)
    /\ timer' = (timer \/ ("act" \in m /\ l))

Held(d) == [e \in Dev |-> IF e = d THEN 1 ELSE 0]
Put(d) == [e \in Dev |-> refs[e] - Held(d)[e]]

----------------------------------------------------------------------------
(* netdev_trig_notify: the name is compared without the lock.               *)

\* Mutant: NETDEV_UNREGISTER is not among the events it looks at.
ConcernedWhileThere ==
    trig = "on" /\ ifname[evt.dev] = lname /\ evt.kind # "unregister"

Concerned == trig = "on" /\ ifname[evt.dev] = lname
PassOn(at) == evt' = [evt EXCEPT !.at = at]

\* The name is another device's: that of one that is leaving was taken again, or
\* device_name was written after the comparison.
OtherHasName == Listed(lname) \ {evt.dev} # {}

LedNotConcerned ==
    /\ evt.at = "led" /\ ~Concerned
    /\ PassOn("trelay")
    /\ UNCHANGED <<reg, ifname, up, carrier, refs, rtnl, ledVars>>

\* cancel_delayed_work_sync waits for a work that runs.
LedNotifyCancel ==
    /\ evt.at = "led" /\ Concerned /\ ~work
    /\ timer' = FALSE
    /\ PassOn("locked")
    /\ raced' = (store # NoStore)
    /\ mixed' = (mixed \/ OtherHasName)
    /\ UNCHANGED <<reg, ifname, up, carrier, refs, rtnl, trig, lname, ldev, mode,
                   linkUp, bright, work, store, leaked, oops>>

\* Mutant: the old reference is kept.
LedTakeKeeps ==
    /\ evt.at = "locked" /\ evt.kind \in {"register", "changename"}
    /\ refs' = [e \in Dev |-> refs[e] + Held(evt.dev)[e]]
    /\ ldev' = evt.dev
    /\ linkUp' = FALSE
    /\ PassOn("trelay")
    /\ UNCHANGED <<reg, ifname, up, carrier, rtnl, trig, lname, mode, bright,
                   timer, work, store, leaked, raced, mixed, oops>>

LedTake ==
    /\ evt.at = "locked" /\ evt.kind \in {"register", "changename"}
    /\ refs' = [e \in Dev |-> Put(ldev)[e] + Held(evt.dev)[e]]
    /\ ldev' = evt.dev
    /\ linkUp' = FALSE
    /\ mixed' = OtherHasName
    /\ PassOn("trelay")
    /\ UNCHANGED <<reg, ifname, up, carrier, rtnl, trig, lname, mode, bright,
                   timer, work, store, leaked, raced, oops>>

\* Whatever device the trigger holds is let go; link_up stays.
LedLetGo ==
    /\ evt.at = "locked" /\ evt.kind = "unregister" /\ ldev # NoDev
    /\ refs' = Put(ldev)
    /\ ldev' = NoDev
    /\ PassOn("trelay")
    /\ UNCHANGED <<reg, ifname, up, carrier, rtnl, trig, lname, mode, linkUp,
                   bright, timer, work, store, leaked, raced, mixed, oops>>

LinkNow == evt.kind # "down" /\ carrier[evt.dev]

\* UP, DOWN, CHANGE, and an UNREGISTER that is sent again.
LedLink ==
    /\ evt.at = "locked"
    /\ \/ evt.kind \in {"up", "down", "change"}
       \/ evt.kind = "unregister" /\ ldev = NoDev
    /\ linkUp' = LinkNow
    /\ Baseline(mode, LinkNow)
    /\ mixed' = OtherHasName
    /\ PassOn("trelay")
    /\ UNCHANGED <<reg, ifname, up, carrier, refs, rtnl, trig, lname, ldev, mode,
                   work, store, leaked, raced, oops>>

LedNotify == LedNotConcerned \/ LedNotifyCancel \/ LedTake \/ LedLetGo \/ LedLink

----------------------------------------------------------------------------
(* The sysfs files. A write to interval is like one of the present mode.    *)

StoreCancel ==
    /\ trig \in {"on", "unhooked"} /\ store = NoStore /\ ~work
    /\ store' \in {s \in Stores : s.file = "device_name" =>
                                     s.name = NoName \/ \A d \in Dev : leaked[d] < MaxLeak}
    /\ timer' = FALSE
    /\ raced' = (evt.at = "locked")
    /\ UNCHANGED <<netVars, trig, lname, ldev, mode, linkUp, bright, work, leaked, mixed,
                   oops>>

\* led_device_name_store: the reference that was held is not dropped; an empty
\* name leaves net_dev.
StoreName ==
    /\ store.file = "device_name"
    /\ lname' = store.name
    /\ IF store.name = NoName
         THEN /\ linkUp' = FALSE /\ Baseline(mode, FALSE)
              /\ UNCHANGED <<ldev, refs, leaked>>
         ELSE /\ ldev' = IF Listed(store.name) = {} THEN NoDev
                         ELSE CHOOSE d \in Listed(store.name) : TRUE
              /\ refs' = [e \in Dev |-> refs[e] + Held(ldev')[e]]
              /\ leaked' = [e \in Dev |-> leaked[e] + Held(ldev)[e]]
              /\ linkUp' = (ldev' # NoDev /\ up[ldev'] /\ carrier[ldev'])
              /\ Baseline(mode, linkUp')
    /\ store' = NoStore /\ mixed' = FALSE
    /\ UNCHANGED <<reg, ifname, up, carrier, rtnl, evt, trig, mode, work, raced,
                   oops>>

\* Mutant: the LED is left as it is.
StoreModeQuiet ==
    /\ store.file = "mode"
    /\ mode' = store.mode
    /\ store' = NoStore
    /\ UNCHANGED <<netVars, trig, lname, ldev, linkUp, bright, timer, work, leaked, raced,
                   mixed, oops>>

\* led_mode_store and led_interval_store.
StoreMode ==
    /\ store.file = "mode"
    /\ mode' = store.mode
    /\ Baseline(mode', linkUp)
    /\ store' = NoStore
    /\ UNCHANGED <<netVars, trig, lname, ldev, linkUp, work, leaked, raced, mixed, oops>>

----------------------------------------------------------------------------
(* netdev_trig_work, without the lock.                                      *)

WorkBegin ==
    /\ timer /\ ~work
    /\ timer' = FALSE
    /\ IF ~linkUp \/ ldev = NoDev \/ "act" \notin mode
         THEN bright' = ("link" \in mode /\ linkUp) /\ UNCHANGED work
         ELSE work' = TRUE /\ UNCHANGED bright
    /\ UNCHANGED <<netVars, trig, lname, ldev, mode, linkUp, store, leaked, raced, mixed,
                   oops>>

\* dev_get_stats; the LED blinks if there was traffic.
WorkUse ==
    /\ work
    /\ IF ldev # NoDev /\ reg[ldev] # "freed" THEN UNCHANGED oops ELSE oops' = "led"
    /\ bright' \in BOOLEAN
    /\ work' = FALSE
    /\ timer' = TRUE
    /\ UNCHANGED <<netVars, trig, lname, ldev, mode, linkUp, store, leaked, raced, mixed>>

----------------------------------------------------------------------------
(* netdev_trig_activate, netdev_trig_deactivate                             *)

Activate ==
    /\ trig = "off"
    /\ trig' = "on"
    /\ UNCHANGED <<netVars, lname, ldev, mode, linkUp, bright, timer, work, store, leaked,
                   raced, mixed, oops>>

\* unregister_netdevice_notifier sends DOWN and UNREGISTER for every device
\* there is.
Unhook ==
    /\ trig = "on" /\ ~rtnl
    /\ trig' = "unhooked"
    /\ IF Listed(lname) = {} THEN UNCHANGED <<refs, ldev, linkUp, bright, timer>>
       ELSE LET d == CHOOSE e \in Listed(lname) : TRUE
                l == IF ldev = NoDev THEN carrier[d] ELSE linkUp /\ ~up[d]
            IN  /\ ~work
                /\ refs' = Put(ldev) /\ ldev' = NoDev
                /\ linkUp' = l
                /\ bright' = IF ldev = NoDev \/ up[d] THEN "link" \in mode /\ l ELSE bright
                /\ timer' = ("act" \in mode /\ l /\ ldev = NoDev)
    /\ UNCHANGED <<reg, ifname, up, carrier, rtnl, evt, lname, mode, work, store,
                   leaked, raced, mixed, oops>>

\* Mutant: the work is not cancelled.
ReleaseWithoutCancel ==
    /\ trig = "unhooked" /\ store = NoStore
    /\ trig' = "off"
    /\ refs' = Put(ldev) /\ ldev' = NoDev
    /\ UNCHANGED <<reg, ifname, up, carrier, rtnl, evt, lname, mode, linkUp,
                   bright, timer, work, store, leaked, raced, mixed, oops>>

\* The files are removed once no writer is in them; then the work is cancelled,
\* and the data freed. The LED core switches the LED off.
Release ==
    /\ trig = "unhooked" /\ store = NoStore /\ ~work
    /\ trig' = "off"
    /\ timer' = FALSE /\ bright' = FALSE
    /\ refs' = Put(ldev) /\ ldev' = NoDev
    /\ lname' = NoName /\ mode' = {} /\ linkUp' = FALSE
    /\ UNCHANGED <<reg, ifname, up, carrier, rtnl, evt, work, store, leaked, raced,
                   mixed, oops>>

LedRuns == StoreName \/ StoreMode \/ WorkBegin \/ WorkUse
LedNext == LedNotify \/ StoreCancel \/ LedRuns \/ Activate \/ Unhook \/ Release
=============================================================================

----------------------------- MODULE NetdevUsers -----------------------------
(* The netdev LED trigger and trelay on the same devices. Both hold         *)
(* references that keep a device from being freed, and both hear of its     *)
(* unregistering by the notifier chain.                                     *)
EXTENDS LedtrigNetdev, Trelay

vars == <<netVars, ledVars, relayVars>>

TypeOK == NetTypeOK /\ LedTypeOK /\ RelayTypeOK

Init == NetInit /\ LedInit /\ RelayInit

Alive == oops = "none" /\ ~lost

Next ==
    /\ Alive
    /\ \/ NetNext /\ UNCHANGED <<ledVars, relayVars>>
       \/ LedNext /\ UNCHANGED relayVars
       \/ RelayNext /\ UNCHANGED ledVars

Spec == Init /\ [][Next]_vars

\* What has been begun goes on. Where it waits for the rtnl lock, for a work or
\* a writer to end, it is not overtaken for ever: the lock is fair, a waiting
\* cancel_delayed_work_sync bars a new start of the work, and the removal of a
\* file bars new writers.
LockHolder ==
    \/ LedNotify /\ UNCHANGED relayVars
    \/ (RemoveHandler \/ RelayEvent) /\ UNCHANGED ledVars
Fairness ==
    /\ \A d \in Dev :
         SF_vars(Alive /\ (Free(d) \/ Rebroadcast(d)) /\ UNCHANGED <<ledVars, relayVars>>)
    /\ SF_vars(Alive /\ LockHolder)
    /\ SF_vars(Alive /\ Release /\ UNCHANGED relayVars)
    /\ WF_vars(Alive /\ (StoreName \/ StoreMode) /\ UNCHANGED relayVars)
    /\ WF_vars(Alive /\ WorkUse /\ UNCHANGED relayVars)

FairSpec == Spec /\ Fairness

----------------------------------------------------------------------------
(* Properties                                                               *)

Holders(d) ==
    (IF ldev = d THEN 1 ELSE 0)
    + (IF relay # <<>> /\ d \in {relay[1], relay[2]} THEN 1 ELSE 0)

\* A reference is counted for every pointer that a driver keeps, and for none
\* that it does not, but for those that a new device_name makes the trigger
\* forget: a device is neither freed under a user nor kept without one.
RefsCounted == \A d \in Dev :
    /\ refs[d] = Holders(d) + leaked[d]
    /\ refs[d] > 0 => reg[d] \in {"listed", "leaving"}

\* The work takes neither the lock nor a reference: it is safe because whoever
\* changes net_dev has cancelled it before. That fails only where a writer and
\* the notifier are past their cancels together.
WorkUsesHeld == oops = "led" => raced

\* No frame is sent to a device that is freed, and no handler of such a device
\* is reset: a relay holds both devices until it is removed, and the lock keeps
\* them until their handlers are gone, unless one was leaving before.
RelayUsesHeld ==
    ~late => /\ ~lost
             /\ \A d \in Dev : hook[d] # NoDev => reg[hook[d]] \in {"listed", "leaving"}

\* When nothing is under way and the device that the LED is named for is up, a
\* LED in mode "link" is lit exactly if the device has a carrier: no order of
\* registering, naming, opening and link changes leaves it wrong, unless an
\* event was taken for a device whose name belongs to another one by then.
Settled == evt = NoEvent /\ store = NoStore /\ ~timer /\ ~work
LedTellsLink ==
    Settled /\ trig = "on" /\ mode = {"link"} /\ ~mixed =>
        \A d \in Listed(lname) : up[d] => (bright <=> carrier[d])

\* A device that is unregistered goes away, unless one of the faults keeps its
\* reference: a relay, which does not notice, a forgotten one, or the trigger
\* when the device was renamed.
Kept(d) == \/ d \in {relay[k] : k \in DOMAIN relay}
           \/ leaked[d] > 0
           \/ ldev = d /\ lname # ifname[d]
UnregisterEnds ==
    \A d \in Dev : reg[d] = "leaving" ~> (reg[d] = "freed" \/ Kept(d) \/ ~Alive)
=============================================================================

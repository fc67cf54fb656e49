------------------------------- MODULE Trelay -------------------------------
(* The trelay module (package/kernel/trelay): it forwards all frames of one *)
(* device to another, by receive handlers that each device points to. The   *)
(* model has one relay at a time.                                           *)
EXTENDS Netdev

CONSTANT Loaded \* the module is loaded

ASSUME LoadedAssumption == Loaded \in BOOLEAN

VARIABLES
    relay,    \* <<dev1, dev2>> of the relay in trelay_devs, or <<>>
    hook,     \* device -> rx_handler_data, the device frames are sent to
    removing, \* the devices of which trelay_do_remove still resets the handler
    late,     \* history: a relay was removed when a device of it was leaving
    lost      \* a removal touched a device that was freed

relayVars == <<relay, hook, removing, late, lost>>

RelayTypeOK ==
    /\ relay \in {<<>>} \union (Dev \X Dev)
    /\ hook \in [Dev -> Dev \union {NoDev}]
    /\ removing \in {<<>>} \union (Dev \X Dev) \union {<<d>> : d \in Dev}
    /\ late \in BOOLEAN /\ lost \in BOOLEAN

RelayInit ==
    /\ relay = <<>>
    /\ hook = [d \in Dev |-> NoDev]
    /\ removing = <<>>
    /\ late = FALSE /\ lost = FALSE

\* trelay_do_add. A device that has a receive handler is refused.
Add(d1, d2) ==
    /\ Loaded /\ ~rtnl /\ relay = <<>>
    /\ d1 # d2
    /\ \A d \in {d1, d2} : reg[d] = "listed" /\ hook[d] = NoDev
    /\ hook' = [hook EXCEPT ![d1] = d2, ![d2] = d1]
    /\ refs' = [d \in Dev |-> IF d \in {d1, d2} THEN refs[d] + 1 ELSE refs[d]]
    /\ relay' = <<d1, d2>>
    /\ UNCHANGED <<reg, ifname, up, carrier, rtnl, evt, removing, late, lost>>

\* Mutant: the first device is put twice.
RemovePutsTwice ==
    /\ ~rtnl /\ rtnl' = TRUE
    /\ relay # <<>>
    /\ refs' = [refs EXCEPT ![relay[1]] = @ - 2]
    /\ removing' = relay
    /\ relay' = <<>>
    /\ late' = (late \/ reg[relay[1]] # "listed" \/ reg[relay[2]] # "listed")
    /\ UNCHANGED <<reg, ifname, up, carrier, evt, hook, lost>>

\* Mutant: no rtnl_lock in trelay_remove_write.
RemoveUnlocked ==
    /\ relay # <<>>
    /\ refs' = [d \in Dev |-> IF d \in {relay[1], relay[2]} THEN refs[d] - 1 ELSE refs[d]]
    /\ removing' = relay
    /\ relay' = <<>>
    /\ late' = (late \/ reg[relay[1]] # "listed" \/ reg[relay[2]] # "listed")
    /\ UNCHANGED <<reg, ifname, up, carrier, rtnl, evt, hook, lost>>

\* trelay_do_remove: list_del, and the references first.
RemoveBegin ==
    /\ ~rtnl /\ rtnl' = TRUE
    /\ relay # <<>>
    /\ refs' = [d \in Dev |-> IF d \in {relay[1], relay[2]} THEN refs[d] - 1 ELSE refs[d]]
    /\ removing' = relay
    /\ relay' = <<>>
    /\ late' = (late \/ reg[relay[1]] # "listed" \/ reg[relay[2]] # "listed")
    /\ UNCHANGED <<reg, ifname, up, carrier, evt, hook, lost>>

\* netdev_rx_handler_unregister, which waits for all packet processing to end.
RemoveHandler ==
    /\ removing # <<>>
    /\ LET d == removing[1]
       IN  /\ hook' = [hook EXCEPT ![d] = NoDev]
           /\ lost' = (lost \/ reg[d] = "freed")
    /\ removing' = IF removing = <<removing[1]>> THEN <<>> ELSE <<removing[2]>>
    /\ rtnl' = (removing' # <<>>)
    /\ UNCHANGED <<reg, ifname, up, carrier, refs, evt, relay, late>>

\* tr_device_event takes the pointer to the event for one to a device, which
\* no relay has: the event changes nothing.
RelayEvent ==
    /\ evt.at = "trelay"
    /\ evt' = NoEvent
    /\ rtnl' = FALSE
    /\ UNCHANGED <<reg, ifname, up, carrier, refs, relayVars>>

RelayNext ==
    \/ \E d1, d2 \in Dev : Add(d1, d2)
    \/ RemoveBegin \/ RemoveHandler \/ RelayEvent
=============================================================================

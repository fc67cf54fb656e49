------------------------------- MODULE Netdev -------------------------------
(* What the drivers below use of the network core: registration of devices, *)
(* names, link state, references, and the chain of notifiers, which is      *)
(* called under the rtnl lock. A device whose unregistering has begun is    *)
(* not found by name any more; it is freed when nobody holds a reference,   *)
(* and until then NETDEV_UNREGISTER is sent again and again.                *)
EXTENDS Naturals, FiniteSets

CONSTANTS
    Dev, NoDev,      \* devices: each is registered once
    IfName, NoName,
    Links            \* bound: the devices that are opened and whose link changes

ASSUME NoDevAssumption == NoDev \notin Dev
ASSUME LinksAssumption == Links \subseteq Dev
ASSUME NoNameAssumption == NoName \notin IfName

VARIABLES
    reg,      \* device -> "none", "listed", "leaving", or "freed"
    ifname,   \* device -> its name
    up,       \* device -> IFF_UP
    carrier,  \* device -> netif_carrier_ok
    refs,     \* device -> references that drivers hold
    rtnl,     \* the rtnl lock is held
    evt       \* the event that is being sent, and who gets it next

netVars == <<reg, ifname, up, carrier, refs, rtnl, evt>>

Kinds == {"register", "unregister", "up", "down", "change", "changename"}
NoEvent == [kind |-> "none", dev |-> NoDev, at |-> "none"]

\* Drivers in the order of their priority; "locked": in the middle of the first.
Chain == {"led", "locked", "trelay"}

NetTypeOK ==
    /\ reg \in [Dev -> {"none", "listed", "leaving", "freed"}]
    /\ ifname \in [Dev -> IfName \union {NoName}]
    /\ up \in [Dev -> BOOLEAN]
    /\ carrier \in [Dev -> BOOLEAN]
    /\ refs \in [Dev -> Nat]
    /\ rtnl \in BOOLEAN
    /\ evt \in [kind : Kinds, dev : Dev, at : Chain] \union {NoEvent}

NetInit ==
    /\ reg = [d \in Dev |-> "none"]
    /\ ifname = [d \in Dev |-> NoName]
    /\ up = [d \in Dev |-> FALSE]
    /\ carrier = [d \in Dev |-> FALSE]
    /\ refs = [d \in Dev |-> 0]
    /\ rtnl = FALSE
    /\ evt = NoEvent

Listed(n) == {d \in Dev : reg[d] = "listed" /\ ifname[d] = n}

\* Under the rtnl lock, an event goes down the chain.
Notify(kind, d) ==
    /\ ~rtnl /\ rtnl' = TRUE
    /\ evt' = [kind |-> kind, dev |-> d, at |-> "led"]

\* A device has a carrier until its driver says otherwise.
Register(d, n) ==
    /\ reg[d] = "none" /\ Listed(n) = {}
    /\ reg' = [reg EXCEPT ![d] = "listed"]
    /\ ifname' = [ifname EXCEPT ![d] = n]
    /\ carrier' = [carrier EXCEPT ![d] = TRUE]
    /\ Notify("register", d)
    /\ UNCHANGED <<up, refs>>

Open(d) ==
    /\ d \in Links /\ reg[d] = "listed" /\ ~up[d]
    /\ up' = [up EXCEPT ![d] = TRUE]
    /\ Notify("up", d)
    /\ UNCHANGED <<reg, ifname, carrier, refs>>

Close(d) ==
    /\ reg[d] = "listed" /\ up[d]
    /\ up' = [up EXCEPT ![d] = FALSE]
    /\ Notify("down", d)
    /\ UNCHANGED <<reg, ifname, carrier, refs>>

\* The device's driver calls netif_carrier_on or _off, and linkwatch tells.
CarrierChanges(d) ==
    /\ d \in Links /\ reg[d] = "listed" /\ ~rtnl
    /\ carrier' = [carrier EXCEPT ![d] = ~@]
    /\ IF up[d] THEN Notify("change", d) ELSE UNCHANGED <<rtnl, evt>>
    /\ UNCHANGED <<reg, ifname, up, refs>>

\* A device that is up is not renamed.
Rename(d, n) ==
    /\ reg[d] = "listed" /\ ~up[d] /\ Listed(n) = {}
    /\ ifname' = [ifname EXCEPT ![d] = n]
    /\ Notify("changename", d)
    /\ UNCHANGED <<reg, up, carrier, refs>>

\* A device that is up is closed first.
Unregister(d) ==
    /\ reg[d] = "listed" /\ ~up[d]
    /\ reg' = [reg EXCEPT ![d] = "leaving"]
    /\ Notify("unregister", d)
    /\ UNCHANGED <<ifname, up, carrier, refs>>

\* netdev_wait_allrefs, without the lock.
Rebroadcast(d) ==
    /\ reg[d] = "leaving" /\ refs[d] > 0
    /\ Notify("unregister", d)
    /\ UNCHANGED <<reg, ifname, up, carrier, refs>>

Free(d) ==
    /\ reg[d] = "leaving" /\ refs[d] = 0 /\ evt.dev # d
    /\ reg' = [reg EXCEPT ![d] = "freed"]
    /\ ifname' = [ifname EXCEPT ![d] = NoName]
    /\ carrier' = [carrier EXCEPT ![d] = FALSE]
    /\ UNCHANGED <<up, refs, rtnl, evt>>

NetNext ==
    \E d \in Dev :
        \/ Open(d) \/ Close(d) \/ CarrierChanges(d)
        \/ Unregister(d) \/ Rebroadcast(d) \/ Free(d)
        \/ \E n \in IfName : Register(d, n) \/ Rename(d, n)
=============================================================================

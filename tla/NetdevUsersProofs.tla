-------------------------- MODULE NetdevUsersProofs --------------------------
(* What NetdevUsers keeps for every set of devices and names.               *)
EXTENDS NetdevUsers, TLAPS

\* A writer that is about to store a name may forget one reference more.
StoreHasRoom ==
    store.file = "device_name" /\ store.name # NoName => \A d \in Dev : leaked[d] < MaxLeak

\* An event is sent under the lock, about a device that is not freed.
EventIsHeld ==
    evt # NoEvent => /\ rtnl /\ removing = <<>>
                     /\ reg[evt.dev] \in {"listed", "leaving"}

\* A relay joins two devices, and none is added while one is removed.
RelayIsPair ==
    /\ relay # <<>> => relay[1] # relay[2]
    /\ removing # <<>> => rtnl /\ relay = <<>>

CountInv == TypeOK /\ RefsCounted /\ StoreHasRoom /\ EventIsHeld /\ RelayIsPair

-----------------------------------------------------------------------------

LEMMA InitCounted == Init => CountInv
<1> SUFFICES ASSUME Init PROVE CountInv
  OBVIOUS
<1> USE DEF Init, NetInit, LedInit, RelayInit
<1>1. NetTypeOK
  BY DEF NetTypeOK
<1>2. LedTypeOK
  <2>1. leaked \in [Dev -> 0 .. MaxLeak]
    BY LeakAssumption
  <2>2. store \in Stores \union {NoStore} 
    OBVIOUS
  <2>4. mode \in Modes \union {{}}
    OBVIOUS
  <2>3. QED
    BY <2>1, <2>2, <2>4 DEF LedTypeOK
<1>3. RelayTypeOK
  BY DEF RelayTypeOK
<1>4. RefsCounted
  BY NoDevAssumption DEF RefsCounted, Holders
<1>5. StoreHasRoom /\ EventIsHeld /\ RelayIsPair
  BY DEF StoreHasRoom, EventIsHeld, RelayIsPair, NoStore, NoEvent
<1> QED
  BY <1>1, <1>2, <1>3, <1>4, <1>5 DEF CountInv, TypeOK

LEMMA CountedNet ==
  ASSUME CountInv, NetNext, UNCHANGED <<ledVars, relayVars>>
  PROVE  CountInv'
<1> PICK d \in Dev :
        \/ Open(d) \/ Close(d) \/ CarrierChanges(d)
        \/ Unregister(d) \/ Rebroadcast(d) \/ Free(d)
        \/ \E n \in IfName : Register(d, n) \/ Rename(d, n)
  BY DEF NetNext
<1> USE NoDevAssumption DEF CountInv, ledVars, relayVars
<1>1. (LedTypeOK /\ RelayTypeOK /\ StoreHasRoom)'
  BY DEF TypeOK, LedTypeOK, RelayTypeOK, StoreHasRoom
<1>2. refs' = refs /\ (rtnl' = rtnl \/ rtnl')
  BY DEF Open, Close, CarrierChanges, Unregister, Rebroadcast, Free, Register, Rename,
         Notify
<1>3. NetTypeOK'
  <2> USE DEF TypeOK, NetTypeOK
  <2>1. \/ UNCHANGED <<rtnl, evt>>
        \/ rtnl' = TRUE /\ \E k \in Kinds : evt' = [kind |-> k, dev |-> d, at |-> "led"]
    BY DEF Open, Close, CarrierChanges, Unregister, Rebroadcast, Free, Register, Rename,
           Notify, Kinds
  <2>5. (rtnl \in BOOLEAN)'
    BY <2>1
  <2>6. (evt \in [kind : Kinds, dev : Dev, at : Chain] \union {NoEvent})'
    BY <2>1 DEF Chain
  <2>2. (ifname \in [Dev -> IfName \union {NoName}])'
    BY DEF Open, Close, CarrierChanges, Unregister, Rebroadcast, Free, Register, Rename
  <2>3. (reg \in [Dev -> {"none", "listed", "leaving", "freed"}])'
    BY DEF Open, Close, CarrierChanges, Unregister, Rebroadcast, Free, Register, Rename
  <2>4. (up \in [Dev -> BOOLEAN] /\ carrier \in [Dev -> BOOLEAN])'
    BY DEF Open, Close, CarrierChanges, Unregister, Rebroadcast, Free, Register, Rename
  <2> QED
    BY <1>2, <2>5, <2>6, <2>2, <2>3, <2>4
<1>4. RefsCounted'
  BY <1>2 DEF TypeOK, NetTypeOK, RefsCounted, Holders, Open, Close, CarrierChanges, Unregister,
         Rebroadcast, Free, Register, Rename
<1>5. EventIsHeld'
  BY DEF TypeOK, NetTypeOK, NoEvent, RelayIsPair, EventIsHeld, Open, Close, CarrierChanges, Unregister, Rebroadcast,
         Free, Register, Rename, Notify
<1>6. RelayIsPair'
  BY <1>2 DEF TypeOK, NetTypeOK, RelayIsPair
<1> QED
  BY <1>1, <1>3, <1>4, <1>5, <1>6 DEF TypeOK

\* What a step that moves references has to keep.
LEMMA PutLed ==
  ASSUME CountInv
  PROVE  /\ Put(ldev) \in [Dev -> Nat]
         /\ \A d \in Dev : Put(ldev)[d] = refs[d] - (IF ldev = d THEN 1 ELSE 0)
  BY NoDevAssumption DEF CountInv, TypeOK, NetTypeOK, LedTypeOK, RefsCounted, Holders, Put, Held

\* The steps of the trigger that let go of the device, and take no other.
LEMMA CountedLetGo ==
  ASSUME CountInv, refs' = Put(ldev), ldev' = NoDev, UNCHANGED <<reg, relay, leaked>>
  PROVE  (refs \in [Dev -> Nat])' /\ RefsCounted'
  BY PutLed, NoDevAssumption, SMTT(30)
  DEF CountInv, TypeOK, NetTypeOK, LedTypeOK, RefsCounted, Holders

\* The trigger changes no device, and moves an event along the chain.
LEMMA LedLeavesDevices ==
  ASSUME LedNext
  PROVE  UNCHANGED <<reg, ifname, up, carrier, rtnl>>
  BY DEF LedNext, LedNotify, LedRuns, LedNotConcerned, LedNotifyCancel, LedTake, LedLetGo,
         LedLink, StoreCancel, StoreName, StoreMode, WorkBegin, WorkUse, Activate, Unhook,
         Release, netVars

LEMMA LedPassesOn ==
  ASSUME LedNext
  PROVE  evt' = evt \/ (evt.at \in {"led", "locked"} /\ \E at \in Chain : PassOn(at))
  BY DEF LedNext, LedNotify, LedRuns, LedNotConcerned, LedNotifyCancel, LedTake, LedLetGo,
         LedLink, StoreCancel, StoreName, StoreMode, WorkBegin, WorkUse, Activate, Unhook,
         Release, netVars, Chain

\* What the trigger may do with its reference.
LetsGo == refs' = Put(ldev) /\ ldev' = NoDev /\ leaked' = leaked
Takes  == /\ evt # NoEvent /\ ldev' = evt.dev /\ leaked' = leaked
          /\ refs' = [e \in Dev |-> Put(ldev)[e] + Held(evt.dev)[e]]
Forgets == /\ store.file = "device_name" /\ store.name # NoName
           /\ ldev' \in Dev \union {NoDev}
           /\ ldev' # NoDev => reg[ldev'] = "listed"
           /\ refs' = [e \in Dev |-> refs[e] + Held(ldev')[e]]
           /\ leaked' = [e \in Dev |-> leaked[e] + Held(ldev)[e]]

LEMMA LedMovesReferences ==
  ASSUME LedNext
  PROVE  UNCHANGED <<refs, ldev, leaked>> \/ LetsGo \/ Takes \/ Forgets
<1>1. CASE StoreName
  <2>1. CASE store.name = NoName
    BY <1>1, <2>1 DEF StoreName
  <2>2. CASE store.name # NoName
    <3>1. ldev' # NoDev => ldev' \in Listed(store.name)
      BY <1>1, <2>2 DEF StoreName
    <3> QED
      BY <1>1, <2>2, <3>1 DEF StoreName, Forgets, Listed
  <2> QED
    BY <2>1, <2>2
<1>2. CASE LedTake
  BY <1>2 DEF LedTake, Takes, NoEvent
<1>3. CASE LedLetGo \/ Unhook \/ Release
  BY <1>3 DEF LedLetGo, Unhook, Release, LetsGo
<1>4. CASE \/ LedNotConcerned \/ LedNotifyCancel \/ LedLink \/ StoreCancel \/ StoreMode
           \/ WorkBegin \/ WorkUse \/ Activate
  BY <1>4 DEF LedNotConcerned, LedNotifyCancel, LedLink, StoreCancel, StoreMode, WorkBegin,
              WorkUse, Activate, netVars, ledVars
<1> QED
  BY <1>1, <1>2, <1>3, <1>4 DEF LedNext, LedNotify, LedRuns

\* The references stay right.
LEMMA LedKeepsCount ==
  ASSUME CountInv, LedNext, UNCHANGED relayVars
  PROVE  /\ (refs \in [Dev -> Nat])' /\ RefsCounted'
         /\ (ldev \in Dev \union {NoDev})' /\ (leaked \in [Dev -> 0 .. MaxLeak])'
<1> USE NoDevAssumption DEF CountInv, TypeOK, NetTypeOK, LedTypeOK
<1>1. UNCHANGED <<reg, relay>>
  BY LedLeavesDevices DEF relayVars
<1>2. CASE UNCHANGED <<refs, ldev, leaked>>
  BY <1>1, <1>2 DEF RefsCounted, Holders
<1>3. CASE LetsGo
  BY <1>1, <1>3, CountedLetGo DEF LetsGo
<1>4. CASE Takes
  <2>1. evt.dev \in Dev /\ reg[evt.dev] \in {"listed", "leaving"}
    BY <1>4 DEF Takes, EventIsHeld, NoEvent
  <2>2. \A d \in Dev : refs'[d] = refs[d] - (IF ldev = d THEN 1 ELSE 0)
                                          + (IF evt.dev = d THEN 1 ELSE 0)
    BY <1>4, PutLed DEF Takes, Held
  <2>3. \A d \in Dev : refs[d] - (IF ldev = d THEN 1 ELSE 0) \in Nat
    BY PutLed
  <2>4. refs' \in [Dev -> Nat]
    BY <1>4, <2>2, <2>3 DEF Takes
  <2>5. ASSUME NEW d \in Dev
        PROVE  refs'[d] = Holders(d)' + leaked'[d]
    <3>1. relay' = relay /\ ldev' = evt.dev /\ leaked' = leaked /\ leaked[d] \in Nat
      BY <1>1, <1>4 DEF Takes
    <3>2. refs[d] = Holders(d) + leaked[d]
      BY DEF RefsCounted
    <3> QED
      BY <2>2, <3>1, <3>2 DEF Holders
  <2>6. \A d \in Dev : refs'[d] > 0 => reg'[d] \in {"listed", "leaving"}
    BY <1>1, <2>1, <2>2 DEF RefsCounted
  <2> QED
    BY <1>4, <2>1, <2>4, <2>5, <2>6 DEF Takes, RefsCounted
<1>5. CASE Forgets
  <2>1. \A d \in Dev : leaked[d] < MaxLeak
    BY <1>5 DEF Forgets, StoreHasRoom
  <2>2. \A d \in Dev : /\ leaked'[d] = leaked[d] + (IF ldev = d THEN 1 ELSE 0)
                       /\ refs'[d] = refs[d] + (IF ldev' = d THEN 1 ELSE 0)
    BY <1>5 DEF Forgets, Held
  <2>3. (refs \in [Dev -> Nat])' /\ (leaked \in [Dev -> 0 .. MaxLeak])'
    BY <1>5, <2>1, <2>2, LeakAssumption DEF Forgets
  <2>4. ASSUME NEW d \in Dev
        PROVE  refs'[d] = Holders(d)' + leaked'[d]
    <3>1. relay' = relay /\ ldev' \in Dev \union {NoDev} /\ leaked[d] \in Nat
      BY <1>1, <1>5 DEF Forgets
    <3>2. refs[d] = Holders(d) + leaked[d]
      BY DEF RefsCounted
    <3> QED
      BY <2>2, <3>1, <3>2 DEF Holders
  <2>5. \A d \in Dev : refs'[d] > 0 => reg'[d] \in {"listed", "leaving"}
    BY <1>1, <1>5, <2>2 DEF Forgets, RefsCounted
  <2> QED
    BY <1>5, <2>3, <2>4, <2>5 DEF Forgets, RefsCounted
<1> QED
  BY <1>2, <1>3, <1>4, <1>5, LedMovesReferences

\* What a writer may be about to store.
LEMMA LedKeepsStore ==
  ASSUME CountInv, LedNext
  PROVE  /\ (store \in Stores \union {NoStore})' /\ StoreHasRoom'
<1> USE DEF CountInv, TypeOK, LedTypeOK
<1>1. CASE StoreCancel
  <2>1. store' \in Stores /\ leaked' = leaked
    BY <1>1 DEF StoreCancel
  <2> QED
    BY <1>1, <2>1 DEF StoreCancel, StoreHasRoom
<1>2. CASE store' = NoStore
  BY <1>2 DEF NoStore, StoreHasRoom
<1>3. CASE UNCHANGED <<store, leaked>>
  BY <1>3 DEF StoreHasRoom
<1> QED
  BY <1>1, <1>2, <1>3
  DEF LedNext, LedNotify, LedRuns, LedNotConcerned, LedNotifyCancel, LedTake, LedLetGo,
      LedLink, StoreName, StoreMode, WorkBegin, WorkUse, Activate, Unhook, Release, ledVars

\* The rest of the trigger's state.
LEMMA LedKeepsType ==
  ASSUME CountInv, LedNext, UNCHANGED relayVars
  PROVE  LedTypeOK'
<1> USE DEF CountInv, TypeOK, LedTypeOK
<1>1. (trig \in {"off", "on", "unhooked"} /\ oops \in {"none", "led"})'
  BY DEF LedNext, LedNotify, LedRuns, LedNotConcerned, LedNotifyCancel, LedTake, LedLetGo,
         LedLink, StoreCancel, StoreName, StoreMode, WorkBegin, WorkUse, Activate, Unhook,
         Release, ledVars
<1>2. (work \in BOOLEAN /\ raced \in BOOLEAN)'
  BY DEF LedNext, LedNotify, LedRuns, LedNotConcerned, LedNotifyCancel, LedTake, LedLetGo,
         LedLink, StoreCancel, StoreName, StoreMode, WorkBegin, WorkUse, Activate, Unhook,
         Release, ledVars
<1>5. (mixed \in BOOLEAN)'
  <2>1. OtherHasName \in BOOLEAN
    BY DEF OtherHasName
  <2>2. mixed' = mixed \/ mixed' = (mixed \/ OtherHasName) \/ mixed' = OtherHasName \/ mixed' = FALSE
    BY DEF LedNext, LedNotify, LedRuns, LedNotConcerned, LedNotifyCancel, LedTake, LedLetGo,
           LedLink, StoreCancel, StoreName, StoreMode, WorkBegin, WorkUse, Activate, Unhook,
           Release, ledVars
  <2> QED
    BY <2>1, <2>2
<1>3. (lname \in LedName \union {NoName} /\ mode \in Modes \union {{}})'
  <2>1. CASE StoreName
    BY <2>1 DEF StoreName, Stores, NoStore
  <2>2. CASE StoreMode
    BY <2>2 DEF StoreMode, Stores, NoStore
  <2> QED
    BY <2>1, <2>2
    DEF LedNext, LedNotify, LedRuns, LedNotConcerned, LedNotifyCancel, LedTake, LedLetGo,
        LedLink, StoreCancel, WorkBegin, WorkUse, Activate, Unhook, Release, ledVars
<1>4. (linkUp \in BOOLEAN /\ bright \in BOOLEAN /\ timer \in BOOLEAN)'
  <2>1. CASE StoreName
    <3>1. CASE store.name = NoName
      BY <2>1, <3>1 DEF StoreName, Baseline
    <3>2. CASE store.name # NoName
      BY <2>1, <3>2 DEF StoreName, Baseline
    <3> QED
      BY <3>1, <3>2
  <2>2. CASE LedLink
    <3>1. linkUp' = LinkNow /\ Baseline(mode, LinkNow)
      BY <2>2 DEF LedLink
    <3> QED
      <4>1. LinkNow \in BOOLEAN
        BY DEF LinkNow, NetTypeOK
      <4> QED
        BY <3>1, <4>1 DEF Baseline
  <2>3. CASE Unhook
    <3>1. CASE Listed(lname) = {}
      BY <2>3, <3>1 DEF Unhook
    <3>2. CASE Listed(lname) # {}
      <4> DEFINE d == CHOOSE e \in Listed(lname) : TRUE
                 l == IF ldev = NoDev THEN carrier[d] ELSE linkUp /\ ~up[d]
      <4>1. d \in Dev
        BY <3>2 DEF Listed
      <4>2. l \in BOOLEAN
        BY <4>1 DEF NetTypeOK
      <4>3. /\ linkUp' = l
            /\ bright' = IF ldev = NoDev \/ up[d] THEN "link" \in mode /\ l ELSE bright
            /\ timer' = ("act" \in mode /\ l /\ ldev = NoDev)
        BY <2>3, <3>2 DEF Unhook
      <4> HIDE DEF l, d
      <4> QED
        BY <4>2, <4>3
    <3> QED
      BY <3>1, <3>2
  <2>4. CASE StoreMode \/ WorkBegin \/ WorkUse
    BY <2>4 DEF StoreMode, Baseline, WorkBegin, WorkUse
  <2>5. CASE \/ LedNotConcerned \/ LedNotifyCancel \/ LedTake \/ LedLetGo
             \/ StoreCancel \/ Activate \/ Release
    BY <2>5 DEF LedNotConcerned, LedNotifyCancel, LedTake, LedLetGo, StoreCancel, Activate,
                Release, ledVars
  <2> QED
    BY <2>1, <2>2, <2>3, <2>4, <2>5 DEF LedNext, LedNotify, LedRuns
<1> QED
  BY <1>1, <1>2, <1>3, <1>4, <1>5, LedKeepsCount, LedKeepsStore

LEMMA CountedLed ==
  ASSUME CountInv, LedNext, UNCHANGED relayVars
  PROVE  CountInv'
<1> USE DEF CountInv, TypeOK
<1>1. UNCHANGED <<reg, ifname, up, carrier, rtnl, relay, removing>>
  BY LedLeavesDevices DEF relayVars
<1>2. RelayTypeOK' /\ RelayIsPair'
  BY <1>1 DEF relayVars, RelayTypeOK, RelayIsPair
<1>3. (evt \in [kind : Kinds, dev : Dev, at : Chain] \union {NoEvent})' /\ EventIsHeld'
  <2>1. CASE evt' = evt
    BY <1>1, <2>1 DEF NetTypeOK, EventIsHeld, NoEvent
  <2>2. CASE evt.at \in {"led", "locked"} /\ \E at \in Chain : PassOn(at)
    <3>1. evt # NoEvent /\ evt \in [kind : Kinds, dev : Dev, at : Chain]
      BY <2>2 DEF NetTypeOK, NoEvent
    <3>2. PICK at \in Chain : evt' = [evt EXCEPT !.at = at]
      BY <2>2 DEF PassOn
    <3>3. evt' \in [kind : Kinds, dev : Dev, at : Chain] /\ evt'.dev = evt.dev
      BY <3>1, <3>2
    <3> QED
      BY <1>1, <3>1, <3>3 DEF EventIsHeld
  <2> QED
    BY <2>1, <2>2, LedPassesOn
<1>4. NetTypeOK'
  BY <1>1, <1>3, LedKeepsCount DEF NetTypeOK
<1> QED
  BY <1>2, <1>3, <1>4, LedKeepsCount, LedKeepsStore, LedKeepsType

-----------------------------------------------------------------------------

LEMMA CountedRelay ==
  ASSUME CountInv, RelayNext, UNCHANGED ledVars
  PROVE  CountInv'
<1> USE NoDevAssumption DEF CountInv, TypeOK, ledVars
<1>1. LedTypeOK' /\ StoreHasRoom'
  BY DEF LedTypeOK, StoreHasRoom
<1>2. ASSUME NEW d1 \in Dev, NEW d2 \in Dev, Add(d1, d2)
      PROVE  CountInv'
  <2> USE <1>2 DEF Add
  <2>1. \A d \in Dev : refs'[d] = IF d \in {d1, d2} THEN refs[d] + 1 ELSE refs[d]
    OBVIOUS
  <2>2. (refs \in [Dev -> Nat])'
    BY DEF NetTypeOK
  <2>3. NetTypeOK'
    BY <2>2 DEF NetTypeOK
  <2>4. RelayTypeOK'
    BY DEF RelayTypeOK
  <2>5. RefsCounted'
    <3>1. \A d \in Dev : refs[d] = (IF ldev = d THEN 1 ELSE 0) + leaked[d]
      BY DEF RefsCounted, Holders, LedTypeOK
    <3>2. \A d \in Dev : Holders(d)' = (IF ldev = d THEN 1 ELSE 0)
                                        + (IF d \in {d1, d2} THEN 1 ELSE 0)
      BY DEF Holders
    <3>3. \A d \in Dev : refs'[d] = Holders(d)' + leaked[d]
      <4> SUFFICES ASSUME NEW d \in Dev PROVE refs'[d] = Holders(d)' + leaked[d]
        OBVIOUS
      <4>1. leaked[d] \in Nat
        BY DEF LedTypeOK
      <4>2. CASE d \in {d1, d2}
        BY <2>1, <3>1, <3>2, <4>1, <4>2
      <4>3. CASE d \notin {d1, d2}
        BY <2>1, <3>1, <3>2, <4>1, <4>3
      <4> QED
        BY <4>2, <4>3
    <3>4. \A d \in Dev : refs'[d] > 0 => reg[d] \in {"listed", "leaving"}
      BY <2>1 DEF RefsCounted
    <3> QED
      BY <3>3, <3>4 DEF RefsCounted
  <2> QED
    BY <1>1, <2>3, <2>4, <2>5 DEF EventIsHeld, RelayIsPair
<1>3. CASE RemoveBegin
  <2> USE <1>3 DEF RemoveBegin
  <2>0. relay \in Dev \X Dev /\ relay[1] # relay[2]
    BY DEF RelayTypeOK, RelayIsPair
  <2>1. \A d \in Dev : refs'[d] = IF d \in {relay[1], relay[2]} THEN refs[d] - 1 ELSE refs[d]
    OBVIOUS
  <2>2. \A d \in {relay[1], relay[2]} : refs[d] > 0
    BY <2>0, SMTT(30) DEF NetTypeOK, LedTypeOK, RefsCounted, Holders
  <2>3. NetTypeOK'
    BY <2>0, <2>1, <2>2 DEF NetTypeOK
  <2>4. RelayTypeOK'
    BY <2>0 DEF RelayTypeOK
  <2>5. RefsCounted'
    <3>1. \A d \in Dev : Holders(d) = (IF ldev = d THEN 1 ELSE 0)
                                      + (IF d \in {relay[1], relay[2]} THEN 1 ELSE 0)
      BY <2>0 DEF Holders
    <3>2. \A d \in Dev : Holders(d)' = (IF ldev = d THEN 1 ELSE 0)
      BY DEF Holders
    <3>3. \A d \in Dev : refs'[d] = Holders(d)' + leaked[d]
      <4> SUFFICES ASSUME NEW d \in Dev PROVE refs'[d] = Holders(d)' + leaked[d]
        OBVIOUS
      <4>1. leaked[d] \in Nat /\ refs[d] = Holders(d) + leaked[d]
        BY DEF LedTypeOK, RefsCounted
      <4>2. CASE d \in {relay[1], relay[2]}
        BY <2>1, <3>1, <3>2, <4>1, <4>2
      <4>3. CASE d \notin {relay[1], relay[2]}
        BY <2>1, <3>1, <3>2, <4>1, <4>3
      <4> QED
        BY <4>2, <4>3
    <3>4. \A d \in Dev : refs'[d] > 0 => reg[d] \in {"listed", "leaving"}
      BY <2>1, <2>2 DEF NetTypeOK, RefsCounted
    <3> QED
      BY <3>3, <3>4 DEF RefsCounted
  <2> QED
    BY <1>1, <2>3, <2>4, <2>5 DEF EventIsHeld, RelayIsPair
<1>4. CASE RemoveHandler
  <2> USE <1>4 DEF RemoveHandler
  <2>1. RelayTypeOK'
    BY DEF RelayTypeOK
  <2>2. NetTypeOK'
    BY DEF NetTypeOK
  <2>3. RefsCounted'
    BY DEF RefsCounted, Holders
  <2> QED
    BY <1>1, <2>1, <2>2, <2>3 DEF EventIsHeld, RelayIsPair
<1>5. CASE RelayEvent
  <2> USE <1>5 DEF RelayEvent, relayVars
  <2>1. RelayTypeOK' /\ NetTypeOK'
    BY DEF RelayTypeOK, NetTypeOK
  <2>2. RefsCounted'
    BY DEF RefsCounted, Holders
  <2> QED
    BY <1>1, <2>1, <2>2 DEF EventIsHeld, RelayIsPair, NoEvent
<1> QED
  BY <1>2, <1>3, <1>4, <1>5 DEF RelayNext

-----------------------------------------------------------------------------

LEMMA CountedStep == CountInv /\ [Next]_vars => CountInv'
<1> SUFFICES ASSUME CountInv, [Next]_vars PROVE CountInv'
  OBVIOUS
<1>1. CASE UNCHANGED vars
  <2>1. (NetTypeOK /\ LedTypeOK /\ RelayTypeOK)'
    BY <1>1 DEF CountInv, TypeOK, NetTypeOK, LedTypeOK, RelayTypeOK, vars, netVars, ledVars,
                relayVars
  <2>2. (RefsCounted /\ StoreHasRoom /\ EventIsHeld /\ RelayIsPair)'
    BY <1>1 DEF CountInv, RefsCounted, Holders, StoreHasRoom, EventIsHeld, RelayIsPair,
                vars, netVars, ledVars, relayVars
  <2> QED
    BY <2>1, <2>2 DEF CountInv, TypeOK
<1> QED
  BY <1>1, CountedNet, CountedLed, CountedRelay DEF Next

\* For any devices, names and modes, whatever the order of the steps: every
\* variable keeps its type.
THEOREM UsersTypeCorrect == Spec => []TypeOK
<1>1. CountInv => TypeOK
  BY DEF CountInv
<1> QED
  BY <1>1, InitCounted, CountedStep, PTL DEF Spec

\* The reference count of a device is what the trigger and the relay hold, and
\* what the trigger has forgotten; and a freed device has none. This is what
\* dev_hold and dev_put in both drivers add up to.
THEOREM ReferencesAreRight == Spec => []RefsCounted
<1>1. CountInv => RefsCounted
  BY DEF CountInv
<1> QED
  BY <1>1, InitCounted, CountedStep, PTL DEF Spec

-----------------------------------------------------------------------------
(* The work of the trigger and the device.                                  *)

\* Unless there was a race: the notifier and a writer are not past their
\* cancels together, and while one of them is, the work neither runs nor will
\* run with a device. So nobody changes net_dev under a work that runs.
WorkInv ==
    /\ oops = "led" => raced
    /\ ~raced => /\ ~(evt.at = "locked" /\ store # NoStore)
                 /\ work => ldev # NoDev /\ evt.at # "locked" /\ store = NoStore
                 /\ timer => \/ evt.at # "locked" /\ store = NoStore
                             \/ ldev = NoDev

LEMMA InitWork == Init => WorkInv
  BY DEF Init, NetInit, LedInit, RelayInit, WorkInv, NoEvent

LEMMA WorkStep ==
  ASSUME CountInv, WorkInv, Next
  PROVE  WorkInv'
<1> USE DEF WorkInv
<1>0. oops # "led"
  BY DEF Next, Alive
<1>1. CASE NetNext /\ UNCHANGED <<ledVars, relayVars>>
  <2>1. evt' = evt \/ evt'.at = "led"
    BY <1>1 DEF NetNext, Open, Close, CarrierChanges, Unregister, Rebroadcast, Free,
                Register, Rename, Notify
  <2> QED
    BY <1>1, <2>1 DEF ledVars
<1>2. CASE RelayNext /\ UNCHANGED ledVars
  <2>1. evt' = evt \/ evt' = NoEvent
    BY <1>2 DEF RelayNext, Add, RemoveBegin, RemoveHandler, RelayEvent
  <2> QED
    BY <1>2, <2>1 DEF ledVars, NoEvent
<1>3. CASE LedNext
  <2>1. \A at \in {"trelay", "locked"} : evt.at \in Chain /\ PassOn(at) => evt'.at = at
    BY DEF CountInv, TypeOK, NetTypeOK, NoEvent, Chain, PassOn
  <2>2. evt.at = "led" \/ evt.at = "locked" => evt.at \in Chain
    BY DEF Chain
  <2>3. CASE LedNotConcerned
    BY <2>1, <2>2, <2>3 DEF LedNotConcerned, ledVars
  <2>4. CASE LedNotifyCancel
    <3>1. /\ ~raced' => store = NoStore
          /\ ~timer' /\ ~work' /\ UNCHANGED <<store, oops>>
      BY <2>4 DEF LedNotifyCancel
    <3>2. oops # "led"
      BY <1>0
    <3> QED
      BY <3>1, <3>2
  <2>5. CASE LedTake
    BY <2>1, <2>2, <2>5 DEF LedTake
  <2>6. CASE LedLetGo
    BY <2>1, <2>2, <2>6 DEF LedLetGo
  <2>7. CASE LedLink
    BY <2>1, <2>2, <2>7 DEF LedLink
  <2>8. CASE StoreCancel
    <3>1. /\ ~raced' => evt'.at # "locked"
          /\ ~timer' /\ ~work' /\ UNCHANGED oops
      BY <2>8 DEF StoreCancel, netVars
    <3>2. oops # "led"
      BY <1>0
    <3> QED
      BY <3>1, <3>2
  <2>9. CASE StoreName \/ StoreMode
    <3>1. store # NoStore /\ store' = NoStore
      <4>1. NoStore.file = "none"
        BY DEF NoStore
      <4>2. store.file # "none" /\ store' = NoStore
        BY <2>9 DEF StoreName, StoreMode
      <4> QED
        BY <4>1, <4>2
    <3>2. UNCHANGED <<evt, work, raced, oops>>
      BY <2>9 DEF StoreName, StoreMode, netVars
    <3> QED
      BY <3>1, <3>2
  <2>10. CASE WorkBegin
    BY <2>10 DEF WorkBegin, netVars
  <2>11. CASE WorkUse
    <3>1. ldev # NoDev => reg[ldev] # "freed"
      <4> SUFFICES ASSUME ldev # NoDev PROVE reg[ldev] # "freed"
        OBVIOUS
      <4>1. ldev \in Dev /\ leaked[ldev] \in Nat
        BY DEF CountInv, TypeOK, LedTypeOK
      <4>2. Holders(ldev) >= 1
        BY DEF Holders
      <4>3. refs[ldev] > 0
        BY <4>1, <4>2 DEF CountInv, RefsCounted, Holders
      <4> QED
        BY <4>1, <4>3 DEF CountInv, RefsCounted
    <3>2. oops' = "led" => raced
      BY <2>11, <3>1 DEF WorkUse
    <3> QED
      BY <2>11, <3>2 DEF WorkUse, netVars
  <2>12. CASE Activate
    BY <2>12 DEF Activate, netVars
  <2>13. CASE Unhook
    <3>1. evt = NoEvent
      BY <2>13 DEF Unhook, CountInv, EventIsHeld
    <3>2. UNCHANGED <<evt, work, store, raced, oops>>
      BY <2>13 DEF Unhook
    <3>3. \/ UNCHANGED <<ldev, timer>>
          \/ ~work /\ ldev' = NoDev
      BY <2>13 DEF Unhook
    <3> QED
      BY <3>1, <3>2, <3>3 DEF NoEvent
  <2>14. CASE Release
    BY <2>14 DEF Release
  <2> QED
    BY <1>3, <2>3, <2>4, <2>5, <2>6, <2>7, <2>8, <2>9, <2>10, <2>11, <2>12, <2>13, <2>14
    DEF LedNext, LedNotify, LedRuns
<1> QED
  BY <1>1, <1>2, <1>3 DEF Next

\* netdev_trig_work uses net_dev without the lock: it finds a device that is
\* not freed, unless the last cancel was made with somebody else past his.
THEOREM WorkIsSafe == Spec => []WorkUsesHeld
<1>1. CountInv /\ WorkInv /\ [Next]_vars => WorkInv'
  <2> SUFFICES ASSUME CountInv, WorkInv, [Next]_vars PROVE WorkInv'
    OBVIOUS
  <2>1. CASE UNCHANGED vars
    BY <2>1 DEF WorkInv, vars, netVars, ledVars
  <2> QED
    BY <2>1, WorkStep
<1>2. WorkInv => WorkUsesHeld
  BY DEF WorkInv, WorkUsesHeld
<1> QED
  BY <1>1, <1>2, InitCounted, InitWork, CountedStep, PTL DEF Spec

-----------------------------------------------------------------------------
(* The relay and its devices.                                               *)

Leaves(d) == removing # <<>> /\ d \in {removing[k] : k \in DOMAIN removing}

\* A receive handler belongs to the relay or to one that is being removed; the
\* devices of a relay that was not removed late are still listed then.
HookInv ==
    /\ \A d \in Dev : hook[d] # NoDev => Leaves(d) \/ (relay # <<>> /\ d \in {relay[1], relay[2]})
    /\ relay # <<>> => hook[relay[1]] = relay[2] /\ hook[relay[2]] = relay[1]
    /\ ~late => ~lost
    /\ removing # <<>> /\ ~late =>
           /\ \A d \in Dev : Leaves(d) => reg[d] = "listed"
           /\ \A d \in Dev : hook[d] # NoDev => reg[hook[d]] = "listed"

LEMMA HookUsesHeld == CountInv /\ HookInv => RelayUsesHeld
<1> SUFFICES ASSUME CountInv, HookInv, ~late, NEW d \in Dev, hook[d] # NoDev
             PROVE  reg[hook[d]] \in {"listed", "leaving"}
  BY DEF HookInv, RelayUsesHeld
<1>1. CASE removing # <<>>
  BY <1>1 DEF HookInv
<1>2. CASE removing = <<>>
  <2>1. relay # <<>> /\ relay[1] \in Dev /\ relay[2] \in Dev /\ hook[d] \in {relay[1], relay[2]}
    BY <1>2 DEF HookInv, Leaves, CountInv, TypeOK, RelayTypeOK
  <2>2. PICK e \in Dev : e = hook[d]
    BY <2>1
  <2>3. leaked[e] \in Nat /\ refs[e] = Holders(e) + leaked[e] /\ Holders(e) \in {1, 2}
    BY <2>1, <2>2 DEF CountInv, TypeOK, LedTypeOK, RefsCounted, Holders
  <2>4. refs[e] > 0
    BY <2>3
  <2> QED
    BY <2>2, <2>4 DEF CountInv, RefsCounted
<1> QED
  BY <1>1, <1>2

LEMMA InitHook == Init => HookInv
  BY DEF Init, RelayInit, HookInv

LEMMA HookRelay ==
  ASSUME CountInv, HookInv, Alive, RelayNext
  PROVE  HookInv'
<1> USE NoDevAssumption DEF HookInv
<1> RelayTypeOK /\ RelayIsPair
  BY DEF CountInv, TypeOK
<1>1. ASSUME NEW d1 \in Dev, NEW d2 \in Dev, Add(d1, d2)
      PROVE  HookInv'
  <2>1. \A d \in Dev : hook[d] = NoDev
    BY <1>1 DEF Add, Leaves, RelayIsPair
  <2>2. removing = <<>> /\ removing' = <<>> /\ UNCHANGED <<late, lost>>
    BY <1>1 DEF Add, RelayIsPair
  <2>3. relay' = <<d1, d2>> /\ hook'[d1] = d2 /\ hook'[d2] = d1
    BY <1>1 DEF Add, RelayTypeOK
  <2>4. \A d \in Dev : hook'[d] # NoDev => d \in {d1, d2}
    BY <1>1, <2>1 DEF Add, RelayTypeOK
  <2> QED
    BY <2>2, <2>3, <2>4
<1>2. CASE RemoveBegin
  <2> USE <1>2 DEF RemoveBegin
  <2>1. PICK d1 \in Dev, d2 \in Dev : relay = <<d1, d2>>
    BY DEF RelayTypeOK
  <2>2. removing = <<>> /\ removing' = <<d1, d2>> /\ relay' = <<>>
    BY <2>1 DEF RelayIsPair
  <2>3. \A d \in Dev : Leaves(d)' <=> d \in {d1, d2}
    BY <2>2 DEF Leaves
  <2>4. \A d \in Dev : hook[d] # NoDev => d \in {d1, d2}
    BY <2>1, <2>2 DEF Leaves
  <2>5. hook[d1] = d2 /\ hook[d2] = d1
    BY <2>1
  <2>6. ~late' => ~late /\ reg[d1] = "listed" /\ reg[d2] = "listed"
    BY <2>1
  <2> QED
    BY <2>2, <2>3, <2>4, <2>5, <2>6
<1>3. CASE RemoveHandler
  <2> USE <1>3 DEF RemoveHandler
  <2>1. relay = <<>> /\ relay' = <<>> /\ removing[1] \in Dev
    BY DEF RelayIsPair, RelayTypeOK
  <2>2. \A d \in Dev : hook'[d] = IF d = removing[1] THEN NoDev ELSE hook[d]
    BY DEF RelayTypeOK
  <2>3. \A d \in Dev : Leaves(d) => d = removing[1] \/ Leaves(d)'
    BY DEF Leaves, RelayTypeOK
  <2>4. \A d \in Dev : Leaves(d)' => Leaves(d)
    BY DEF Leaves, RelayTypeOK
  <2>5. Leaves(removing[1])
    BY DEF Leaves, RelayTypeOK
  <2>6. ~late => reg[removing[1]] = "listed"
    BY <2>1, <2>5
  <2> QED
    BY <2>1, <2>2, <2>3, <2>4, <2>6
<1>4. CASE RelayEvent
  BY <1>4 DEF RelayEvent, relayVars, Leaves
<1> QED
  BY <1>1, <1>2, <1>3, <1>4 DEF RelayNext

\* A removal holds the lock, under which no device is unregistered, and a device
\* that is listed is not freed.
LEMMA HookStep ==
  ASSUME CountInv, HookInv, Next
  PROVE  HookInv'
<1>1. CASE RelayNext
  BY <1>1, HookRelay DEF Next
<1>2. CASE UNCHANGED relayVars /\ (LedNext \/ NetNext)
  <2>1. removing # <<>> => rtnl
    BY DEF CountInv, RelayIsPair
  <2>2. \A d \in Dev : rtnl /\ reg[d] = "listed" => reg'[d] = "listed"
    <3>1. CASE LedNext
      BY <3>1, LedLeavesDevices
    <3>2. CASE NetNext
      BY <3>2 DEF CountInv, TypeOK, NetTypeOK, NetNext, Open, Close, CarrierChanges,
                  Unregister, Rebroadcast, Free, Register, Rename, Notify
    <3> QED
      BY <1>2, <3>1, <3>2
  <2>3. \A d \in Dev : hook[d] # NoDev => hook[d] \in Dev
    BY DEF CountInv, TypeOK, RelayTypeOK
  <2> QED
    BY <1>2, <2>1, <2>2, <2>3 DEF relayVars, HookInv, Leaves
<1> QED
  BY <1>1, <1>2 DEF Next

\* trelay forwards to a device, and resets the handler of one, that is not
\* freed: the reference of the relay, and then the lock, keep it there, if it
\* was not leaving when the removal began.
THEOREM RelayIsSafe == Spec => []RelayUsesHeld
<1>1. CountInv /\ HookInv /\ [Next]_vars => HookInv'
  <2> SUFFICES ASSUME CountInv, HookInv, [Next]_vars PROVE HookInv'
    OBVIOUS
  <2>1. CASE UNCHANGED vars
    BY <2>1 DEF HookInv, Leaves, vars, netVars, relayVars
  <2> QED
    BY <2>1, HookStep
<1> QED
  BY <1>1, HookUsesHeld, InitCounted, InitHook, CountedStep, PTL DEF Spec

-----------------------------------------------------------------------------
(* The LED and the link.                                                    *)

\* A device that is there has a name of its own, and one that is up is there;
\* what an event says of its device stays true while it is sent. A trigger
\* that is off has no name to compare.
NameInv ==
    /\ \A d \in Dev : reg[d] = "listed" => ifname[d] # NoName
    /\ \A d, e \in Dev : reg[d] = "listed" /\ reg[e] = "listed" /\ ifname[d] = ifname[e] => d = e
    /\ \A d \in Dev : up[d] => reg[d] = "listed"
    /\ evt.kind \in {"register", "changename", "down"} => ~up[evt.dev]
    /\ evt.kind = "unregister" => reg[evt.dev] = "leaving"
    /\ trig = "off" => lname = NoName /\ store = NoStore

\* The trigger is about to hear of the link of d.
Pending(d) == evt.dev = d /\ evt.kind \in {"up", "change"} /\ evt.at \in {"led", "locked"}

\* A LED that tells the link only, and that nobody is about to set, tells link_up.
LitRight == mode = {"link"} /\ store = NoStore /\ ~timer /\ ~work => (bright <=> linkUp)

\* For a device that is up and has the name, link_up is right, or will be set.
TellInv ==
    trig = "on" /\ ~mixed =>
        \A d \in Listed(lname) : up[d] => Pending(d) \/ ((linkUp <=> carrier[d]) /\ LitRight)

LEMMA InitNames == Init => NameInv /\ TellInv
  BY DEF Init, NetInit, LedInit, NameInv, TellInv, NoEvent, NoStore

\* A step of the network core sends an event about one device, of which the
\* trigger is to hear, and leaves the others alone.
LEMMA NamesNet ==
  ASSUME CountInv, NameInv, TellInv, NetNext, UNCHANGED <<ledVars, relayVars>>
  PROVE  NameInv' /\ TellInv'
<1> PICK d \in Dev :
        \/ Open(d) \/ Close(d) \/ CarrierChanges(d)
        \/ Unregister(d) \/ Rebroadcast(d) \/ Free(d)
        \/ \E n \in IfName : Register(d, n) \/ Rename(d, n)
  BY DEF NetNext
<1>0. NetTypeOK /\ (~rtnl => evt = NoEvent) /\ NoEvent.kind = "none" /\ NoEvent.at = "none"
  BY DEF CountInv, TypeOK, EventIsHeld, NoEvent
<1> USE NoNameAssumption DEF ledVars
<1>1. CASE Open(d)
  <2>1. NameInv'
    BY <1>0, <1>1 DEF NameInv, NetTypeOK, Open, Notify
  <2>2. TellInv'
    BY <1>0, <1>1 DEF TellInv, LitRight, Pending, Listed, NetTypeOK, Open, Notify
  <2> QED
    BY <2>1, <2>2
<1>2. CASE Close(d)
  <2>1. NameInv'
    BY <1>0, <1>2 DEF NameInv, NetTypeOK, Close, Notify
  <2>2. TellInv'
    BY <1>0, <1>2 DEF TellInv, LitRight, Pending, Listed, NetTypeOK, Close, Notify
  <2> QED
    BY <2>1, <2>2
<1>3. CASE CarrierChanges(d)
  <2>1. NameInv'
    BY <1>0, <1>3 DEF NameInv, NetTypeOK, CarrierChanges, Notify
  <2>2. TellInv'
    BY <1>0, <1>3 DEF TellInv, LitRight, Pending, Listed, NetTypeOK, CarrierChanges, Notify
  <2> QED
    BY <2>1, <2>2
<1>4. CASE Unregister(d) \/ Rebroadcast(d)
  <2>1. NameInv'
    BY <1>0, <1>4 DEF NameInv, NetTypeOK, Unregister, Rebroadcast, Notify
  <2>2. TellInv'
    BY <1>0, <1>4 DEF TellInv, LitRight, Pending, Listed, NetTypeOK, Unregister, Rebroadcast,
                      Notify
  <2> QED
    BY <2>1, <2>2
<1>5. CASE Free(d)
  <2>1. NameInv'
    BY <1>0, <1>5 DEF NameInv, NetTypeOK, Free
  <2>2. TellInv'
    BY <1>0, <1>5 DEF TellInv, LitRight, Pending, Listed, NetTypeOK, Free
  <2> QED
    BY <2>1, <2>2
<1>6. ASSUME NEW n \in IfName, Register(d, n) \/ Rename(d, n)
      PROVE  NameInv' /\ TellInv'
  <2>1. NameInv'
    BY <1>0, <1>6 DEF NameInv, NetTypeOK, Listed, Register, Rename, Notify
  <2>2. ~up[d] /\ up' = up
    BY <1>6 DEF NameInv, Register, Rename
  <2>3. TellInv'
    BY <1>0, <1>6, <2>2 DEF TellInv, LitRight, Pending, Listed, NetTypeOK, Register, Rename,
                            Notify
  <2> QED
    BY <2>1, <2>3
<1> QED
  BY <1>1, <1>2, <1>3, <1>4, <1>5, <1>6

\* The notifier.
LEMMA NamesNotify ==
  ASSUME CountInv, NameInv, TellInv, LedNotify
  PROVE  NameInv' /\ TellInv'
<1>0. /\ evt.at \in {"led", "locked"} /\ evt # NoEvent /\ evt.dev \in Dev
      /\ reg[evt.dev] \in {"listed", "leaving"} /\ NetTypeOK
  BY DEF LedNotify, LedNotConcerned, LedNotifyCancel, LedTake, LedLetGo, LedLink, NoEvent,
         CountInv, TypeOK, NetTypeOK, EventIsHeld
<1>1. UNCHANGED <<reg, ifname, up, carrier, trig, lname, mode, store, work>>
  BY DEF LedNotify, LedNotConcerned, LedNotifyCancel, LedTake, LedLetGo, LedLink, ledVars
<1>2. /\ evt'.dev = evt.dev /\ evt'.kind = evt.kind
      /\ (LedNotifyCancel => evt'.at = "locked") /\ (~LedNotifyCancel => evt'.at = "trelay")
  BY <1>0 DEF LedNotify, LedNotConcerned, LedNotifyCancel, LedTake, LedLetGo, LedLink, PassOn,
         NetTypeOK
<1>3. NameInv'
  BY <1>1, <1>2 DEF NameInv
<1> SUFFICES ASSUME trig = "on", ~mixed', NEW d \in Listed(lname), up[d]
             PROVE  Pending(d)' \/ ((linkUp' <=> carrier[d]) /\ LitRight')
  BY <1>1, <1>3 DEF TellInv, Listed
<1>4. d \in Dev /\ reg[d] = "listed" /\ ifname[d] = lname
  BY DEF Listed
<1>5. CASE LedNotConcerned
  <2>1. evt.dev # d
    BY <1>4, <1>5 DEF LedNotConcerned, Concerned
  <2> QED
    BY <1>5, <2>1 DEF LedNotConcerned, ledVars, TellInv, Pending, LitRight
<1>6. CASE LedNotifyCancel
  <2>1. ~mixed /\ d = evt.dev
    BY <1>6 DEF LedNotifyCancel, OtherHasName
  <2>2. evt.kind \in {"up", "change"}
    BY <1>0, <1>4, <2>1 DEF NameInv, NetTypeOK, Kinds, NoEvent
  <2> QED
    BY <1>2, <1>6, <2>1, <2>2 DEF Pending
<1>7. CASE LedTake
  <2>1. d = evt.dev
    BY <1>7 DEF LedTake, OtherHasName
  <2> QED
    BY <1>7, <2>1 DEF LedTake, NameInv
<1>8. CASE LedLetGo
  <2>1. ~Pending(d)
    BY <1>8 DEF LedLetGo, Pending
  <2> QED
    BY <1>8, <2>1 DEF LedLetGo, TellInv, LitRight
<1>9. CASE LedLink
  <2>1. d = evt.dev
    BY <1>9 DEF LedLink, OtherHasName
  <2>2. linkUp' = LinkNow /\ evt.kind # "down" /\ carrier[d] \in BOOLEAN
    BY <1>0, <1>4, <1>9, <2>1 DEF LedLink, NameInv, NetTypeOK
  <2>3. linkUp' <=> carrier[d]
    BY <2>1, <2>2 DEF LinkNow
  <2>4. bright' = ("link" \in mode /\ LinkNow)
    BY <1>9 DEF LedLink, Baseline
  <2> QED
    BY <1>1, <2>2, <2>3, <2>4 DEF LitRight
<1> QED
  BY <1>5, <1>6, <1>7, <1>8, <1>9 DEF LedNotify

\* The files, the work, and taking the trigger off.
LEMMA NamesLed ==
  ASSUME CountInv, NameInv, TellInv, LedNext
  PROVE  NameInv' /\ TellInv'
<1> USE DEF CountInv, TypeOK, LedTypeOK
<1>1. CASE LedNotify
  BY <1>1, NamesNotify
<1>2. CASE ~LedNotify
  <2>1. UNCHANGED <<reg, ifname, up, carrier, evt>>
    BY <1>2 DEF LedNext, LedRuns, StoreCancel, StoreName, StoreMode, WorkBegin, WorkUse,
                Activate, Unhook, Release, netVars
  <2>2. NameInv'
    <3>1. trig' = "off" => lname' = NoName /\ store' = NoStore
      <4>1. trig = "off" => lname = NoName /\ store = NoStore /\ store.file = "none"
        BY DEF NameInv, NoStore
      <4>2. CASE StoreCancel \/ StoreName \/ StoreMode
        BY <4>1, <4>2 DEF StoreCancel, StoreName, StoreMode
      <4>3. CASE WorkBegin \/ WorkUse \/ Activate
        BY <4>1, <4>3 DEF WorkBegin, WorkUse, Activate
      <4>4. CASE Unhook \/ Release
        BY <4>1, <4>4 DEF Unhook, Release
      <4> QED
        BY <1>2, <4>2, <4>3, <4>4 DEF LedNext, LedRuns
    <3> QED
      BY <2>1, <3>1 DEF NameInv
  <2> SUFFICES ASSUME trig' = "on", ~mixed', NEW d \in Listed(lname'), up[d]
               PROVE  Pending(d)' \/ ((linkUp' <=> carrier[d]) /\ LitRight')
    BY <2>1, <2>2 DEF TellInv, Listed
  <2>3. d \in Dev /\ reg[d] = "listed" /\ ifname[d] = lname' /\ carrier[d] \in BOOLEAN
    BY DEF Listed, NetTypeOK
  <2>4. CASE StoreCancel
    <3>1. store' # NoStore
      BY <2>4 DEF StoreCancel, Stores, NoStore
    <3> QED
      BY <2>1, <2>4, <3>1 DEF StoreCancel, TellInv, Pending, LitRight
  <2>5. CASE StoreName
    <3>1. store.name # NoName /\ lname' = store.name
      BY <2>3, <2>5 DEF StoreName, NameInv
    <3>2. ldev' = d
      <4>1. \A e \in Listed(store.name) : e = d
        BY <2>3, <3>1 DEF NameInv, Listed
      <4>2. ldev' = CHOOSE e \in Listed(store.name) : TRUE
        BY <2>5, <3>1 DEF StoreName
      <4> QED
        BY <3>1, <4>1, <4>2
    <3>3. linkUp' = (d # NoDev /\ up[d] /\ carrier[d]) /\ bright' = ("link" \in mode /\ linkUp')
      BY <2>5, <3>1, <3>2 DEF StoreName, Baseline
    <3>4. d # NoDev /\ mode' = mode
      BY <2>3, <2>5, NoDevAssumption DEF StoreName
    <3>5. linkUp' <=> carrier[d]
      BY <3>3, <3>4
    <3> QED
      BY <3>3, <3>4, <3>5 DEF LitRight
  <2>6. CASE StoreMode
    <3>1. bright' = ("link" \in mode' /\ linkUp) /\ linkUp' = linkUp
      BY <2>6 DEF StoreMode, Baseline
    <3>2. LitRight'
      BY <3>1 DEF LitRight
    <3>3. d \in Listed(lname) /\ trig = "on" /\ ~mixed
      BY <2>6 DEF StoreMode
    <3> QED
      BY <2>1, <3>1, <3>2, <3>3 DEF TellInv, Pending
  <2>7. CASE WorkBegin
    <3>1. LitRight'
      BY <2>7 DEF WorkBegin, LitRight
    <3>3. d \in Listed(lname) /\ trig = "on" /\ ~mixed /\ linkUp' = linkUp
      BY <2>7 DEF WorkBegin
    <3> QED
      BY <2>1, <3>1, <3>3 DEF TellInv, Pending
  <2>8. CASE WorkUse
    <3>1. LitRight'
      BY <2>8 DEF WorkUse, LitRight
    <3>3. d \in Listed(lname) /\ trig = "on" /\ ~mixed /\ linkUp' = linkUp
      BY <2>8 DEF WorkUse
    <3> QED
      BY <2>1, <3>1, <3>3 DEF TellInv, Pending
  <2>9. CASE Activate
    BY <2>3, <2>9 DEF Activate, NameInv
  <2>10. CASE Unhook \/ Release
    BY <2>10 DEF Unhook, Release
  <2> QED
    BY <1>2, <2>4, <2>5, <2>6, <2>7, <2>8, <2>9, <2>10 DEF LedNext, LedRuns
<1> QED
  BY <1>1, <1>2

LEMMA NamesStep ==
  ASSUME CountInv, NameInv, TellInv, [Next]_vars
  PROVE  NameInv' /\ TellInv'
<1>1. CASE NetNext /\ UNCHANGED <<ledVars, relayVars>>
  BY <1>1, NamesNet
<1>2. CASE LedNext
  BY <1>2, NamesLed
<1>3. CASE RelayNext /\ UNCHANGED ledVars
  <2>1. UNCHANGED <<reg, ifname, up, carrier>>
    BY <1>3 DEF RelayNext, Add, RemoveBegin, RemoveHandler, RelayEvent
  <2>2. evt' = evt \/ (evt.at = "trelay" /\ evt' = NoEvent)
    BY <1>3 DEF RelayNext, Add, RemoveBegin, RemoveHandler, RelayEvent
  <2>3. NameInv'
    BY <1>3, <2>1, <2>2 DEF ledVars, NameInv, NoEvent
  <2>4. TellInv'
    BY <1>3, <2>1, <2>2 DEF ledVars, TellInv, Listed, Pending, LitRight, NoEvent
  <2> QED
    BY <2>3, <2>4
<1>4. CASE UNCHANGED vars
  <2>1. NameInv'
    BY <1>4 DEF vars, netVars, ledVars, NameInv
  <2>2. TellInv'
    BY <1>4 DEF vars, netVars, ledVars, TellInv, Listed, Pending, LitRight
  <2> QED
    BY <2>1, <2>2
<1> QED
  BY <1>1, <1>2, <1>3, <1>4 DEF Next

\* A LED in mode "link" that nobody is about to set is lit exactly if the device
\* it is named for has a carrier, for any number of devices, names and writers'
\* orders, unless an event was taken for a device whose name belongs to another
\* one by then.
THEOREM LedTellsTheLink == Spec => []LedTellsLink
<1>1. CountInv /\ NameInv /\ TellInv => LedTellsLink
  BY DEF TellInv, LedTellsLink, Settled, Pending, LitRight, NoEvent
<1>2. CountInv /\ NameInv /\ TellInv /\ [Next]_vars => NameInv' /\ TellInv'
  BY NamesStep
<1> QED
  BY <1>1, <1>2, InitCounted, InitNames, CountedStep, PTL DEF Spec
=============================================================================

----------------------------- MODULE RrdnsProofs -----------------------------
(* What one lookup of Rrdns keeps for every list, limit, order of answers   *)
(* and choice of ids. Each callback takes at most one request out and makes *)
(* at most one: QueryStep says what rrdns_next_query does to the requests,  *)
(* and the invariants of the callbacks follow from it.                      *)
EXTENDS Rrdns, FiniteSetTheorems, TLAPS

\* Requests that wait were sent, and each is for an address of its own.
RequestsInv ==
    /\ ids \subseteq wire
    /\ \A r \in ids : r.addr \in addrs
    /\ \A r, s \in ids : r.addr = s.addr => r = s

\* Only addresses of the entries before pos were asked for; of a well-formed
\* list, all of these.
AskedInv ==
    /\ \A a \in addrs : \E i \in 1 .. pos - 1 : list[i] = a
    /\ Plain /\ ~faulty => \A i \in 1 .. pos - 1 : list[i] \in addrs

IdsDiffer == ~clash => \A q, r \in wire : q.id = r.id => q = r

\* What is in the reply is not waited for any more.
BlobInv == \A i \in DOMAIN blob : /\ blob[i].addr \in addrs
                                  /\ \A r \in ids : r.addr # blob[i].addr

FreedInv == freed => left = 0

CallInv == /\ TypeOK /\ NothingAfterFree /\ PipelineBound /\ PipelineFull /\ ReplyIsRight
           /\ RequestsInv /\ AskedInv /\ IdsDiffer /\ BlobInv /\ FreedInv
           /\ IsFiniteSet(ids)

-----------------------------------------------------------------------------

LEMMA CallInit == Init => CallInv
<1> SUFFICES ASSUME Init PROVE CallInv
  OBVIOUS
<1> USE DEF Init
<1>1. list \in Seq(Addr \union {Bad})
  BY BoundAssumption DEF Lists
<1>2. limit \in 1 .. MaxLimit /\ MaxLimit \in Nat
  BY BoundAssumption
<1>3. TypeOK
  <2>1. Len(list) \in Nat
    BY <1>1
  <2>2. pos \in 1 .. Len(list) + 1
    BY <2>1
  <2>3. left \in 0 .. limit /\ replies \in 0 .. 1
    BY <1>2
  <2>4. blob \in Seq([addr : Addr, about : Addr])
    OBVIOUS
  <2> QED
    BY <1>1, <1>2, <2>2, <2>3, <2>4 DEF TypeOK
<1>4. Cardinality(ids) = 0 /\ IsFiniteSet(ids)
  BY FS_EmptySet
<1>5. PipelineBound /\ PipelineFull
  BY <1>2, <1>4 DEF PipelineBound, PipelineFull
<1>6. ReplyIsRight
  BY DEF ReplyIsRight, AskedOnce, NameIsItsOwn, NameOnce, EarlyReplyIsComplete
<1>7. RequestsInv /\ AskedInv /\ IdsDiffer /\ BlobInv /\ FreedInv /\ NothingAfterFree
  BY DEF RequestsInv, AskedInv, IdsDiffer, BlobInv, FreedInv, NothingAfterFree
<1> QED
  BY <1>3, <1>4, <1>5, <1>6, <1>7 DEF CallInv

-----------------------------------------------------------------------------
(* rrdns_next_query                                                         *)

\* Nothing is asked: the list is at its end, or its next entry is rejected, or
\* something fails.
NothingAsked(pend, f) ==
    /\ ids' = pend /\ UNCHANGED <<addrs, wire, clash>>
    /\ \/ pos > Len(list) /\ pos' = pos /\ faulty' = f
       \/ pos <= Len(list) /\ pos' = pos + 1 /\ faulty' = f /\ Rejected(list[pos])
       \/ pos <= Len(list) /\ pos' = pos + 1 /\ faulty' = TRUE

Asked(pend, id, stored, f) ==
    /\ pos <= Len(list) /\ pos' = pos + 1
    /\ ~Rejected(list[pos])
    /\ Ask(pend, list[pos], id, stored)
    /\ faulty' = (f \/ ~stored)

LEMMA QueryCases ==
  ASSUME NEW pend, NEW f \in BOOLEAN, NextQuery(pend, f)
  PROVE  \/ NothingAsked(pend, f)
         \/ \E id \in Id, stored \in BOOLEAN : Asked(pend, id, stored, f)
  BY DEF NextQuery, NothingAsked, Asked

\* What a query leaves true, when the callback has left pend of the requests.
QueryKeeps(pend) ==
    /\ (pos \in 1 .. Len(list) + 1)' /\ (ids \in SUBSET Request)'
    /\ (addrs \in SUBSET Addr)' /\ (wire \in SUBSET Request)'
    /\ (clash \in BOOLEAN)' /\ (faulty \in BOOLEAN)'
    /\ RequestsInv' /\ AskedInv' /\ IdsDiffer' /\ AskedOnce'
    /\ addrs \subseteq addrs' /\ \A r \in ids' : r \in pend \/ r.addr \notin addrs
    /\ IsFiniteSet(ids') /\ Cardinality(ids') <= Cardinality(pend) + 1
    /\ (clash => clash') /\ (faulty => faulty')
    /\ Smooth' => IF pos <= Len(list) THEN Cardinality(ids') = Cardinality(pend) + 1
                                      ELSE pos' > Len(list)

LEMMA QueryStep ==
  ASSUME CallInv, NEW pend \in SUBSET ids, NEW f \in BOOLEAN, faulty => f,
         NextQuery(pend, f), UNCHANGED callVars
  PROVE  QueryKeeps(pend)
<1> USE DEF CallInv, TypeOK, callVars
<1>1. IsFiniteSet(pend) /\ Cardinality(pend) \in Nat
  BY FS_Subset, FS_CardinalityType
<1>2. pend \in SUBSET Request /\ pend \subseteq wire
  BY DEF RequestsInv
<1>3. Plain' = Plain
  BY DEF Plain
<1>6. Len(list) \in Nat /\ pos \in Nat /\ 1 <= pos /\ pos <= Len(list) + 1
  OBVIOUS
<1>4. CASE NothingAsked(pend, f)
  <2> USE <1>4 DEF NothingAsked
  <2>0. (faulty \in BOOLEAN)'
    OBVIOUS
  <2>1. (pos \in 1 .. Len(list) + 1)'
    BY <1>6
  <2>2. RequestsInv' /\ IdsDiffer' /\ AskedOnce'
    BY <1>2 DEF RequestsInv, IdsDiffer, ReplyIsRight, AskedOnce
  <2>3. Plain /\ ~faulty' /\ pos <= Len(list) => FALSE
    <3>1. ASSUME Plain, Rejected(list[pos]), pos <= Len(list) PROVE FALSE
      <4>1. list[pos] # Bad /\ pos \in 1 .. Len(list)
        BY <3>1 DEF Plain
      <4>2. PICK i \in 1 .. pos - 1 : list[i] = list[pos]
        BY <3>1, <4>1 DEF Rejected, AskedInv
      <4> QED
        BY <3>1, <4>1, <4>2 DEF Plain
    <3> QED
      BY <3>1
  <2>4. AskedInv'
    <3>1. ASSUME NEW b \in addrs' PROVE \E i \in 1 .. pos' - 1 : list'[i] = b
      BY <1>6 DEF AskedInv
    <3>2. ASSUME Plain, ~faulty', NEW i \in 1 .. pos' - 1 PROVE list[i] \in addrs'
      BY <1>6, <2>3, <3>2 DEF AskedInv
    <3> QED
      BY <1>3, <3>1, <3>2 DEF AskedInv
  <2>5. Smooth' => ~(pos <= Len(list)) /\ pos' > Len(list)
    BY <1>3, <2>3 DEF Smooth
  <2> QED
    BY <1>1, <1>2, <2>0, <2>1, <2>2, <2>4, <2>5 DEF QueryKeeps
<1>5. ASSUME NEW id \in Id, NEW stored \in BOOLEAN, Asked(pend, id, stored, f)
      PROVE  QueryKeeps(pend)
  <2> DEFINE a == list[pos]
             r == [id |-> id, addr |-> a]
  <2> USE <1>5 DEF Asked
  <2>1. a \in Addr /\ a \notin addrs /\ r \in Request
    BY DEF Rejected, Request
  <2>0. (pos \in 1 .. Len(list) + 1)'
    BY <1>6
  <2>2. (faulty \in BOOLEAN)' /\ (faulty => faulty') /\ (~faulty' => stored /\ ~faulty)
    OBVIOUS
  <2>3. wire' = wire \union {r} /\ clash' = (clash \/ id \in Ids(wire))
    BY DEF Ask
  <2>4. ids' \subseteq pend \union {r} /\ addrs' \subseteq addrs \union {a}
    BY DEF Ask, Inserted
  <2>5. pend \subseteq ids' /\ addrs \subseteq addrs' /\ (r \in ids' => a \in addrs')
    BY <1>2, <2>1 DEF Ask, Inserted, RequestsInv
  <2>6. stored => addrs' = addrs \union {a}
    BY DEF Ask
  <2> HIDE DEF r, a
  <2>7. r.addr = a /\ r.id = id
    BY DEF r
  <2>8. \A q \in pend : q.addr \in addrs /\ q \in ids
    BY DEF RequestsInv
  <2>9. RequestsInv'
    BY <1>2, <2>1, <2>3, <2>4, <2>5, <2>7, <2>8 DEF RequestsInv
  <2>10. IdsDiffer'
    BY <2>3, <2>7 DEF IdsDiffer, Ids
  <2>11. AskedOnce'
    BY <2>1, <2>2, <2>3, <2>6, <2>7 DEF ReplyIsRight, AskedOnce
  <2>12. AskedInv'
    <3>1. ASSUME NEW b \in addrs' PROVE \E i \in 1 .. pos' - 1 : list'[i] = b
      BY <2>4 DEF AskedInv, a
    <3>2. ASSUME Plain, ~faulty', NEW i \in 1 .. pos' - 1 PROVE list[i] \in addrs'
      BY <2>2, <2>6, <3>2 DEF AskedInv, a
    <3> QED
      BY <1>3, <3>1, <3>2 DEF AskedInv
  <2>13. IsFiniteSet(ids') /\ Cardinality(ids') <= Cardinality(pend) + 1
    <3>1. ids' = pend \/ ids' = pend \union {r}
      BY <2>4, <2>5
    <3>2. CASE ids' = pend
      BY <1>1, <3>2
    <3>3. CASE ids' = pend \union {r}
      <4>1. IsFiniteSet(ids')
        BY <1>1, <3>3, FS_AddElement
      <4>2. Cardinality(ids') \in {Cardinality(pend), Cardinality(pend) + 1}
        BY <1>1, <3>3, FS_AddElement
      <4> QED
        BY <1>1, <4>1, <4>2
    <3> QED
      BY <3>1, <3>2, <3>3
  <2>14. Smooth' => Cardinality(ids') = Cardinality(pend) + 1
    <3> SUFFICES ASSUME Smooth' PROVE Cardinality(ids') = Cardinality(pend) + 1
      OBVIOUS
    <3>1. stored /\ id \notin Ids(wire)
      BY <2>2, <2>3 DEF Smooth
    <3>2. id \notin Ids(pend)
      BY <1>2, <3>1 DEF Ids
    <3>3. ids' = pend \union {r}
      BY <3>1, <3>2 DEF Ask, Inserted, r, a
    <3>4. r \notin pend
      BY <2>7, <3>2 DEF Ids
    <3> QED
      BY <1>1, <3>3, <3>4, FS_AddElement
  <2>15. /\ (ids \in SUBSET Request)' /\ (wire \in SUBSET Request)' /\ (addrs \in SUBSET Addr)'
         /\ (clash \in BOOLEAN)' /\ (clash => clash')
    BY <1>2, <2>1, <2>3, <2>4
  <2>16. \A q \in ids' : q \in pend \/ q.addr \notin addrs
    BY <2>1, <2>4, <2>7
  <2> QED
    BY <2>0, <2>2, <2>5, <2>9, <2>10, <2>11, <2>12, <2>13, <2>14, <2>15, <2>16 DEF QueryKeeps
<1> QED
  BY <1>4, <1>5, QueryCases

-----------------------------------------------------------------------------
(* The end of a callback                                                    *)

LEMMA LoopStep ==
  ASSUME NothingAfterFree, ~freed, Shutdown \/ UNCHANGED loopVars,
         freed \in BOOLEAN, timer \in BOOLEAN, watched \in BOOLEAN
  PROVE  /\ NothingAfterFree' /\ (replies \in 0 .. 1)'
         /\ (timer \in BOOLEAN /\ watched \in BOOLEAN /\ freed \in BOOLEAN)'
<1>1. timer /\ watched /\ replies = 0
  BY DEF NothingAfterFree
<1>2. CASE Shutdown
  <2>1. timer' = FALSE /\ watched' = FALSE /\ freed' = TRUE
    BY <1>2 DEF Shutdown
  <2>2. replies' = 1
    BY <1>1, <1>2 DEF Shutdown
  <2>3. (replies \in 0 .. 1)'
    BY <2>2
  <2> QED
    BY <2>1, <2>2, <2>3, Zenon DEF NothingAfterFree
<1>3. CASE UNCHANGED loopVars
  <2>1. timer' = timer /\ watched' = watched /\ freed' = freed /\ replies' = replies
    BY <1>3 DEF loopVars
  <2>2. timer \in BOOLEAN /\ watched \in BOOLEAN
    OBVIOUS
  <2> QED
    BY <1>1, <2>1, <2>2 DEF NothingAfterFree
<1> QED
  BY <1>2, <1>3

\* In a smooth call, no request is left only when the list is at its end.
LEMMA EndIsComplete ==
  ASSUME CallInv, NEW pend \in SUBSET ids, QueryKeeps(pend), ~freed, UNCHANGED callVars,
         freed' => ids' = {}
  PROVE  EarlyReplyIsComplete'
<1> SUFFICES ASSUME Smooth', freed'
             PROVE  ids' = {} /\ \A i \in 1 .. Len(list') : list'[i] \in addrs'
  BY DEF EarlyReplyIsComplete
<1>1. ids' = {} /\ Cardinality(ids') = 0
  BY FS_EmptySet
<1>2. IsFiniteSet(pend) /\ Cardinality(pend) \in Nat
  BY FS_Subset, FS_CardinalityType DEF CallInv
<1>3. pos' > Len(list')
  BY <1>1, <1>2 DEF QueryKeeps, callVars
<1>4. list' \in Seq(Addr \union {Bad}) /\ Len(list') \in Nat /\ pos' \in Nat
  BY DEF CallInv, TypeOK, QueryKeeps, callVars
<1>5. \A i \in 1 .. pos' - 1 : list'[i] \in addrs'
  BY DEF QueryKeeps, AskedInv, Smooth
<1>6. 1 .. Len(list') \subseteq 1 .. pos' - 1
  BY <1>3, <1>4
<1> QED
  BY <1>1, <1>5, <1>6

LEMMA SmoothBefore ==
  ASSUME NEW pend, QueryKeeps(pend), UNCHANGED callVars
  PROVE  Smooth' => Smooth
  BY DEF QueryKeeps, Smooth, Plain, callVars

\* Request r is taken out, and perhaps a name is added to the reply.
Reported(r) ==
    \/ blob' = blob
    \/ \E x \in Addr : /\ blob' = Append(blob, [addr |-> r.addr, about |-> x])
                       /\ ~clash => x = r.addr

LEMMA BlobStep ==
  ASSUME CallInv, NEW r \in ids, QueryKeeps(ids \ {r}), Reported(r)
  PROVE  /\ (blob \in Seq([addr : Addr, about : Addr]))'
         /\ BlobInv' /\ NameIsItsOwn' /\ NameOnce'
<1> USE DEF CallInv, TypeOK
<1>1. /\ blob \in Seq([addr : Addr, about : Addr]) /\ r.addr \in Addr /\ r.addr \in addrs
      /\ \A i \in DOMAIN blob : blob[i].addr # r.addr
  BY DEF Request, RequestsInv, BlobInv
<1>2. \A s \in ids' : s.addr # r.addr
  BY <1>1 DEF QueryKeeps, RequestsInv
<1>3. \A i \in DOMAIN blob : blob[i].addr \in addrs' /\ \A s \in ids' : s.addr # blob[i].addr
  BY DEF QueryKeeps, BlobInv
<1>4. ~clash' => ~clash
  BY DEF QueryKeeps
<1>5. CASE blob' = blob
  BY <1>1, <1>3, <1>4, <1>5 DEF BlobInv, ReplyIsRight, NameIsItsOwn, NameOnce
<1>6. ASSUME NEW x \in Addr, blob' = Append(blob, [addr |-> r.addr, about |-> x]),
             ~clash => x = r.addr
      PROVE  /\ (blob \in Seq([addr : Addr, about : Addr]))'
             /\ BlobInv' /\ NameIsItsOwn' /\ NameOnce'
  <2> DEFINE n == Len(blob) + 1
  <2>1. /\ blob' \in Seq([addr : Addr, about : Addr]) /\ DOMAIN blob' = DOMAIN blob \union {n}
        /\ blob'[n] = [addr |-> r.addr, about |-> x]
        /\ \A i \in DOMAIN blob : blob'[i] = blob[i]
    BY <1>1, <1>6
  <2> HIDE DEF n
  <2>2. blob'[n].addr = r.addr /\ blob'[n].about = x
    BY <2>1
  <2>3. BlobInv'
    BY <1>1, <1>2, <1>3, <2>1, <2>2 DEF BlobInv, QueryKeeps
  <2>4. NameIsItsOwn'
    BY <1>4, <1>6, <2>1, <2>2 DEF ReplyIsRight, NameIsItsOwn
  <2>5. NameOnce'
    BY <1>1, <2>1, <2>2 DEF ReplyIsRight, NameOnce
  <2> QED
    BY <2>1, <2>3, <2>4, <2>5
<1> QED
  BY <1>5, <1>6 DEF Reported

-----------------------------------------------------------------------------
(* The call and its callbacks                                               *)

\* A callback that takes request r out.
LEMMA CallbackStep ==
  ASSUME CallInv, NEW r \in ids, QueryKeeps(ids \ {r}), Reported(r), ~freed, left = 0,
         ShutdownIfDone, UNCHANGED <<callVars, left, expired>>
  PROVE  CallInv'
<1> DEFINE pend == ids \ {r}
<1>1. /\ IsFiniteSet(pend) /\ Cardinality(pend) \in Nat /\ Cardinality(ids) \in Nat
      /\ Cardinality(pend) = Cardinality(ids) - 1
  BY FS_RemoveElement, FS_CardinalityType DEF CallInv
<1>2. NothingAfterFree' /\ (timer \in BOOLEAN /\ watched \in BOOLEAN /\ freed \in BOOLEAN)'
      /\ (replies \in 0 .. 1)'
  BY LoopStep DEF CallInv, TypeOK, ShutdownIfDone
<1>3. limit \in Nat /\ Cardinality(ids) <= limit - left
  BY BoundAssumption DEF CallInv, TypeOK, PipelineBound
<1>4. IsFiniteSet(ids') /\ Cardinality(ids') \in Nat /\ Cardinality(ids') <= Cardinality(ids)
  BY <1>1, FS_CardinalityType DEF QueryKeeps
<1>5. PipelineBound'
  <2>1. limit' = limit /\ left' = left
    BY DEF callVars
  <2>2. Cardinality(ids') <= limit - left
    BY <1>1, <1>3, <1>4
  <2> QED
    BY <2>1, <2>2 DEF PipelineBound
<1>6. PipelineFull'
  <2> SUFFICES ASSUME Smooth', ~freed', pos' <= Len(list')
               PROVE  Cardinality(ids') = limit' - left'
    BY DEF PipelineFull
  <2>1. Smooth /\ pos <= Len(list) /\ Cardinality(ids') = Cardinality(pend) + 1
    BY SmoothBefore DEF QueryKeeps, callVars, CallInv, TypeOK
  <2>2. Cardinality(ids) = limit - left
    BY <2>1 DEF CallInv, PipelineFull
  <2> QED
    BY <1>1, <2>1, <2>2 DEF callVars
<1>7. EarlyReplyIsComplete'
  BY EndIsComplete DEF ShutdownIfDone, loopVars
<1>8. TypeOK'
  BY <1>2, BlobStep DEF QueryKeeps, CallInv, TypeOK, callVars
<1>9. ReplyIsRight'
  BY <1>7, BlobStep DEF ReplyIsRight, QueryKeeps
<1>10. FreedInv' /\ RequestsInv' /\ AskedInv' /\ IdsDiffer' /\ BlobInv'
  BY BlobStep DEF FreedInv, QueryKeeps
<1> QED
  BY <1>2, <1>4, <1>5, <1>6, <1>8, <1>9, <1>10 DEF CallInv

\* A callback that finds no request.
LEMMA IgnoredStep ==
  ASSUME CallInv, ~freed, left = 0, ShutdownIfDone, UNCHANGED <<callVars, queryVars, blob, expired>>,
         faulty' = faulty \/ faulty' = TRUE
  PROVE  CallInv'
<1> USE DEF callVars, queryVars
<1>1. NothingAfterFree' /\ (timer \in BOOLEAN /\ watched \in BOOLEAN /\ freed \in BOOLEAN)'
      /\ (replies \in 0 .. 1)'
  BY LoopStep DEF CallInv, TypeOK, ShutdownIfDone
<1>2. TypeOK'
  BY <1>1 DEF CallInv, TypeOK
<1>3. Smooth' => Smooth
  BY DEF Smooth, Plain, CallInv, TypeOK
<1>4. PipelineBound' /\ PipelineFull'
  BY <1>3 DEF CallInv, PipelineBound, PipelineFull
<1>5. EarlyReplyIsComplete'
  <2> SUFFICES ASSUME Smooth', freed'
               PROVE  ids' = {} /\ \A i \in 1 .. Len(list) : list[i] \in addrs
    BY DEF EarlyReplyIsComplete
  <2>1. ids' = {} /\ Cardinality(ids) = 0
    BY FS_EmptySet DEF ShutdownIfDone, loopVars
  <2>2. limit \in Nat /\ limit # 0 /\ pos \in Nat /\ Len(list) \in Nat
    BY BoundAssumption DEF CallInv, TypeOK
  <2>3. ~(pos <= Len(list))
    BY <1>3, <2>1, <2>2 DEF CallInv, PipelineFull
  <2> QED
    BY <1>3, <2>1, <2>2, <2>3 DEF CallInv, AskedInv, Smooth
<1>6. ReplyIsRight'
  BY <1>5 DEF CallInv, TypeOK, ReplyIsRight, AskedOnce, NameIsItsOwn, NameOnce
<1>7. FreedInv' /\ RequestsInv' /\ AskedInv' /\ IdsDiffer' /\ BlobInv'
  BY DEF CallInv, TypeOK, FreedInv, RequestsInv, AskedInv, Plain, IdsDiffer, BlobInv
<1> QED
  BY <1>1, <1>2, <1>4, <1>6, <1>7 DEF CallInv

LEMMA FirstQueryStep ==
  ASSUME CallInv, FirstQuery
  PROVE  CallInv'
<1>1. QueryKeeps(ids) /\ ~freed /\ UNCHANGED <<callVars, blob, loopVars, expired>>
  BY QueryStep DEF FirstQuery, CallInv, TypeOK, FreedInv
<1>2. left' = left - 1 /\ left \in 0 .. limit /\ left > 0 /\ limit \in Nat
  BY BoundAssumption DEF FirstQuery, CallInv, TypeOK
<1>3. Cardinality(ids) \in Nat /\ Cardinality(ids') \in Nat
  BY <1>1, FS_CardinalityType DEF CallInv, QueryKeeps
<1>4. NothingAfterFree' /\ FreedInv'
  BY <1>1, <1>2 DEF CallInv, NothingAfterFree, FreedInv, loopVars
<1>5. TypeOK'
  <2>1. (left \in 0 .. limit)'
    BY <1>1, <1>2 DEF callVars
  <2> QED
    BY <1>1, <2>1 DEF CallInv, TypeOK, QueryKeeps, callVars, loopVars
<1>6. PipelineBound'
  BY <1>1, <1>2, <1>3 DEF CallInv, PipelineBound, QueryKeeps, callVars
<1>7. PipelineFull'
  <2> SUFFICES ASSUME Smooth', pos' <= Len(list') PROVE Cardinality(ids') = limit' - left'
    BY DEF PipelineFull
  <2>1. Smooth /\ pos <= Len(list) /\ Cardinality(ids') = Cardinality(ids) + 1
    BY <1>1, SmoothBefore DEF QueryKeeps, callVars, CallInv, TypeOK
  <2>2. Cardinality(ids) = limit - left
    BY <1>1, <2>1 DEF CallInv, PipelineFull
  <2> QED
    BY <1>1, <1>2, <2>1, <2>2 DEF callVars
<1>8. ReplyIsRight'
  BY <1>1 DEF CallInv, ReplyIsRight, QueryKeeps, NameIsItsOwn, NameOnce, EarlyReplyIsComplete,
              loopVars
<1>9. BlobInv'
  BY <1>1 DEF CallInv, BlobInv, QueryKeeps
<1> QED
  BY <1>1, <1>4, <1>5, <1>6, <1>7, <1>8, <1>9 DEF CallInv, QueryKeeps

LEMMA CallStep ==
  ASSUME CallInv, [Next]_vars
  PROVE  CallInv'
<1>1. CASE FirstQuery
  BY <1>1, FirstQueryStep
<1>2. CASE Timeout
  <2> USE <1>2 DEF Timeout, callVars, queryVars
  <2>1. ~freed
    BY DEF CallInv, TypeOK, NothingAfterFree
  <2>2. NothingAfterFree' /\ (timer \in BOOLEAN /\ watched \in BOOLEAN /\ freed \in BOOLEAN)'
        /\ (replies \in 0 .. 1)'
    BY <2>1, LoopStep DEF CallInv, TypeOK
  <2>3. TypeOK'
    BY <2>2 DEF CallInv, TypeOK
  <2>4. freed' /\ expired'
    BY DEF Shutdown
  <2>5. ReplyIsRight' /\ PipelineBound' /\ PipelineFull'
    BY <2>4 DEF CallInv, ReplyIsRight, AskedOnce, NameIsItsOwn, NameOnce,
                EarlyReplyIsComplete, PipelineBound, PipelineFull
  <2>6. FreedInv' /\ RequestsInv' /\ AskedInv' /\ IdsDiffer' /\ BlobInv'
    BY DEF CallInv, FreedInv, RequestsInv, AskedInv, Plain, IdsDiffer, BlobInv
  <2> QED
    BY <2>2, <2>3, <2>5, <2>6 DEF CallInv
<1>3. ASSUME NEW q \in wire, Response(q)
      PROVE  CallInv'
  <2>1. ~freed /\ left = 0 /\ ShutdownIfDone /\ UNCHANGED <<callVars, expired>>
    BY <1>3 DEF Response, CallInv, TypeOK, NothingAfterFree
  <2>2. CASE Ignored
    BY <2>1, <2>2, IgnoredStep DEF Ignored
  <2>3. ASSUME NEW r \in ids, NEW named \in BOOLEAN, Matches(r, q), Answered(r, q, named),
               UNCHANGED left
        PROVE  CallInv'
    <3>1. QueryKeeps(ids \ {r})
      BY <2>1, <2>3, QueryStep DEF Answered, CallInv, TypeOK
    <3>2. q.addr \in Addr /\ (~clash => q.addr = r.addr)
      BY <2>3 DEF Matches, CallInv, TypeOK, Request, RequestsInv, IdsDiffer
    <3>3. Reported(r)
      BY <2>3, <3>2 DEF Answered, Reported
    <3> QED
      BY <2>1, <2>3, <3>1, <3>3, CallbackStep
  <2> QED
    BY <1>3, <2>2, <2>3 DEF Response
<1>4. CASE RecvFails
  <2>1. ~freed /\ left = 0 /\ ShutdownIfDone /\ UNCHANGED <<callVars, expired>>
    BY <1>4 DEF RecvFails, CallInv, TypeOK, NothingAfterFree
  <2>2. CASE faulty' = TRUE /\ UNCHANGED <<queryVars, blob>>
    BY <2>1, <2>2, IgnoredStep
  <2>3. ASSUME NEW r \in ids, NextQuery(ids \ {r}, TRUE), UNCHANGED <<left, blob>>
        PROVE  CallInv'
    <3>1. QueryKeeps(ids \ {r})
      BY <2>1, <2>3, QueryStep
    <3> QED
      BY <2>1, <2>3, <3>1, CallbackStep DEF Reported
  <2> QED
    BY <1>4, <2>2, <2>3 DEF RecvFails
<1>5. CASE UNCHANGED vars
  <2> USE <1>5 DEF vars, callVars, queryVars, loopVars
  <2>1. TypeOK' /\ NothingAfterFree' /\ PipelineBound' /\ PipelineFull'
    BY DEF CallInv, TypeOK, NothingAfterFree, PipelineBound, PipelineFull, Smooth, Plain
  <2>2. ReplyIsRight'
    BY DEF CallInv, ReplyIsRight, AskedOnce, NameIsItsOwn, NameOnce, EarlyReplyIsComplete,
           Smooth, Plain
  <2>3. FreedInv' /\ RequestsInv' /\ AskedInv' /\ IdsDiffer' /\ BlobInv'
    BY DEF CallInv, FreedInv, RequestsInv, AskedInv, Plain, IdsDiffer, BlobInv
  <2> QED
    BY <2>1, <2>2, <2>3 DEF CallInv
<1> QED
  BY <1>1, <1>2, <1>3, <1>4, <1>5 DEF Next

-----------------------------------------------------------------------------

\* For every list, limit and failure: the server never has more than limit
\* queries of a call to answer, and no fewer while a smooth call has addresses
\* left.
THEOREM PipelineIsKept == Spec => []PipelineKept
<1>1. CallInv => PipelineKept
  BY DEF CallInv, PipelineKept
<1> QED
  BY <1>1, CallInit, CallStep, PTL DEF Spec

\* Whatever order answers come in, late, twice or never: what the reply says is
\* right, and a reply before the timeout is complete.
THEOREM ReplyIsAlwaysRight == Spec => []ReplyIsRight
<1>1. CallInv => ReplyIsRight
  BY DEF CallInv
<1> QED
  BY <1>1, CallInit, CallStep, PTL DEF Spec

\* One reply and one free, by the last answer or by the timeout, and then no
\* callback is left.
THEOREM NothingRunsAfterFree == Spec => []NothingAfterFree
<1>1. CallInv => NothingAfterFree
  BY DEF CallInv
<1> QED
  BY <1>1, CallInit, CallStep, PTL DEF Spec
=============================================================================

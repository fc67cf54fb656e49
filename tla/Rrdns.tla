------------------------------- MODULE Rrdns -------------------------------
(* One call of network.rrdns lookup (rpcd-mod-rrdns, rrdns.c): reverse DNS  *)
(* queries for a list of addresses, at most limit of them under way, each   *)
(* answer starting the next; one deferred reply when no query is left or    *)
(* when the time is over. rpcd is single-threaded: the call itself, and     *)
(* later each callback of the event loop, runs in one piece.                *)
EXTENDS Naturals, Sequences, FiniteSets

CONSTANTS
    Addr,     \* addresses that parse
    Bad,      \* a list entry that does not
    Id,       \* query ids, picked by res_mkquery
    MaxLen,   \* bound: longest list of a call
    MaxLimit, \* bound: RRDNS_MAX_LIMIT
    Faults    \* whether send, recv and calloc may fail

ASSUME BadAssumption == Bad \notin Addr
ASSUME BoundAssumption == MaxLen \in Nat /\ MaxLimit \in Nat \ {0}
ASSUME FaultAssumption == Faults \in BOOLEAN

VARIABLES
    list,    \* the addrs of the call
    limit,   \* queries to start with
    pos,     \* addr_cur: the next entry of the list
    left,    \* iterations of the loop in lookup still to come
    ids,     \* request_ids: requests that wait for an answer
    addrs,   \* request_addrs: the addresses of all requests made
    wire,    \* queries that were sent; each may be answered late, twice, never
    blob,    \* the reply so far: the address and what the answer was about
    timer,   \* the timeout is armed
    watched, \* the socket is registered with the event loop
    freed,   \* the context is freed
    replies, \* replies sent for the call
    expired, \* history: the timeout ended the call
    clash,   \* history: two queries had the same id
    faulty   \* history: a send, recv or calloc failed

callVars == <<list, limit>>
queryVars == <<pos, left, ids, addrs, wire, clash>>
loopVars == <<timer, watched, freed, replies>>
vars == <<callVars, queryVars, blob, loopVars, expired, faulty>>

Request == [id : Id, addr : Addr]
Lists == UNION {[1 .. n -> Addr \union {Bad}] : n \in 0 .. MaxLen}

TypeOK ==
    /\ list \in Seq(Addr \union {Bad})
    /\ limit \in 1 .. MaxLimit
    /\ pos \in 1 .. Len(list) + 1
    /\ left \in 0 .. limit
    /\ ids \in SUBSET Request
    /\ addrs \in SUBSET Addr
    /\ wire \in SUBSET Request
    /\ blob \in Seq([addr : Addr, about : Addr])
    /\ timer \in BOOLEAN /\ watched \in BOOLEAN /\ freed \in BOOLEAN
    /\ replies \in 0 .. 1
    /\ expired \in BOOLEAN /\ clash \in BOOLEAN /\ faulty \in BOOLEAN

\* A call that passed its checks, before the first query.
Init ==
    /\ list \in Lists
    /\ limit \in 1 .. MaxLimit
    /\ pos = 1 /\ left = limit
    /\ ids = {} /\ addrs = {} /\ wire = {}
    /\ blob = <<>>
    /\ timer = TRUE /\ watched = TRUE /\ freed = FALSE
    /\ replies = 0
    /\ expired = FALSE /\ clash = FALSE /\ faulty = FALSE

----------------------------------------------------------------------------
(* rrdns_next_query. pend is request_ids when it is called.                 *)

Ids(reqs) == {r.id : r \in reqs}

\* avl_insert leaves a tree that has the key as it is.
Inserted(pend, r) == IF r.id \in Ids(pend) THEN pend ELSE pend \union {r}

\* The entry does not parse, or its address was asked before: it is passed
\* over, and no other entry is taken in its place.
Rejected(entry) == entry = Bad \/ entry \in addrs

\* The request is made; without memory the query is out all the same.
Ask(pend, a, id, stored) ==
    /\ wire' = wire \union {[id |-> id, addr |-> a]}
    /\ clash' = (clash \/ id \in Ids(wire))
    /\ IF stored
         THEN /\ ids' = Inserted(pend, [id |-> id, addr |-> a])
              /\ addrs' = addrs \union {a}
         ELSE /\ ids' = pend
              /\ UNCHANGED addrs

\* f: whether anything failed before.
NextQuery(pend, f) ==
    \/ /\ pos > Len(list)
       /\ ids' = pend /\ faulty' = f
       /\ UNCHANGED <<pos, addrs, wire, clash>>
    \/ /\ pos <= Len(list)
       /\ pos' = pos + 1
       /\ \/ /\ Rejected(list[pos])
             /\ ids' = pend /\ faulty' = f
             /\ UNCHANGED <<addrs, wire, clash>>
          \/ /\ ~Rejected(list[pos])
             /\ \E id \in Id : Ask(pend, list[pos], id, TRUE)
             /\ faulty' = f
          \/ /\ Faults /\ ~Rejected(list[pos])
             /\ \/ \E id \in Id : Ask(pend, list[pos], id, FALSE)
                \/ ids' = pend /\ UNCHANGED <<addrs, wire, clash>>
             /\ faulty' = TRUE

\* One iteration of the loop in rpc_rrdns_lookup.
FirstQuery ==
    /\ left > 0
    /\ left' = left - 1
    /\ NextQuery(ids, faulty)
    /\ UNCHANGED <<callVars, blob, loopVars, expired>>

----------------------------------------------------------------------------
(* The callbacks, which run when the call has returned to the event loop.   *)

ShutdownTimerKept ==                    \* mutant: the timeout stays armed
    /\ UNCHANGED timer
    /\ watched' = FALSE
    /\ freed' = TRUE
    /\ replies' = replies + 1

\* rdns_shutdown
Shutdown ==
    /\ timer' = FALSE
    /\ watched' = FALSE
    /\ freed' = TRUE
    /\ replies' = replies + 1

TimeoutOnlyPending ==                   \* mutant: only if something is pending
    /\ left = 0 /\ timer /\ ids # {}
    /\ Shutdown
    /\ expired' = TRUE
    /\ UNCHANGED <<callVars, queryVars, blob, faulty>>

\* rrdns_handle_timeout
Timeout ==
    /\ left = 0 /\ timer
    /\ Shutdown
    /\ expired' = TRUE
    /\ UNCHANGED <<callVars, queryVars, blob, faulty>>

\* The end of rrdns_handle_response.
ShutdownIfDone == IF ids' = {} THEN Shutdown ELSE UNCHANGED loopVars

\* rrdns_parse_response finds the request: it is taken out, the names in the
\* answer are added, and whatever came of that the next query is sent.
Answered(r, q, named) ==
    /\ blob' = IF named THEN Append(blob, [addr |-> r.addr, about |-> q.addr]) ELSE blob
    /\ NextQuery(ids \ {r}, faulty)

IgnoredAndNext ==                       \* mutant: the next query is sent anyway
    NextQuery(ids, faulty) /\ UNCHANGED <<left, blob>>

\* No request has this id: -ENOENT.
Ignored == UNCHANGED <<queryVars, blob, faulty>>

MatchesAny(r, q) == TRUE                \* mutant: the id is not looked at
Matches(r, q) == r.id = q.id

\* rrdns_handle_response with an answer of the server to query q.
Response(q) ==
    /\ left = 0 /\ watched
    /\ \/ \E r \in ids, named \in BOOLEAN :
             Matches(r, q) /\ Answered(r, q, named) /\ UNCHANGED left
       \/ q.id \notin Ids(ids) /\ Ignored
    /\ ShutdownIfDone
    /\ UNCHANGED <<callVars, expired>>

\* recv fails: len = -1 is not less than an unsigned size, so the id is read
\* from an uninitialized buffer. It may be that of any request or of none; no
\* answer is parsed from it. (A datagram that is too short does what the second
\* alternative does.)
RecvFails ==
    /\ Faults /\ left = 0 /\ watched
    /\ \/ \E r \in ids : NextQuery(ids \ {r}, TRUE) /\ UNCHANGED <<left, blob>>
       \/ faulty' = TRUE /\ UNCHANGED <<queryVars, blob>>
    /\ ShutdownIfDone
    /\ UNCHANGED <<callVars, expired>>

Next ==
    \/ FirstQuery
    \/ Timeout
    \/ \E q \in wire : Response(q)
    \/ RecvFails

Spec == Init /\ [][Next]_vars

\* The call runs on, and the timeout comes.
FairSpec == Spec /\ WF_vars(FirstQuery) /\ WF_vars(Timeout)
----------------------------------------------------------------------------
(* Properties                                                               *)

\* A list whose entries are all different addresses. (After an entry that is
\* passed over in a callback no other is tried, and the reply may come early.)
Plain == \A i, j \in 1 .. Len(list) : list[i] # Bad /\ (list[i] = list[j] => i = j)
Smooth == Plain /\ ~clash /\ ~faulty

\* The server never has more than limit queries of a call to answer, whatever
\* arrives late or twice.
PipelineBound == Cardinality(ids) <= limit - left

\* ... and no fewer while addresses are left: each answer starts a query.
PipelineFull ==
    Smooth /\ ~freed /\ pos <= Len(list) => Cardinality(ids) = limit - left

\* Of a well-formed call, as many queries are open as the limit says.
PipelineKept == TypeOK /\ PipelineBound /\ PipelineFull

\* An address is asked for once only, also when the list repeats it and when
\* its answer is long there: its request is found in request_addrs, which is
\* what frees it in the end.
AskedOnce ==
    ~faulty => /\ \A q, r \in wire : q.addr = r.addr => q = r
               /\ addrs = {q.addr : q \in wire}

\* A name is reported for the address it belongs to, as long as the ids of the
\* call differ (the question in an answer is not compared with the request).
NameIsItsOwn ==
    ~clash => \A i \in DOMAIN blob : blob[i].addr = blob[i].about

\* An answer that comes twice is reported once.
NameOnce ==
    \A i, j \in DOMAIN blob : blob[i].addr = blob[j].addr => i = j

\* A reply before the timeout leaves nothing out: every address was asked for
\* and every query answered.
EarlyReplyIsComplete ==
    Smooth /\ freed /\ ~expired => ids = {} /\ \A i \in 1 .. Len(list) : list[i] \in addrs

\* The reply is right: each address once, with a name of its own, and complete
\* unless it says so by being late.
ReplyIsRight == AskedOnce /\ NameIsItsOwn /\ NameOnce /\ EarlyReplyIsComplete

\* The context is freed with exactly one reply sent, and no callback is left
\* that would use it.
NothingAfterFree ==
    IF freed THEN ~timer /\ ~watched /\ replies = 1 ELSE timer /\ watched /\ replies = 0

\* Every call is replied to.
CallIsReplied == <>(replies = 1)
=============================================================================

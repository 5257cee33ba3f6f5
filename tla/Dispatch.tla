------------------------------ MODULE Dispatch ------------------------------
(***************************************************************************)
(* POST /v1/chat/completions once a node may be chosen: the transport      *)
(* decision of node_dispatch, the replies of a Zenoh query bridged by a    *)
(* worker thread into an asyncio queue, the node that answers it, the      *)
(* relayed stream, and the metering that ends every request.               *)
(*                                                                         *)
(* Requests interleave at their awaits.  _meter awaits only store calls,   *)
(* which never yield, so metering is part of the step that ends a request; *)
(* its two commits, the usage record's and the balance's, are separate, so *)
(* either may fail and the process may die between them.                   *)
(*                                                                         *)
(* Text is abstracted to a number of chunks; a credit is one unit for one  *)
(* request (the amount, a product of memory and time, is not modelled).    *)
(***************************************************************************)
EXTENDS Naturals, Sequences, FiniteSets

CONSTANTS
    Req,              \* requests that pass authentication
    Node,             \* nodes matchmaking may choose
    NoNode,           \* no node chosen yet
    MaxChunks,        \* chunks a generation may produce
    TailSize,         \* UsageMeter.MAX_RECENT
    MaxCrashes,       \* bound on stops of the Scheduler process
    MaxStoreFailures, \* bound on store calls that raise
    MaxSwaps          \* bound on mesh replies that overtake their predecessor

ASSUME DispatchAssumption ==
    /\ NoNode \notin Node
    /\ {MaxChunks, MaxCrashes, MaxStoreFailures, MaxSwaps} \subseteq Nat
    /\ TailSize \in Nat \ {0}

VARIABLES
    up,        \* the Scheduler process is serving
    at,        \* where each request's handler is
    stream,    \* requests that asked for a stream
    target,    \* the chosen node
    via,       \* the transport that is read
    gen,       \* the generation each transport started at the node
    produced,  \* chunks it has produced
    queue,     \* the bridge queue of the mesh query
    drained,   \* requests whose reply iterator is exhausted
    relayed,   \* chunks handed to the requester
    answered,  \* history: requests that consumed a reply the node sent
    recent,    \* UsageMeter._recent
    earned,    \* CreditLedger balances in memory
    dUsage,    \* table usage_records
    dEarned,   \* table credit_accounts
    spent      \* crashes, store failures and swaps so far

request == <<stream, target, via>>
mesh == <<queue, drained>>
books == <<recent, earned, dUsage, dEarned>>
vars == <<up, at, request, gen, produced, mesh, relayed, answered, books, spent>>

Transport == {"mesh", "http"}
Active == {"mesh", "http", "opened", "relay"}

Limit == [crashes |-> MaxCrashes, failures |-> MaxStoreFailures, swaps |-> MaxSwaps]
Spend(b) == spent[b] < Limit[b] /\ spent' = [spent EXCEPT ![b] = @ + 1]

-----------------------------------------------------------------------------
(***************************************************************************)
(* UsageMeter, CreditLedger and the process that holds them                *)
(***************************************************************************)

\* The bounded in-memory tail
LastRecordsAreOldest(s) == IF Len(s) > TailSize THEN SubSeq(s, 1, TailSize) ELSE s
LastRecords(s) ==
    IF Len(s) > TailSize THEN SubSeq(s, Len(s) - TailSize + 1, Len(s)) ELSE s

\* Only successful work accrues
AccruesAlways(r, ok) == [earned EXCEPT ![target[r]] = @ + 1]
Accrued(r, ok) == IF ok THEN [earned EXCEPT ![target[r]] = @ + 1] ELSE earned

Recorded(r, ok) == recent' = LastRecords(Append(recent, [req |-> r, ok |-> ok]))

\* _meter: usage record and commit, then credit and commit
MeterStores(r, ok) ==
    /\ at' = [at EXCEPT ![r] = "over"]
    /\ Recorded(r, ok)
    /\ dUsage' = Append(dUsage, [req |-> r, ok |-> ok])
    /\ earned' = Accrued(r, ok)
    /\ dEarned' = [dEarned EXCEPT ![target[r]] = Accrued(r, ok)[target[r]]]
    /\ UNCHANGED <<up, spent>>

\* save_usage raises: the exception is logged and the credit is skipped
MeterLosesUsage(r, ok) ==
    /\ Spend("failures")
    /\ at' = [at EXCEPT ![r] = "over"]
    /\ Recorded(r, ok)
    /\ UNCHANGED <<up, earned, dUsage, dEarned>>

\* save_account raises: the balance in memory has already moved
MeterLosesCredit(r, ok) ==
    /\ ok
    /\ Spend("failures")
    /\ at' = [at EXCEPT ![r] = "over"]
    /\ Recorded(r, ok)
    /\ dUsage' = Append(dUsage, [req |-> r, ok |-> ok])
    /\ earned' = Accrued(r, ok)
    /\ UNCHANGED <<up, dEarned>>

\* Memory and every request in flight go with the process
LoseMemory ==
    /\ Spend("crashes")
    /\ up' = FALSE
    /\ at' = [r \in Req |-> IF at[r] \in Active THEN "lost" ELSE at[r]]
    /\ recent' = <<>>
    /\ earned' = [n \in Node |-> 0]

MeterCrashes(r, ok) ==
    /\ ok
    /\ LoseMemory
    /\ dUsage' = Append(dUsage, [req |-> r, ok |-> ok])
    /\ UNCHANGED dEarned

Meter(r, ok) ==
    \/ MeterStores(r, ok)
    \/ MeterLosesUsage(r, ok)
    \/ MeterLosesCredit(r, ok)
    \/ MeterCrashes(r, ok)

Crash ==
    /\ up
    /\ LoseMemory
    /\ UNCHANGED <<request, gen, produced, mesh, relayed, answered, dUsage, dEarned>>

\* ledger.load() and usage_meter.load()
Boot ==
    /\ ~up
    /\ up' = TRUE
    /\ recent' = LastRecords(dUsage)
    /\ earned' = dEarned
    /\ UNCHANGED <<at, request, gen, produced, mesh, relayed, answered, dUsage, dEarned, spent>>

-----------------------------------------------------------------------------
(***************************************************************************)
(* Choosing a node and a transport                                         *)
(***************************************************************************)

\* 429, 501 or 503: no node was involved and nothing is metered
Refuse(r) ==
    /\ up /\ at[r] = "new"
    /\ at' = [at EXCEPT ![r] = "refused"]
    /\ UNCHANGED <<up, request, gen, produced, mesh, relayed, answered, books, spent>>

\* An HTTP stream is only opened when the requester's generator starts
HttpPlace(streaming) == IF streaming THEN "opened" ELSE "http"
HttpGen(r, streaming) == IF streaming THEN gen ELSE [gen EXCEPT ![r]["http"] = "asked"]

DispatchHttp(r, n, streaming) ==
    /\ up /\ at[r] = "new"
    /\ stream' = [stream EXCEPT ![r] = streaming]
    /\ target' = [target EXCEPT ![r] = n]
    /\ via' = [via EXCEPT ![r] = "http"]
    /\ at' = [at EXCEPT ![r] = HttpPlace(streaming)]
    /\ gen' = HttpGen(r, streaming)
    /\ UNCHANGED <<up, produced, mesh, relayed, answered, books, spent>>

\* The registry has seen the node on the mesh and the query was sent
DispatchMesh(r, n, streaming) ==
    /\ up /\ at[r] = "new"
    /\ stream' = [stream EXCEPT ![r] = streaming]
    /\ target' = [target EXCEPT ![r] = n]
    /\ via' = [via EXCEPT ![r] = "mesh"]
    /\ at' = [at EXCEPT ![r] = "mesh"]
    /\ gen' = [gen EXCEPT ![r]["mesh"] = "asked"]
    /\ UNCHANGED <<up, produced, mesh, relayed, answered, books, spent>>

-----------------------------------------------------------------------------
(***************************************************************************)
(* The node: ZenohInferenceServer._serve and HTTP /infer                   *)
(***************************************************************************)

\* A reply reaches the bridge queue while the drain thread still iterates
Replied(r, item) == queue' = IF r \in drained THEN queue
                                              ELSE [queue EXCEPT ![r] = Append(@, item)]

NodeAccepts(r, t) ==
    /\ gen[r][t] = "asked"
    /\ gen' = [gen EXCEPT ![r][t] = "working"]
    /\ UNCHANGED <<up, at, request, produced, mesh, relayed, answered, books, spent>>

NodeProduces(r, t) ==
    /\ gen[r][t] = "working" /\ stream[r] /\ produced[r][t] < MaxChunks
    /\ produced' = [produced EXCEPT ![r][t] = @ + 1]
    /\ IF t = "mesh" THEN Replied(r, "chunk") ELSE UNCHANGED queue
    /\ UNCHANGED <<up, at, request, gen, drained, relayed, answered, books, spent>>

NodeFinishes(r, t) ==
    /\ gen[r][t] = "working"
    /\ gen' = [gen EXCEPT ![r][t] = "done"]
    /\ IF t = "mesh" THEN Replied(r, IF stream[r] THEN "done" ELSE "result")
                     ELSE UNCHANGED queue
    /\ UNCHANGED <<up, at, request, produced, drained, relayed, answered, books, spent>>

\* A rejected envelope, an unpulled model, an Ollama error
NodeFails(r, t) ==
    /\ gen[r][t] \in {"asked", "working"}
    /\ gen' = [gen EXCEPT ![r][t] = "failed"]
    /\ IF t = "mesh" THEN Replied(r, "error") ELSE UNCHANGED queue
    /\ UNCHANGED <<up, at, request, produced, drained, relayed, answered, books, spent>>

\* No queryable, or the node is gone: no answer comes
NodeVanishes(r, t) ==
    /\ gen[r][t] \in {"asked", "working"}
    /\ gen' = [gen EXCEPT ![r][t] = "failed"]
    /\ UNCHANGED <<up, at, request, produced, mesh, relayed, answered, books, spent>>

\* Zenoh does not guarantee the order of replies
RepliesSwap(r) ==
    /\ Len(queue[r]) >= 2 /\ queue[r][Len(queue[r])] # "end"
    /\ Spend("swaps")
    /\ LET q == queue[r]
           k == Len(q)
       IN  queue' = [queue EXCEPT ![r] = [@ EXCEPT ![k] = q[k - 1], ![k - 1] = q[k]]]
    /\ UNCHANGED <<up, at, request, gen, produced, drained, relayed, answered, books>>

-----------------------------------------------------------------------------
(***************************************************************************)
(* MeshInferenceClient: the drain thread and the first reply               *)
(***************************************************************************)

\* drain's finally clause
EndForgotten(r) == queue[r]
EndMarked(r) == Append(queue[r], "end")

\* The iterator ends: the query is answered or dropped, or its total timeout
\* passed, which is longer than the first-reply deadline
QueryEnds(r) ==
    /\ gen[r]["mesh"] # "none" /\ r \notin drained
    /\ gen[r]["mesh"] \in {"done", "failed"} \/ at[r] # "mesh"
    /\ queue' = [queue EXCEPT ![r] = EndMarked(r)]
    /\ drained' = drained \cup {r}
    /\ UNCHANGED <<up, at, request, gen, produced, relayed, answered, books, spent>>

\* The iterator raises, or a reply does not decode
QueryBreaks(r) ==
    /\ gen[r]["mesh"] # "none" /\ r \notin drained
    /\ queue' = [queue EXCEPT ![r] = @ \o <<"broken", "end">>]
    /\ drained' = drained \cup {r}
    /\ UNCHANGED <<up, at, request, gen, produced, relayed, answered, books, spent>>

\* What _first_reply turns into MeshUnavailableError
UnavailableOrError == {"end", "broken", "error"}
Unavailable == {"end", "broken"}

FallBack(r) ==
    /\ via' = [via EXCEPT ![r] = "http"]
    /\ at' = [at EXCEPT ![r] = HttpPlace(stream[r])]
    /\ gen' = HttpGen(r, stream[r])
    /\ UNCHANGED <<up, stream, target, produced, relayed, books, spent>>

FirstReplyUnavailable(r) ==
    /\ at[r] = "mesh" /\ queue[r] # <<>> /\ Head(queue[r]) \in Unavailable
    /\ queue' = [queue EXCEPT ![r] = Tail(@)]
    /\ answered' = IF Head(queue[r]) = "error" THEN answered \cup {r} ELSE answered
    /\ UNCHANGED drained
    /\ FallBack(r)

FirstReplyTimeout(r) ==
    /\ at[r] = "mesh" /\ queue[r] = <<>>
    /\ UNCHANGED <<mesh, answered>>
    /\ FallBack(r)

\* The node's own failure is surfaced and metered
FirstReplyErrorUnmetered(r) ==
    /\ at[r] = "mesh" /\ queue[r] # <<>> /\ Head(queue[r]) = "error"
    /\ queue' = [queue EXCEPT ![r] = Tail(@)]
    /\ answered' = answered \cup {r}
    /\ at' = [at EXCEPT ![r] = "over"]
    /\ UNCHANGED <<up, request, gen, produced, drained, relayed, books, spent>>

FirstReplyError(r) ==
    /\ at[r] = "mesh" /\ queue[r] # <<>> /\ Head(queue[r]) = "error"
    /\ queue' = [queue EXCEPT ![r] = Tail(@)]
    /\ answered' = answered \cup {r}
    /\ Meter(r, FALSE)
    /\ UNCHANGED <<request, gen, produced, drained, relayed>>

FirstReplyResult(r) ==
    /\ at[r] = "mesh" /\ queue[r] # <<>> /\ Head(queue[r]) = "result"
    /\ queue' = [queue EXCEPT ![r] = Tail(@)]
    /\ answered' = answered \cup {r}
    /\ Meter(r, TRUE)
    /\ UNCHANGED <<request, gen, produced, drained, relayed>>

\* A stream opens on its first chunk, or on the end of an empty generation.
\* MeshStream holds that reply until it is iterated: here it stays queued.
FirstReplyOpens(r) ==
    /\ at[r] = "mesh" /\ queue[r] # <<>> /\ Head(queue[r]) \in {"chunk", "done"}
    /\ at' = [at EXCEPT ![r] = "opened"]
    /\ answered' = answered \cup {r}
    /\ UNCHANGED <<up, request, gen, produced, mesh, relayed, books, spent>>

-----------------------------------------------------------------------------
(***************************************************************************)
(* HTTP, one answer                                                        *)
(***************************************************************************)

HttpAnswers(r) ==
    /\ at[r] = "http" /\ gen[r]["http"] = "done"
    /\ Meter(r, TRUE)
    /\ UNCHANGED <<request, gen, produced, mesh, relayed, answered>>

\* A status other than 200, a transport error or the client's timeout
HttpFails(r) ==
    /\ at[r] = "http"
    /\ Meter(r, FALSE)
    /\ UNCHANGED <<request, gen, produced, mesh, relayed, answered>>

\* A 200 whose body does not parse: the handler raises past the meter
HttpUnparseable(r) ==
    /\ at[r] = "http" /\ gen[r]["http"] = "done"
    /\ at' = [at EXCEPT ![r] = "unparseable"]
    /\ UNCHANGED <<up, request, gen, produced, mesh, relayed, answered, books, spent>>

-----------------------------------------------------------------------------
(***************************************************************************)
(* sse_generator and metered_sse                                           *)
(***************************************************************************)

StreamStarts(r) ==
    /\ at[r] = "opened"
    /\ at' = [at EXCEPT ![r] = "relay"]
    /\ gen' = IF via[r] = "http" THEN [gen EXCEPT ![r]["http"] = "asked"] ELSE gen
    /\ UNCHANGED <<up, request, produced, mesh, relayed, answered, books, spent>>

\* The requester is gone before the response body is iterated: a generator that
\* never started has no finally clause to run
RequesterGoneEarly(r) ==
    /\ at[r] = "opened"
    /\ at' = [at EXCEPT ![r] = "unheard"]
    /\ UNCHANGED <<up, request, gen, produced, mesh, relayed, answered, books, spent>>

RequesterGone(r) ==
    /\ at[r] = "relay"
    /\ Meter(r, FALSE)
    /\ UNCHANGED <<request, gen, produced, mesh, relayed, answered>>

RelayMeshChunk(r) ==
    /\ at[r] = "relay" /\ via[r] = "mesh"
    /\ queue[r] # <<>> /\ Head(queue[r]) = "chunk"
    /\ queue' = [queue EXCEPT ![r] = Tail(@)]
    /\ relayed' = [relayed EXCEPT ![r] = @ + 1]
    /\ UNCHANGED <<up, at, request, gen, produced, drained, answered, books, spent>>

\* Only the node's own terminator ends a stream cleanly
CleanEndIncludesSilence == {"done", "end"}
CleanEnd == {"done"}

RelayMeshEnds(r) ==
    /\ at[r] = "relay" /\ via[r] = "mesh"
    /\ queue[r] # <<>> /\ Head(queue[r]) # "chunk"
    /\ queue' = [queue EXCEPT ![r] = Tail(@)]
    /\ Meter(r, Head(queue[r]) \in CleanEnd)
    /\ UNCHANGED <<request, gen, produced, drained, relayed, answered>>

RelayHttpLine(r) ==
    /\ at[r] = "relay" /\ via[r] = "http"
    /\ relayed[r] < produced[r]["http"]
    /\ relayed' = [relayed EXCEPT ![r] = @ + 1]
    /\ UNCHANGED <<up, at, request, gen, produced, mesh, answered, books, spent>>

RelayHttpEnds(r) ==
    /\ at[r] = "relay" /\ via[r] = "http"
    /\ gen[r]["http"] = "done" /\ relayed[r] = produced[r]["http"]
    /\ Meter(r, TRUE)
    /\ UNCHANGED <<request, gen, produced, mesh, relayed, answered>>

\* A status other than 200, a body cut short or a timeout
RelayHttpFails(r) ==
    /\ at[r] = "relay" /\ via[r] = "http"
    /\ Meter(r, FALSE)
    /\ UNCHANGED <<request, gen, produced, mesh, relayed, answered>>

-----------------------------------------------------------------------------
Init ==
    /\ up = TRUE
    /\ at = [r \in Req |-> "new"]
    /\ stream = [r \in Req |-> FALSE]
    /\ target = [r \in Req |-> NoNode]
    /\ via = [r \in Req |-> "http"]
    /\ gen = [r \in Req |-> [t \in Transport |-> "none"]]
    /\ produced = [r \in Req |-> [t \in Transport |-> 0]]
    /\ queue = [r \in Req |-> <<>>]
    /\ drained = {} /\ answered = {}
    /\ relayed = [r \in Req |-> 0]
    /\ recent = <<>> /\ dUsage = <<>>
    /\ earned = [n \in Node |-> 0]
    /\ dEarned = [n \in Node |-> 0]
    /\ spent = [crashes |-> 0, failures |-> 0, swaps |-> 0]

Arrive(r) ==
    \/ Refuse(r)
    \/ \E n \in Node, s \in BOOLEAN : DispatchHttp(r, n, s) \/ DispatchMesh(r, n, s)

\* What a node or a drain thread does after the request has ended is read by
\* nobody and is left out.
NodeStep(r) ==
    at[r] \in Active /\ \E t \in Transport :
        \/ NodeAccepts(r, t) \/ NodeProduces(r, t) \/ NodeFinishes(r, t)
        \/ NodeFails(r, t) \/ NodeVanishes(r, t)

DrainStep(r) == at[r] \in Active /\ (QueryEnds(r) \/ QueryBreaks(r) \/ RepliesSwap(r))

FirstReplyStep(r) ==
    \/ FirstReplyUnavailable(r) \/ FirstReplyTimeout(r) \/ FirstReplyError(r)
    \/ FirstReplyResult(r) \/ FirstReplyOpens(r)

HttpStep(r) == HttpAnswers(r) \/ HttpFails(r) \/ HttpUnparseable(r)

RelayStep(r) ==
    \/ StreamStarts(r) \/ RequesterGoneEarly(r)
    \/ RelayMeshChunk(r) \/ RelayMeshEnds(r)
    \/ RelayHttpLine(r) \/ RelayHttpEnds(r) \/ RelayHttpFails(r)

Next ==
    \/ Crash \/ Boot
    \/ \E r \in Req :
          \/ Arrive(r) \/ NodeStep(r) \/ DrainStep(r)
          \/ FirstReplyStep(r) \/ HttpStep(r) \/ RelayStep(r) \/ RequesterGone(r)

Spec == Init /\ [][Next]_vars

\* Timeouts bound every wait of the Scheduler on a node, and the event loop
\* resumes a handler whose wait is over.  Nothing obliges the node to answer or
\* the requester to stay or to leave.
Fairness ==
    \A r \in Req : /\ WF_vars(at[r] \in Active /\ QueryEnds(r)) /\ WF_vars(FirstReplyStep(r))
                   /\ WF_vars(HttpStep(r)) /\ WF_vars(RelayStep(r))

FairSpec == Spec /\ Fairness

-----------------------------------------------------------------------------
(***************************************************************************)
(* Properties                                                              *)
(***************************************************************************)

RecordsOf(r) == {i \in DOMAIN dUsage : dUsage[i].req = r}
Successes(n) == {i \in DOMAIN dUsage : dUsage[i].ok /\ target[dUsage[i].req] = n}

\* A request that is over was metered exactly once, whichever of the many ways
\* it ended, and one that never reached its end not at all; only a store failure
\* keeps the record out of the database.
MeteredOnce ==
    \A r \in Req :
        /\ Cardinality(RecordsOf(r)) <= 1
        /\ at[r] = "over" /\ spent.failures = 0 => RecordsOf(r) # {}
        /\ at[r] \notin {"over", "lost"} => RecordsOf(r) = {}

\* A request recorded as a success gave its requester everything the node
\* generated for it, on whichever transport it ended: a truncated completion is
\* never counted as complete while replies keep their order.
SuccessIsComplete ==
    spent.swaps = 0 =>
        \A i \in DOMAIN dUsage :
            LET r == dUsage[i].req
            IN  dUsage[i].ok => /\ gen[r][via[r]] = "done"
                                /\ stream[r] => relayed[r] = produced[r][via[r]]

\* No balance, in memory or stored, exceeds what the node's stored successful
\* records account for, and nothing but a crash or a store failure makes it less.
CreditBackedByUsage ==
    \A n \in Node :
        /\ dEarned[n] <= Cardinality(Successes(n))
        /\ earned[n] <= Cardinality(Successes(n))
        /\ up => dEarned[n] <= earned[n]
        /\ spent.failures = 0 /\ spent.crashes = 0
               => earned[n] = Cardinality(Successes(n)) /\ dEarned[n] = earned[n]

\* Once the node has answered over the mesh, with a chunk, a result or an error
\* of its own, the request is never run again over HTTP.
AnswerIsFinal == \A r \in answered : gen[r]["http"] = "none"

\* The tail the dashboard reads is the end of the stored history, restarts
\* included, unless the store refused a record.
TailIsEndOfHistory ==
    up /\ spent.failures = 0 =>
        /\ Len(recent) = IF Len(dUsage) < TailSize THEN Len(dUsage) ELSE TailSize
        /\ \A i \in DOMAIN recent : recent[i] = dUsage[Len(dUsage) - Len(recent) + i]

\* Every dispatched request ends: no silence of the node, of the mesh or of the
\* drain thread leaves a handler waiting for ever.
EveryRequestEnds == \A r \in Req : (at[r] \in Active) ~> (at[r] \notin Active)
=============================================================================

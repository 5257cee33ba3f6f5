--------------------------- MODULE DispatchProofs ---------------------------
(***************************************************************************)
(* Proofs about Dispatch, for any number of requests, nodes, chunks,       *)
(* crashes, store failures and reordered replies: a node's answer is     *)
(* final, the books agree with each other and with what was done, and a     *)
(* success is complete.                                                    *)
(***************************************************************************)
EXTENDS Dispatch, SequenceTheorems, FiniteSetTheorems, TLAPS

\* Where a request can be once a reply of its node was consumed: past the first
\* reply, reading the mesh.
PastFirstReply == {"opened", "relay", "over", "lost", "unheard"}

\* The inductive strengthening of AnswerIsFinal.  Until the first reply has been
\* seen there is no HTTP generation, and after it there is no way back to the
\* point where the fallback is decided.
AnswerInv ==
    /\ gen \in [Req -> [Transport -> {"none", "asked", "working", "done", "failed"}]]
    /\ via \in [Req -> Transport]
    /\ at \in [Req -> Active \cup {"new", "refused", "over", "lost", "unheard", "unparseable"}]
    /\ answered \subseteq Req
    /\ \A r \in Req :
          /\ at[r] \in {"new", "mesh"} => gen[r]["http"] = "none"
          /\ at[r] = "mesh" => via[r] = "mesh"
          /\ r \in answered => /\ at[r] \in PastFirstReply
                               /\ via[r] = "mesh"
                               /\ gen[r]["http"] = "none"

\* Metering moves the metered request to its end, or, if the process dies, every
\* request in flight: it leaves nobody waiting for a first reply who was not.
LEMMA MeterMoves ==
    ASSUME NEW r \in Req, NEW ok \in BOOLEAN, AnswerInv, at[r] \in Active, Meter(r, ok)
    PROVE  /\ at' \in [Req -> Active \cup {"new", "refused", "over", "lost", "unheard", "unparseable"}]
           /\ \A q \in Req : at'[q] \in {at[q], "lost", "over"}
           /\ \A q \in Req : at[q] \notin Active => at'[q] = at[q]
           /\ at'[r] \in {"over", "lost"}
  <1>1. CASE MeterStores(r, ok) BY <1>1 DEF MeterStores, AnswerInv, Active
  <1>2. CASE MeterLosesUsage(r, ok) BY <1>2 DEF MeterLosesUsage, AnswerInv, Active
  <1>3. CASE MeterLosesCredit(r, ok) BY <1>3 DEF MeterLosesCredit, AnswerInv, Active
  <1>4. CASE MeterCrashes(r, ok) BY <1>4 DEF MeterCrashes, LoseMemory, AnswerInv, Active
  <1> QED BY <1>1, <1>2, <1>3, <1>4 DEF Meter

\* A fallback leaves the first-reply place for good; it is only taken by a
\* request that has consumed no reply.
LEMMA FallBackKeeps ==
    ASSUME AnswerInv, NEW r \in Req, at[r] = "mesh", FallBack(r), answered' = answered
    PROVE  AnswerInv'
  <1>1. r \notin answered BY DEF AnswerInv, PastFirstReply
  <1>2. /\ at' = [at EXCEPT ![r] = HttpPlace(stream[r])]
        /\ HttpPlace(stream[r]) \in {"opened", "http"}
        /\ via' = [via EXCEPT ![r] = "http"]
    BY DEF FallBack, HttpPlace
  <1>3. gen' = gen \/ gen' = [gen EXCEPT ![r]["http"] = "asked"]
    BY DEF FallBack, HttpGen
  <1>4. gen' \in [Req -> [Transport -> {"none", "asked", "working", "done", "failed"}]]
    BY <1>3 DEF AnswerInv, Transport
  <1>5. \A q \in Req : q # r => gen'[q] = gen[q]
    BY <1>3 DEF AnswerInv
  <1> QED BY <1>1, <1>2, <1>4, <1>5 DEF AnswerInv, PastFirstReply, Active, Transport

\* Every step keeps the strengthened invariant.
LEMMA AnswerStep == AnswerInv /\ [Next]_vars => AnswerInv'
  <1> SUFFICES ASSUME AnswerInv, [Next]_vars PROVE AnswerInv' OBVIOUS
  <1> USE DEF AnswerInv, PastFirstReply, Active, Transport
  <1>1. CASE Crash BY <1>1 DEF Crash, LoseMemory, request
  <1>2. CASE Boot BY <1>2 DEF Boot, request
  <1>3. ASSUME NEW r \in Req, Arrive(r) PROVE AnswerInv'
    <2>1. CASE Refuse(r) BY <2>1 DEF Refuse, request
    <2>2. ASSUME NEW n \in Node, NEW s \in BOOLEAN, DispatchHttp(r, n, s) PROVE AnswerInv'
      BY <2>2 DEF DispatchHttp, HttpPlace, HttpGen
    <2>3. ASSUME NEW n \in Node, NEW s \in BOOLEAN, DispatchMesh(r, n, s) PROVE AnswerInv'
      BY <2>3 DEF DispatchMesh
    <2> QED BY <1>3, <2>1, <2>2, <2>3 DEF Arrive
  <1>4. ASSUME NEW r \in Req, NodeStep(r) PROVE AnswerInv'
    <2> PICK t \in Transport : \/ NodeAccepts(r, t) \/ NodeProduces(r, t)
                               \/ NodeFinishes(r, t) \/ NodeFails(r, t) \/ NodeVanishes(r, t)
      BY <1>4 DEF NodeStep
    <2>1. CASE NodeAccepts(r, t) BY <2>1 DEF NodeAccepts, request
    <2>2. CASE NodeProduces(r, t) BY <2>2 DEF NodeProduces, request
    <2>3. CASE NodeFinishes(r, t) BY <2>3 DEF NodeFinishes, request
    <2>4. CASE NodeFails(r, t) BY <2>4 DEF NodeFails, request
    <2>5. CASE NodeVanishes(r, t) BY <2>5 DEF NodeVanishes, request
    <2> QED BY <2>1, <2>2, <2>3, <2>4, <2>5
  <1>5. ASSUME NEW r \in Req, DrainStep(r) PROVE AnswerInv'
    BY <1>5 DEF DrainStep, QueryEnds, QueryBreaks, RepliesSwap, request
  <1>6. ASSUME NEW r \in Req, FirstReplyStep(r) PROVE AnswerInv'
    <2>1. CASE FirstReplyUnavailable(r)
      BY <2>1, FallBackKeeps DEF FirstReplyUnavailable, Unavailable
    <2>2. CASE FirstReplyTimeout(r) BY <2>2, FallBackKeeps DEF FirstReplyTimeout
    <2>3. CASE FirstReplyError(r) BY <2>3, MeterMoves DEF FirstReplyError, request
    <2>4. CASE FirstReplyResult(r) BY <2>4, MeterMoves DEF FirstReplyResult, request
    <2>5. CASE FirstReplyOpens(r) BY <2>5 DEF FirstReplyOpens, request
    <2> QED BY <1>6, <2>1, <2>2, <2>3, <2>4, <2>5 DEF FirstReplyStep
  <1>7. ASSUME NEW r \in Req, HttpStep(r) PROVE AnswerInv'
    <2>1. CASE HttpAnswers(r) BY <2>1, MeterMoves DEF HttpAnswers, request
    <2>2. CASE HttpFails(r) BY <2>2, MeterMoves DEF HttpFails, request
    <2>3. CASE HttpUnparseable(r) BY <2>3 DEF HttpUnparseable, request
    <2> QED BY <1>7, <2>1, <2>2, <2>3 DEF HttpStep
  <1>8. ASSUME NEW r \in Req, RelayStep(r) PROVE AnswerInv'
    <2>1. CASE StreamStarts(r) BY <2>1 DEF StreamStarts, request
    <2>2. CASE RequesterGoneEarly(r) BY <2>2 DEF RequesterGoneEarly, request
    <2>3. CASE RelayMeshChunk(r) BY <2>3 DEF RelayMeshChunk, request
    <2>4. CASE RelayMeshEnds(r)
      <3> DEFINE ok == Head(queue[r]) \in CleanEnd
      <3>1. at[r] \in Active /\ ok \in BOOLEAN /\ Meter(r, ok) BY <2>4 DEF RelayMeshEnds
      <3> HIDE DEF ok
      <3> QED BY <2>4, <3>1, MeterMoves DEF RelayMeshEnds, request
    <2>5. CASE RelayHttpLine(r) BY <2>5 DEF RelayHttpLine, request
    <2>6. CASE RelayHttpEnds(r) BY <2>6, MeterMoves DEF RelayHttpEnds, request
    <2>7. CASE RelayHttpFails(r) BY <2>7, MeterMoves DEF RelayHttpFails, request
    <2> QED BY <1>8, <2>1, <2>2, <2>3, <2>4, <2>5, <2>6, <2>7 DEF RelayStep
  <1>9. ASSUME NEW r \in Req, RequesterGone(r) PROVE AnswerInv'
    BY <1>9, MeterMoves DEF RequesterGone, request
  <1>10. CASE UNCHANGED vars BY <1>10 DEF vars, request
  <1> QED BY <1>1, <1>2, <1>3, <1>4, <1>5, <1>6, <1>7, <1>8, <1>9, <1>10 DEF Next

\* A node that answered over the mesh, be it with an error, is never asked the
\* same request again over HTTP (node_dispatch surfaces MeshNodeError and falls
\* back only on MeshUnavailableError).
THEOREM AnswersAreFinal == Spec => []AnswerIsFinal
  <1>1. Init => AnswerInv
    BY DEF Init, AnswerInv, Transport, Active
  <1>2. AnswerInv => AnswerIsFinal
    BY DEF AnswerInv, AnswerIsFinal
  <1> QED BY <1>1, <1>2, AnswerStep, PTL DEF Spec

-----------------------------------------------------------------------------
(***************************************************************************)
(* The books: usage records, balances and the in-memory tail               *)
(***************************************************************************)

Place == Active \cup {"new", "refused", "over", "lost", "unheard", "unparseable"}
Ended == {"over", "lost"}
Usage == [req: Req, ok: BOOLEAN]

BooksType ==
    /\ up \in BOOLEAN
    /\ at \in [Req -> Place]
    /\ target \in [Req -> Node \cup {NoNode}]
    /\ recent \in Seq(Usage) /\ dUsage \in Seq(Usage)
    /\ earned \in [Node -> Nat] /\ dEarned \in [Node -> Nat]
    /\ spent \in [crashes: Nat, failures: Nat, swaps: Nat]
    /\ \A r \in Req : at[r] \in Active \cup Ended => target[r] \in Node
    /\ \A r \in Req : at[r] \in Active => up

\* What a step does to the books: one request is metered, the process dies, it
\* boots, or the books stay as they are and nobody's request ends.
Meters(r, ok) ==
    /\ at[r] \in Active
    /\ Meter(r, ok)
    /\ UNCHANGED target

Leaves ==
    /\ UNCHANGED <<up, recent, dUsage, earned, dEarned>>
    /\ spent' \in [crashes: Nat, failures: Nat, swaps: Nat]
    /\ spent'.failures = spent.failures /\ spent'.crashes = spent.crashes
    /\ at' \in [Req -> Place]
    /\ target' \in [Req -> Node \cup {NoNode}]
    /\ \A q \in Req :
          /\ at[q] \in Ended \/ at'[q] \in Ended => at'[q] = at[q]
          /\ at[q] # "new" => at'[q] # "new" /\ target'[q] = target[q]
          /\ at'[q] \in Active => at[q] \in Active \/ (up /\ target'[q] \in Node)

\* A step that changes the place of one request, from outside the ended ones to
\* outside them, and perhaps its target, leaves the books alone.
LEMMA MoveLeaves ==
    ASSUME BooksType, NEW r \in Req, NEW p \in Place \ (Ended \cup {"new"}),
           at[r] \notin Ended,
           at' = [at EXCEPT ![r] = p],
           \/ UNCHANGED target /\ (p \in Active => at[r] \in Active)
           \/ up /\ at[r] = "new" /\ \E n \in Node : target' = [target EXCEPT ![r] = n],
           UNCHANGED <<up, books, spent>>
    PROVE  Leaves
  BY DEF BooksType, Leaves, books, Place, Ended, Active

\* A step that moves no request leaves the books alone, swapped replies or not.
LEMMA StayLeaves ==
    ASSUME BooksType, UNCHANGED <<up, at, target, books>>,
           spent' = spent \/ Spend("swaps")
    PROVE  Leaves
<1>1. spent' \in [crashes: Nat, failures: Nat, swaps: Nat]
      /\ spent'.failures = spent.failures /\ spent'.crashes = spent.crashes
  BY DEF BooksType, Spend
<1> QED BY <1>1 DEF BooksType, Leaves, books, Place, Ended, Active

\* Each budget counts its own kind of failure.
LEMMA SpendCounts ==
    ASSUME spent \in [crashes: Nat, failures: Nat, swaps: Nat]
    PROVE  /\ Spend("failures") =>
                 /\ spent' \in [crashes: Nat, failures: Nat, swaps: Nat]
                 /\ spent'.failures = spent.failures + 1 /\ spent'.crashes = spent.crashes
           /\ Spend("crashes") =>
                 /\ spent' \in [crashes: Nat, failures: Nat, swaps: Nat]
                 /\ spent'.failures = spent.failures /\ spent'.crashes = spent.crashes + 1
  BY DEF Spend

\* Every step is of one of these kinds.
LEMMA StepKinds ==
    ASSUME BooksType, [Next]_vars
    PROVE  \/ \E r \in Req, ok \in BOOLEAN : Meters(r, ok)
           \/ Crash \/ Boot \/ Leaves
<1> USE DEF request, mesh
<1>1. ASSUME NEW r \in Req, Arrive(r) PROVE Leaves
  <2>1. CASE Refuse(r)
    BY <2>1, MoveLeaves DEF Refuse, Place, Active, Ended
  <2>2. ASSUME NEW n \in Node, NEW s \in BOOLEAN, DispatchHttp(r, n, s) PROVE Leaves
    <3>1. HttpPlace(s) \in Place \ (Ended \cup {"new"})
      BY DEF HttpPlace, Place, Active, Ended
    <3> QED BY <2>2, <3>1, MoveLeaves DEF DispatchHttp, Ended
  <2>3. ASSUME NEW n \in Node, NEW s \in BOOLEAN, DispatchMesh(r, n, s) PROVE Leaves
    BY <2>3, MoveLeaves DEF DispatchMesh, Place, Active, Ended
  <2> QED BY <1>1, <2>1, <2>2, <2>3 DEF Arrive
<1>2. ASSUME NEW r \in Req, NodeStep(r) PROVE Leaves
  BY <1>2, StayLeaves
     DEF NodeStep, NodeAccepts, NodeProduces, NodeFinishes, NodeFails, NodeVanishes
<1>3. ASSUME NEW r \in Req, DrainStep(r) PROVE Leaves
  BY <1>3, StayLeaves DEF DrainStep, QueryEnds, QueryBreaks, RepliesSwap
<1>4. ASSUME NEW r \in Req, FirstReplyStep(r)
      PROVE  Leaves \/ \E ok \in BOOLEAN : Meters(r, ok)
  <2>1. ASSUME at[r] = "mesh", FallBack(r) PROVE Leaves
    <3>1. HttpPlace(stream[r]) \in Place \ (Ended \cup {"new"})
      BY DEF HttpPlace, Place, Active, Ended
    <3> QED BY <2>1, <3>1, MoveLeaves DEF FallBack, Ended, Active
  <2>2. CASE FirstReplyUnavailable(r) \/ FirstReplyTimeout(r)
    BY <2>1, <2>2 DEF FirstReplyUnavailable, FirstReplyTimeout
  <2>3. CASE FirstReplyError(r)
    <3>1. Meters(r, FALSE) BY <2>3 DEF FirstReplyError, Meters, Active
    <3> QED BY <3>1
  <2>5. CASE FirstReplyResult(r)
    <3>1. Meters(r, TRUE) BY <2>5 DEF FirstReplyResult, Meters, Active
    <3> QED BY <3>1
  <2>4. CASE FirstReplyOpens(r)
    BY <2>4, MoveLeaves DEF FirstReplyOpens, Place, Active, Ended
  <2> QED BY <1>4, <2>2, <2>3, <2>4, <2>5 DEF FirstReplyStep
<1>5. ASSUME NEW r \in Req, HttpStep(r)
      PROVE  Leaves \/ \E ok \in BOOLEAN : Meters(r, ok)
  <2>1. CASE HttpAnswers(r) \/ HttpFails(r)
    BY <2>1 DEF HttpAnswers, HttpFails, Meters, Active
  <2>2. CASE HttpUnparseable(r)
    BY <2>2, MoveLeaves DEF HttpUnparseable, Place, Active, Ended
  <2> QED BY <1>5, <2>1, <2>2 DEF HttpStep
<1>6. ASSUME NEW r \in Req, RelayStep(r)
      PROVE  Leaves \/ \E ok \in BOOLEAN : Meters(r, ok)
  <2>1. CASE StreamStarts(r)
    BY <2>1, MoveLeaves DEF StreamStarts, Place, Active, Ended
  <2>2. CASE RequesterGoneEarly(r)
    BY <2>2, MoveLeaves DEF RequesterGoneEarly, Place, Active, Ended
  <2>3. CASE RelayMeshChunk(r) \/ RelayHttpLine(r)
    BY <2>3, StayLeaves DEF RelayMeshChunk, RelayHttpLine
  <2>4. CASE RelayMeshEnds(r)
    <3> DEFINE ok == Head(queue[r]) \in CleanEnd
    <3>1. ok \in BOOLEAN /\ Meters(r, ok) BY <2>4 DEF RelayMeshEnds, Meters, Active
    <3> HIDE DEF ok
    <3> QED BY <3>1
  <2>5. CASE RelayHttpEnds(r) \/ RelayHttpFails(r)
    BY <2>5 DEF RelayHttpEnds, RelayHttpFails, Meters, Active
  <2> QED BY <1>6, <2>1, <2>2, <2>3, <2>4, <2>5 DEF RelayStep
<1>7. ASSUME NEW r \in Req, RequesterGone(r) PROVE \E ok \in BOOLEAN : Meters(r, ok)
  BY <1>7 DEF RequesterGone, Meters, Active
<1>8. CASE UNCHANGED vars
  BY <1>8, StayLeaves DEF vars
<1> QED BY <1>1, <1>2, <1>3, <1>4, <1>5, <1>6, <1>7, <1>8 DEF Next

\* Whatever becomes of its two commits, metering appends at most one record, the
\* metered request's, and ends that request; only a crash takes others with it.
LEMMA MeterBooks ==
    ASSUME BooksType, NEW r \in Req, NEW ok \in BOOLEAN, Meters(r, ok)
    PROVE  /\ BooksType'
           /\ at'[r] \in Ended
           /\ \A q \in Req : at'[q] = at[q] \/ (at[q] \in Active /\ at'[q] \in Ended)
           /\ \A q \in Req : at'[q] = "over" => q = r \/ at[q] = "over"
           /\ \/ dUsage' = Append(dUsage, [req |-> r, ok |-> ok])
              \/ dUsage' = dUsage /\ spent'.failures > 0
           /\ spent'.failures >= spent.failures /\ spent'.crashes >= spent.crashes
<1> DEFINE rec == [req |-> r, ok |-> ok]
<1>1. rec \in Usage /\ target[r] \in Node /\ target' = target
  BY DEF BooksType, Meters, Usage
<1>2. Append(dUsage, rec) \in Seq(Usage) /\ LastRecords(Append(recent, rec)) \in Seq(Usage)
  <2>1. ASSUME NEW s \in Seq(Usage) PROVE LastRecords(s) \in Seq(Usage)
    <3>1. \A i \in Len(s) - TailSize + 1 .. Len(s) : Len(s) > TailSize => s[i] \in Usage
      BY DispatchAssumption, LenProperties
    <3> QED BY <2>1, <3>1, SubSeqProperties, DispatchAssumption, LenProperties DEF LastRecords
  <2> QED BY <1>1, <2>1, AppendProperties DEF BooksType
<1>3. Accrued(r, ok) \in [Node -> Nat]
  BY <1>1 DEF Accrued, BooksType
<1> USE DEF Place, Active, Ended
<1>5. CASE MeterStores(r, ok)
  <2>1. dEarned' \in [Node -> Nat] /\ earned' \in [Node -> Nat]
    BY <1>1, <1>3, <1>5 DEF MeterStores, BooksType
  <2> QED BY <1>1, <1>2, <1>5, <2>1 DEF MeterStores, Recorded, BooksType, Meters
<1>6. CASE MeterLosesUsage(r, ok)
  <2>1. spent' \in [crashes: Nat, failures: Nat, swaps: Nat]
        /\ spent'.failures > 0 /\ spent'.failures >= spent.failures
        /\ spent'.crashes >= spent.crashes
    BY <1>6, SpendCounts DEF MeterLosesUsage, BooksType
  <2> QED BY <1>1, <1>2, <1>6, <2>1 DEF MeterLosesUsage, Recorded, BooksType, Meters
<1>7. CASE MeterLosesCredit(r, ok)
  <2>1. spent' \in [crashes: Nat, failures: Nat, swaps: Nat]
        /\ spent'.failures >= spent.failures /\ spent'.crashes >= spent.crashes
    BY <1>7, SpendCounts DEF MeterLosesCredit, BooksType
  <2>2. earned' \in [Node -> Nat] BY <1>3, <1>7 DEF MeterLosesCredit
  <2> QED BY <1>1, <1>2, <1>7, <2>1, <2>2 DEF MeterLosesCredit, Recorded, BooksType, Meters
<1>8. CASE MeterCrashes(r, ok)
  <2>1. spent' \in [crashes: Nat, failures: Nat, swaps: Nat]
        /\ spent'.failures >= spent.failures /\ spent'.crashes >= spent.crashes
    BY <1>8, SpendCounts DEF MeterCrashes, LoseMemory, BooksType
  <2>2. recent' \in Seq(Usage) BY <1>8, EmptySeq DEF MeterCrashes, LoseMemory
  <2> QED BY <1>1, <1>2, <1>8, <2>1, <2>2 DEF MeterCrashes, LoseMemory, BooksType, Meters
<1> QED BY <1>5, <1>6, <1>7, <1>8 DEF Meters, Meter

\* A crash ends every request in flight without metering it; a boot reads the store.
LEMMA CrashBooks ==
    ASSUME BooksType, Crash \/ Boot
    PROVE  /\ BooksType'
           /\ \A q \in Req : at'[q] = at[q] \/ (at[q] \in Active /\ at'[q] = "lost")
           /\ dUsage' = dUsage /\ dEarned' = dEarned /\ target' = target
           /\ spent'.failures = spent.failures /\ spent'.crashes >= spent.crashes
<1> USE DEF Place, Active, Ended, request
<1>1. CASE Crash
  <2>1. spent' \in [crashes: Nat, failures: Nat, swaps: Nat]
        /\ spent'.failures = spent.failures /\ spent'.crashes >= spent.crashes
    BY <1>1, SpendCounts DEF Crash, LoseMemory, BooksType
  <2>2. recent' \in Seq(Usage) BY <1>1, EmptySeq DEF Crash, LoseMemory
  <2> QED BY <1>1, <2>1, <2>2 DEF Crash, LoseMemory, BooksType
<1>2. CASE Boot
  <2>1. LastRecords(dUsage) \in Seq(Usage)
    <3>1. \A i \in Len(dUsage) - TailSize + 1 .. Len(dUsage) :
              Len(dUsage) > TailSize => dUsage[i] \in Usage
      BY DispatchAssumption, LenProperties DEF BooksType
    <3> QED BY <3>1, SubSeqProperties, DispatchAssumption, LenProperties DEF LastRecords, BooksType
  <2> QED BY <1>2, <2>1 DEF Boot, BooksType
<1> QED BY <1>1, <1>2

\* The type invariant of the books, from the kinds of steps.
LEMMA BooksTypeStep == BooksType /\ [Next]_vars => BooksType'
<1> SUFFICES ASSUME BooksType, [Next]_vars PROVE BooksType' OBVIOUS
<1>1. CASE Leaves
  BY <1>1 DEF Leaves, BooksType, Place, Active, Ended
<1> QED BY <1>1, StepKinds, MeterBooks, CrashBooks

\* The inductive strengthening of MeteredOnce.  Only requests that ended have a
\* record, and since nothing leaves an ended place, no request gets a second.
RecordsInv ==
    /\ BooksType
    /\ \A i \in DOMAIN dUsage : at[dUsage[i].req] \in Ended
    /\ \A i, j \in DOMAIN dUsage : dUsage[i].req = dUsage[j].req => i = j
    /\ spent.failures = 0 =>
          \A r \in Req : at[r] = "over" => \E i \in DOMAIN dUsage : dUsage[i].req = r

LEMMA RecordsStep == RecordsInv /\ [Next]_vars => RecordsInv'
<1> SUFFICES ASSUME RecordsInv, [Next]_vars PROVE RecordsInv' OBVIOUS
<1>1. BooksType /\ BooksType' BY BooksTypeStep DEF RecordsInv
<1>2. \A i \in DOMAIN dUsage : i \in 1..Len(dUsage) /\ dUsage[i] \in Usage /\ dUsage[i].req \in Req
  <2>1. \A i \in DOMAIN dUsage : i \in 1..Len(dUsage) /\ dUsage[i] \in Usage
    BY <1>1, LenProperties DEF BooksType
  <2> QED BY <2>1 DEF Usage
<1>3. CASE Leaves
  BY <1>1, <1>2, <1>3 DEF Leaves, RecordsInv, Ended
<1>4. CASE Crash \/ Boot
  BY <1>1, <1>2, <1>4, CrashBooks DEF RecordsInv, Ended, Active
<1>5. ASSUME NEW r \in Req, NEW ok \in BOOLEAN, Meters(r, ok) PROVE RecordsInv'
  <2> DEFINE rec == [req |-> r, ok |-> ok]
  <2>1. /\ at'[r] \in Ended /\ at[r] \notin Ended
        /\ \A q \in Req : at[q] \in Ended => at'[q] \in Ended
        /\ \A q \in Req : at'[q] = "over" => q = r \/ at[q] = "over"
        /\ spent'.failures >= spent.failures
    BY <1>1, <1>5, MeterBooks DEF Meters, Ended, Active
  <2>2. CASE dUsage' = dUsage /\ spent'.failures > 0
    BY <1>1, <1>2, <2>1, <2>2 DEF RecordsInv
  <2>3. CASE dUsage' = Append(dUsage, rec)
    <3>1. /\ DOMAIN dUsage' = DOMAIN dUsage \cup {Len(dUsage) + 1}
          /\ Len(dUsage) + 1 \notin DOMAIN dUsage
          /\ dUsage'[Len(dUsage) + 1].req = r
          /\ \A i \in DOMAIN dUsage : dUsage'[i] = dUsage[i] /\ dUsage[i].req # r
      <4>1. dUsage \in Seq(Usage) /\ rec \in Usage BY <1>1 DEF BooksType, Usage
      <4>2. \A i \in DOMAIN dUsage : dUsage[i].req # r
        BY <1>2, <2>1 DEF RecordsInv
      <4> QED BY <2>3, <4>1, <4>2, AppendProperties, LenProperties
    <3>2. spent'.failures = 0 => spent.failures = 0
      BY <1>1, <2>1 DEF BooksType
    <3>3. \A i \in DOMAIN dUsage' : at'[dUsage'[i].req] \in Ended
      BY <1>2, <2>1, <3>1 DEF RecordsInv
    <3>4. \A i, j \in DOMAIN dUsage' : dUsage'[i].req = dUsage'[j].req => i = j
      BY <3>1 DEF RecordsInv
    <3>5. spent'.failures = 0 =>
              \A q \in Req : at'[q] = "over" => \E i \in DOMAIN dUsage' : dUsage'[i].req = q
      BY <2>1, <3>1, <3>2 DEF RecordsInv
    <3> QED BY <1>1, <3>3, <3>4, <3>5 DEF RecordsInv
  <2> QED BY <1>1, <1>5, <2>2, <2>3, MeterBooks
<1> QED BY <1>1, <1>3, <1>4, <1>5, StepKinds

LEMMA RecordsReachable == Spec => []RecordsInv
<1>1. Init => RecordsInv
  BY EmptySeq, DispatchAssumption
     DEF Init, RecordsInv, BooksType, Place, Active, Ended
<1> QED BY <1>1, RecordsStep, PTL DEF Spec

\* Every ending of a request meters it exactly once: of the error paths, the
\* fallback, the abandoned stream and a crash inside _meter, none meters twice
\* and, store failures aside, none meters nothing.
THEOREM RequestsMeteredOnce == Spec => []MeteredOnce
<1>1. RecordsInv => MeteredOnce
  <2> SUFFICES ASSUME RecordsInv, NEW r \in Req
               PROVE  /\ Cardinality(RecordsOf(r)) <= 1
                      /\ at[r] = "over" /\ spent.failures = 0 => RecordsOf(r) # {}
                      /\ at[r] \notin {"over", "lost"} => RecordsOf(r) = {}
    BY DEF MeteredOnce
  <2>1. Cardinality(RecordsOf(r)) <= 1
    <3>1. CASE RecordsOf(r) = {} BY <3>1, FS_EmptySet
    <3>2. CASE RecordsOf(r) # {}
      <4>1. PICK i \in RecordsOf(r) : TRUE BY <3>2
      <4>2. RecordsOf(r) = {i} BY <4>1 DEF RecordsOf, RecordsInv
      <4> QED BY <4>2, FS_Singleton
    <3> QED BY <3>1, <3>2
  <2> QED BY <2>1 DEF RecordsInv, RecordsOf, Ended
<1> QED BY <1>1, RecordsReachable, PTL

-----------------------------------------------------------------------------
(***************************************************************************)
(* Balances                                                                *)
(***************************************************************************)

\* CreditBackedByUsage is nearly inductive: it needs the records' requests to
\* have ended, so that their targets are fixed, and a process that never died
\* to be up.
CreditInv ==
    /\ RecordsInv
    /\ CreditBackedByUsage
    /\ spent.crashes = 0 => up

\* One more record is one more success of its target, if it is a success.
LEMMA SuccessesGrow ==
    ASSUME RecordsInv, NEW r \in Req, NEW ok \in BOOLEAN, target' = target,
           dUsage' = Append(dUsage, [req |-> r, ok |-> ok]), NEW n \in Node
    PROVE  /\ Cardinality(Successes(n)) \in Nat
           /\ Cardinality(Successes(n)') = Cardinality(Successes(n))
                                           + (IF ok /\ target[r] = n THEN 1 ELSE 0)
<1> DEFINE rec == [req |-> r, ok |-> ok]
           k == Len(dUsage) + 1
<1>1. dUsage \in Seq(Usage) /\ rec \in Usage BY DEF RecordsInv, BooksType, Usage
<1>2. Len(dUsage) \in Nat /\ DOMAIN dUsage = 1..Len(dUsage) BY <1>1, LenProperties
<1>3. IsFiniteSet(Successes(n)) /\ Cardinality(Successes(n)) \in Nat
  <2>1. IsFiniteSet(1..Len(dUsage)) BY <1>2, FS_Interval
  <2>2. Successes(n) \subseteq 1..Len(dUsage) BY <1>2 DEF Successes
  <2> QED BY <2>1, <2>2, FS_Subset, FS_CardinalityType
<1>4. /\ DOMAIN dUsage' = DOMAIN dUsage \cup {k} /\ k \notin DOMAIN dUsage
      /\ dUsage'[k] = rec /\ \A i \in DOMAIN dUsage : dUsage'[i] = dUsage[i]
  BY <1>1, <1>2, AppendProperties
<1>5. CASE ok /\ target[r] = n
  <2>1. Successes(n)' = Successes(n) \cup {k} /\ k \notin Successes(n)
    BY <1>4, <1>5 DEF Successes
  <2> QED BY <1>3, <1>5, <2>1, FS_AddElement
<1>6. CASE ~(ok /\ target[r] = n)
  <2>1. Successes(n)' = Successes(n) BY <1>4, <1>6 DEF Successes
  <2> QED BY <1>3, <1>6, <2>1
<1> QED BY <1>5, <1>6

\* Steps that leave the records alone, and the targets of ended requests, leave
\* every node its successes.
LEMMA SuccessesStay ==
    ASSUME RecordsInv, dUsage' = dUsage, NEW n \in Node,
           \A q \in Req : at[q] \in Ended => target'[q] = target[q]
    PROVE  Successes(n)' = Successes(n)
<1>1. \A i \in DOMAIN dUsage : dUsage[i].req \in Req
  <2>1. \A i \in DOMAIN dUsage : dUsage[i] \in Usage
    BY LenProperties DEF RecordsInv, BooksType
  <2> QED BY <2>1 DEF Usage
<1> QED BY <1>1 DEF Successes, RecordsInv

LEMMA CreditStep == CreditInv /\ [Next]_vars => CreditInv'
<1> SUFFICES ASSUME CreditInv, [Next]_vars PROVE CreditInv' OBVIOUS
<1>1. RecordsInv /\ RecordsInv' /\ BooksType /\ BooksType'
  BY RecordsStep DEF CreditInv, RecordsInv
<1>2. /\ spent.failures \in Nat /\ spent.crashes \in Nat
      /\ spent'.failures \in Nat /\ spent'.crashes \in Nat
  BY <1>1 DEF BooksType
<1>3. ASSUME NEW n \in Node
      PROVE  /\ dEarned[n] \in Nat /\ earned[n] \in Nat
             /\ Cardinality(Successes(n)) \in Nat
  <2>1. IsFiniteSet(Successes(n))
    <3>1. Len(dUsage) \in Nat /\ DOMAIN dUsage = 1..Len(dUsage)
      BY <1>1, LenProperties DEF BooksType
    <3>2. IsFiniteSet(1..Len(dUsage)) /\ Successes(n) \subseteq 1..Len(dUsage)
      BY <3>1, FS_Interval DEF Successes
    <3> QED BY <3>2, FS_Subset
  <2> QED BY <1>1, <2>1, FS_CardinalityType DEF BooksType
<1>4. CASE Leaves
  <2>1. \A n \in Node : Successes(n)' = Successes(n)
    BY <1>1, <1>4, SuccessesStay DEF Leaves, Ended
  <2> QED BY <1>1, <1>4, <2>1 DEF Leaves, CreditInv, CreditBackedByUsage
<1>5. CASE Crash
  <2>1. \A n \in Node : Successes(n)' = Successes(n)
    BY <1>1, <1>5, SuccessesStay, CrashBooks
  <2>2. dEarned' = dEarned /\ earned' = [n \in Node |-> 0] /\ up' = FALSE
        /\ spent'.crashes = spent.crashes + 1
    BY <1>1, <1>5, SpendCounts DEF Crash, LoseMemory, BooksType
  <2> QED BY <1>1, <1>2, <1>3, <2>1, <2>2 DEF CreditInv, CreditBackedByUsage
<1>6. CASE Boot
  <2>1. \A n \in Node : Successes(n)' = Successes(n)
    BY <1>1, <1>6, SuccessesStay, CrashBooks
  <2>2. dEarned' = dEarned /\ earned' = dEarned /\ up' = TRUE /\ ~up /\ spent' = spent
    BY <1>6 DEF Boot
  <2> QED BY <1>1, <1>2, <1>3, <2>1, <2>2 DEF CreditInv, CreditBackedByUsage
<1>7. ASSUME NEW r \in Req, NEW ok \in BOOLEAN, Meters(r, ok) PROVE CreditInv'
  <2>1. up /\ target' = target /\ target[r] \in Node
    BY <1>1, <1>7 DEF Meters, BooksType
  <2>2. ASSUME dUsage' = Append(dUsage, [req |-> r, ok |-> ok]), NEW n \in Node
        PROVE  Cardinality(Successes(n)') = Cardinality(Successes(n))
                                            + (IF ok /\ target[r] = n THEN 1 ELSE 0)
    BY <1>1, <2>1, <2>2, SuccessesGrow
  <2>3. CASE MeterStores(r, ok)
    <3>1. /\ \A n \in Node : earned'[n] = earned[n] + (IF ok /\ target[r] = n THEN 1 ELSE 0)
          /\ \A n \in Node : dEarned'[n] = IF target[r] = n THEN earned'[n] ELSE dEarned[n]
      BY <1>1, <1>3, <2>1, <2>3 DEF MeterStores, Accrued, BooksType
    <3>2. up' = up /\ spent' = spent /\ dUsage' = Append(dUsage, [req |-> r, ok |-> ok])
      BY <2>3 DEF MeterStores
    <3>3. ASSUME NEW n \in Node
          PROVE  /\ dEarned'[n] <= Cardinality(Successes(n)')
                 /\ earned'[n] <= Cardinality(Successes(n)')
                 /\ dEarned'[n] <= earned'[n]
                 /\ spent'.failures = 0 /\ spent'.crashes = 0 =>
                       earned'[n] = Cardinality(Successes(n)') /\ dEarned'[n] = earned'[n]
      BY <1>3, <2>1, <2>2, <3>1, <3>2 DEF CreditInv, CreditBackedByUsage
    <3> QED BY <1>1, <2>1, <3>2, <3>3 DEF CreditInv, CreditBackedByUsage
  <2>4. CASE MeterLosesUsage(r, ok)
    <3>1. \A n \in Node : Successes(n)' = Successes(n)
      BY <1>1, <2>1, <2>4, SuccessesStay DEF MeterLosesUsage
    <3>2. spent'.failures = spent.failures + 1 /\ UNCHANGED <<up, earned, dEarned>>
      BY <1>1, <2>4, SpendCounts DEF MeterLosesUsage, BooksType
    <3> QED BY <1>1, <1>2, <2>1, <3>1, <3>2 DEF CreditInv, CreditBackedByUsage
  <2>5. CASE MeterLosesCredit(r, ok)
    <3>1. \A n \in Node : earned'[n] = earned[n] + (IF ok /\ target[r] = n THEN 1 ELSE 0)
      BY <1>1, <1>3, <2>1, <2>5 DEF MeterLosesCredit, Accrued, BooksType
    <3>2. /\ spent'.failures = spent.failures + 1 /\ UNCHANGED <<up, dEarned>>
          /\ dUsage' = Append(dUsage, [req |-> r, ok |-> ok])
      BY <1>1, <2>5, SpendCounts DEF MeterLosesCredit, BooksType
    <3>3. ASSUME NEW n \in Node
          PROVE  /\ dEarned'[n] <= Cardinality(Successes(n)')
                 /\ earned'[n] <= Cardinality(Successes(n)')
                 /\ dEarned'[n] <= earned'[n]
      BY <1>3, <2>1, <2>2, <3>1, <3>2 DEF CreditInv, CreditBackedByUsage
    <3> QED BY <1>1, <1>2, <2>1, <3>2, <3>3 DEF CreditInv, CreditBackedByUsage
  <2>6. CASE MeterCrashes(r, ok)
    <3>1. /\ spent'.crashes = spent.crashes + 1 /\ dEarned' = dEarned
          /\ earned' = [n \in Node |-> 0] /\ up' = FALSE
          /\ dUsage' = Append(dUsage, [req |-> r, ok |-> ok])
      BY <1>1, <2>6, SpendCounts DEF MeterCrashes, LoseMemory, BooksType
    <3>2. ASSUME NEW n \in Node
          PROVE  /\ dEarned'[n] <= Cardinality(Successes(n)')
                 /\ earned'[n] <= Cardinality(Successes(n)')
      BY <1>3, <2>1, <2>2, <3>1 DEF CreditInv, CreditBackedByUsage
    <3> QED BY <1>1, <1>2, <3>1, <3>2 DEF CreditInv, CreditBackedByUsage
  <2> QED BY <1>7, <2>3, <2>4, <2>5, <2>6 DEF Meters, Meter
<1> QED BY <1>1, <1>4, <1>5, <1>6, <1>7, StepKinds

\* A node's balance, in memory or stored, is never more than its stored successes
\* justify, however the two commits of _meter fail and wherever the process dies;
\* without failures the three agree.
THEOREM CreditIsBacked == Spec => []CreditBackedByUsage
<1>1. Init => CreditInv
  <2>1. ASSUME Init PROVE RecordsInv
    BY <2>1, EmptySeq, DispatchAssumption
       DEF Init, RecordsInv, BooksType, Place, Active, Ended
  <2>2. ASSUME Init, NEW n \in Node PROVE Cardinality(Successes(n)) = 0
    <3>1. Successes(n) = {} BY <2>2 DEF Init, Successes
    <3> QED BY <3>1, FS_EmptySet
  <2> QED BY <2>1, <2>2 DEF Init, CreditInv, CreditBackedByUsage
<1>2. CreditInv => CreditBackedByUsage BY DEF CreditInv
<1> QED BY <1>1, <1>2, CreditStep, PTL DEF Spec

-----------------------------------------------------------------------------
(***************************************************************************)
(* The in-memory tail                                                      *)
(***************************************************************************)

\* t is what a deque of TailSize elements holds of s
IsTail(t, s) ==
    /\ Len(s) < TailSize => Len(t) = Len(s)
    /\ Len(s) >= TailSize => Len(t) = TailSize
    /\ \A i \in 1..Len(t) : t[i] = s[Len(s) - Len(t) + i]

LEMMA LastRecordsIsTail ==
    ASSUME NEW s \in Seq(Usage)
    PROVE  LastRecords(s) \in Seq(Usage) /\ IsTail(LastRecords(s), s)
<1>1. Len(s) \in Nat /\ TailSize \in Nat \ {0}
  BY LenProperties, DispatchAssumption
<1>2. CASE Len(s) > TailSize
  <2> DEFINE m == Len(s) - TailSize + 1
             t == SubSeq(s, m, Len(s))
  <2>1. m \in 1..Len(s) BY <1>1, <1>2
  <2>2. /\ t \in Seq(Usage) /\ Len(t) = TailSize
        /\ \A i \in 1..TailSize : t[i] = s[m + i - 1]
    BY <1>1, <1>2, <2>1, SubSeqProperties
  <2>4. \A i \in 1..Len(t) : t[i] = s[Len(s) - Len(t) + i]
    BY <1>1, <2>2
  <2>5. LastRecords(s) = t BY <1>2 DEF LastRecords
  <2> HIDE DEF t
  <2>6. IsTail(t, s) BY <1>1, <1>2, <2>2, <2>4 DEF IsTail
  <2> QED BY <2>2, <2>5, <2>6
<1>3. CASE ~(Len(s) > TailSize)
  <2>1. LastRecords(s) = s BY <1>3 DEF LastRecords
  <2>2. IsTail(s, s) BY <1>1, <1>3 DEF IsTail
  <2> QED BY <2>1, <2>2
<1> QED BY <1>2, <1>3

\* Appending to both keeps the tail a tail.
LEMMA TailGrows ==
    ASSUME NEW t \in Seq(Usage), NEW s \in Seq(Usage), NEW x \in Usage, IsTail(t, s)
    PROVE  IsTail(LastRecords(Append(t, x)), Append(s, x))
<1> DEFINE t1 == Append(t, x)
           s1 == Append(s, x)
           u == LastRecords(t1)
<1>1. Len(s) \in Nat /\ Len(t) \in Nat /\ TailSize \in Nat \ {0}
  BY LenProperties, DispatchAssumption
<1>2. /\ t1 \in Seq(Usage) /\ Len(t1) = Len(t) + 1 /\ t1[Len(t) + 1] = x
      /\ \A i \in 1..Len(t) : t1[i] = t[i]
      /\ Len(s1) = Len(s) + 1 /\ s1[Len(s) + 1] = x
      /\ \A i \in 1..Len(s) : s1[i] = s[i]
  BY <1>1, AppendProperties
<1>3. u \in Seq(Usage) /\ IsTail(u, t1)
  BY <1>2, LastRecordsIsTail, LenProperties
<1> HIDE DEF t1, s1, u
<1>4. /\ Len(t) <= Len(s) /\ Len(u) \in Nat /\ Len(u) <= Len(t) + 1
      /\ Len(s1) < TailSize => Len(u) = Len(s1)
      /\ Len(s1) >= TailSize => Len(u) = TailSize
  BY <1>1, <1>2, <1>3, LenProperties DEF IsTail
<1>5. ASSUME NEW i \in 1..Len(u) PROVE u[i] = s1[Len(s1) - Len(u) + i]
  <2> DEFINE k == Len(t) + 1 - Len(u) + i
  <2>1. i \in 1..Len(u) /\ k \in 1..Len(t) + 1 /\ u[i] = t1[k]
    BY <1>1, <1>2, <1>3, <1>4 DEF IsTail
  <2>2. CASE k = Len(t) + 1
    BY <1>1, <1>2, <1>4, <2>1, <2>2
  <2>3. CASE k \in 1..Len(t)
    <3>1. t1[k] = s[Len(s) - Len(t) + k] BY <1>1, <1>2, <2>3 DEF IsTail
    <3>2. Len(s1) - Len(u) + i = Len(s) - Len(t) + k
      BY <1>1, <1>2, <1>4, <2>1
    <3> HIDE DEF k
    <3>3. Len(s) - Len(t) + k \in 1..Len(s)
      BY <1>1, <1>4, <2>3
    <3> QED BY <1>2, <2>1, <3>1, <3>2, <3>3
  <2> HIDE DEF k
  <2> QED BY <1>1, <2>1, <2>2, <2>3
<1> QED BY <1>3, <1>4, <1>5 DEF IsTail, t1, s1, u

\* TailIsEndOfHistory in these terms.
LEMMA TailForm ==
    ASSUME recent \in Seq(Usage), dUsage \in Seq(Usage)
    PROVE  TailIsEndOfHistory <=> (up /\ spent.failures = 0 => IsTail(recent, dUsage))
<1> DEFINE P(i) == recent[i] = dUsage[Len(dUsage) - Len(recent) + i]
           Q == Len(recent) = IF Len(dUsage) < TailSize THEN Len(dUsage) ELSE TailSize
<1>1. DOMAIN recent = 1..Len(recent) BY LenProperties
<1>2. Q <=> /\ Len(dUsage) < TailSize => Len(recent) = Len(dUsage)
            /\ Len(dUsage) >= TailSize => Len(recent) = TailSize
  BY DispatchAssumption, LenProperties
<1>3. IsTail(recent, dUsage) <=> Q /\ \A i \in 1..Len(recent) : P(i) BY <1>2 DEF IsTail
<1>4. TailIsEndOfHistory <=> (up /\ spent.failures = 0 => Q /\ \A i \in DOMAIN recent : P(i))
  BY DEF TailIsEndOfHistory
<1> HIDE DEF P, Q
<1> QED BY <1>1, <1>3, <1>4

\* The tail the dashboard reads equals the end of the stored history after any
\* number of requests and restarts, as long as the store refused no record.
THEOREM TailFollowsHistory == Spec => []TailIsEndOfHistory
<1> DEFINE Inv == BooksType /\ TailIsEndOfHistory
<1>1. Init => Inv
  BY EmptySeq, DispatchAssumption
     DEF Init, TailIsEndOfHistory, BooksType, Place, Active, Ended
<1>2. Inv /\ [Next]_vars => Inv'
  <2> SUFFICES ASSUME Inv, [Next]_vars PROVE TailIsEndOfHistory' BY BooksTypeStep
  <2>1. spent.failures \in Nat BY DEF BooksType
  <2>6. /\ (up /\ spent.failures = 0 => IsTail(recent, dUsage))
        /\ IsTail(recent, dUsage)' => TailIsEndOfHistory'
    <3>1. /\ recent \in Seq(Usage) /\ dUsage \in Seq(Usage)
          /\ recent' \in Seq(Usage) /\ dUsage' \in Seq(Usage)
      BY BooksTypeStep DEF BooksType
    <3>2. (recent \in Seq(Usage) /\ dUsage \in Seq(Usage) => 
            (TailIsEndOfHistory <=> (up /\ spent.failures = 0 => IsTail(recent, dUsage))))'
      BY TailForm, PTL
    <3> QED BY <3>1, <3>2, TailForm
  <2>2. CASE Leaves BY <2>2 DEF Leaves, TailIsEndOfHistory
  <2>3. CASE Crash BY <2>3 DEF Crash, LoseMemory, TailIsEndOfHistory
  <2>4. CASE Boot
    <3>1. IsTail(LastRecords(dUsage), dUsage) BY LastRecordsIsTail DEF BooksType
    <3>2. IsTail(recent, dUsage)' BY <2>4, <3>1 DEF Boot
    <3> QED BY <2>6, <3>2
  <2>5. ASSUME NEW r \in Req, NEW ok \in BOOLEAN, Meters(r, ok)
        PROVE  TailIsEndOfHistory'
    <3> DEFINE rec == [req |-> r, ok |-> ok]
    <3>1. up /\ rec \in Usage BY <2>5 DEF Meters, BooksType, Usage
    <3>2. CASE MeterStores(r, ok)
      <4>1. CASE spent.failures = 0
        <5>1. IsTail(recent, dUsage) BY <2>6, <3>1, <4>1
        <5>2. IsTail(recent', dUsage')
          <6>1. recent' = LastRecords(Append(recent, rec)) /\ dUsage' = Append(dUsage, rec)
            BY <3>2 DEF MeterStores, Recorded
          <6> QED BY <3>1, <5>1, <6>1, TailGrows DEF BooksType
        <5> QED BY <2>6, <5>2
      <4>2. CASE spent.failures # 0 BY <3>2, <4>2 DEF MeterStores, TailIsEndOfHistory
      <4> QED BY <4>1, <4>2
    <3>3. CASE MeterLosesUsage(r, ok) \/ MeterLosesCredit(r, ok)
      <4>1. spent'.failures = spent.failures + 1
        BY <3>3, SpendCounts DEF MeterLosesUsage, MeterLosesCredit, BooksType
      <4> QED BY <2>1, <4>1 DEF TailIsEndOfHistory
    <3>4. CASE MeterCrashes(r, ok)
      BY <3>4 DEF MeterCrashes, LoseMemory, TailIsEndOfHistory
    <3> QED BY <2>5, <3>2, <3>3, <3>4 DEF Meters, Meter
  <2> QED BY <2>2, <2>3, <2>4, <2>5, StepKinds
<1>3. Inv => TailIsEndOfHistory OBVIOUS
<1> QED BY <1>1, <1>2, <1>3, PTL DEF Spec

-----------------------------------------------------------------------------
(***************************************************************************)
(* A success is complete                                                   *)
(***************************************************************************)

Item == {"chunk", "done", "result", "error", "broken", "end"}

FlowType ==
    /\ stream \in [Req -> BOOLEAN]
    /\ produced \in [Req -> [Transport -> Nat]]
    /\ relayed \in [Req -> Nat]
    /\ queue \in [Req -> Seq(Item)]

\* Swaps are counted by their own budget.
LEMMA SwapsCounted ==
    ASSUME BooksType
    PROVE  /\ spent.swaps \in Nat
           /\ Spend("failures") \/ Spend("crashes") => spent'.swaps = spent.swaps
           /\ Spend("swaps") => spent'.swaps = spent.swaps + 1
<1>1. spent \in [crashes: Nat, failures: Nat, swaps: Nat] BY DEF BooksType
<1>2. Spend("failures") => spent'.swaps = spent.swaps BY <1>1 DEF Spend
<1>3. Spend("crashes") => spent'.swaps = spent.swaps BY <1>1 DEF Spend
<1>4. Spend("swaps") => spent'.swaps = spent.swaps + 1 BY <1>1 DEF Spend
<1> QED BY <1>1, <1>2, <1>3, <1>4

LEMMA MeterSwaps ==
    ASSUME BooksType, NEW r \in Req, NEW ok \in BOOLEAN, Meter(r, ok)
    PROVE  spent'.swaps = spent.swaps
  BY SwapsCounted DEF Meter, MeterStores, MeterLosesUsage, MeterLosesCredit, MeterCrashes, LoseMemory

\* The queue q of a mesh query whose generation is at g accounts for what the
\* node has produced: while it generates, nothing but chunks is queued and none
\* is missing; its terminator follows the last chunk.
Faithful(q, g, streaming, seen, made, r, closed) ==
    /\ r \notin closed /\ g \in {"asked", "working"} =>
          (\A j \in 1..Len(q) : q[j] = "chunk") /\ seen + Len(q) = made
    /\ \A j \in 1..Len(q) : q[j] = "done" => g = "done" /\ seen + j = made + 1
    /\ \A j \in 1..Len(q) : q[j] = "result" => g = "done" /\ ~streaming

\* The node's failure, whether or not it is queued: nothing more is produced.
LEMMA FaithfulFailed ==
    ASSUME NEW q \in Seq(Item), NEW g, g # "done", NEW b, NEW m \in Nat, NEW n \in Nat,
           NEW r, NEW c, Faithful(q, g, b, m, n, r, c)
    PROVE  /\ Faithful(q, "failed", b, m, n, r, c)
           /\ Faithful(Append(q, "error"), "failed", b, m, n, r, c)
<1>1. /\ Len(q) \in Nat /\ Len(Append(q, "error")) = Len(q) + 1
      /\ Append(q, "error")[Len(q) + 1] = "error"
      /\ \A j \in 1..Len(q) : Append(q, "error")[j] = q[j]
  BY AppendProperties, LenProperties DEF Item
<1>2. \A j \in 1..Len(q) + 1 : j = Len(q) + 1 \/ j \in 1..Len(q) BY <1>1
<1> QED BY <1>1, <1>2 DEF Faithful

\* An exhausted iterator, whose last item is no answer of the node.
LEMMA FaithfulClosed ==
    ASSUME NEW q \in Seq(Item), NEW g, NEW b, NEW m \in Nat, NEW n \in Nat,
           NEW r, NEW c, NEW x \in {"broken", "end"}, Faithful(q, g, b, m, n, r, c)
    PROVE  Faithful(Append(q, x), g, b, m, n, r, c \cup {r})
<1>1. /\ Len(q) \in Nat /\ Len(Append(q, x)) = Len(q) + 1
      /\ Append(q, x)[Len(q) + 1] = x /\ \A j \in 1..Len(q) : Append(q, x)[j] = q[j]
  BY AppendProperties, LenProperties DEF Item
<1>2. \A j \in 1..Len(q) + 1 : j = Len(q) + 1 \/ j \in 1..Len(q) BY <1>1
<1>3. x # "done" /\ x # "result" OBVIOUS
<1> QED BY <1>1, <1>2, <1>3 DEF Faithful

\* A chunk queued as it is produced.
LEMMA FaithfulChunk ==
    ASSUME NEW q \in Seq(Item), NEW g, g # "done", NEW b, NEW m \in Nat, NEW n \in Nat, NEW r, NEW c,
           Faithful(q, g, b, m, n, r, c)
    PROVE  /\ r \notin c => Faithful(Append(q, "chunk"), g, b, m, n + 1, r, c)
           /\ r \in c => Faithful(q, g, b, m, n + 1, r, c)
<1>1. /\ Len(q) \in Nat /\ Len(Append(q, "chunk")) = Len(q) + 1
      /\ Append(q, "chunk")[Len(q) + 1] = "chunk"
      /\ \A j \in 1..Len(q) : Append(q, "chunk")[j] = q[j]
  BY AppendProperties, LenProperties DEF Item
<1>2. \A j \in 1..Len(q) + 1 : j = Len(q) + 1 \/ j \in 1..Len(q) BY <1>1
<1> QED BY <1>1, <1>2 DEF Faithful

\* The node's own end, behind all it produced.
LEMMA FaithfulEnd ==
    ASSUME NEW q \in Seq(Item), NEW b \in BOOLEAN, NEW m \in Nat, NEW n \in Nat, NEW r, NEW c,
           Faithful(q, "working", b, m, n, r, c)
    PROVE  /\ r \notin c => Faithful(Append(q, IF b THEN "done" ELSE "result"), "done", b, m, n, r, c)
           /\ r \in c => Faithful(q, "done", b, m, n, r, c)
<1> DEFINE x == IF b THEN "done" ELSE "result"
<1>1. x \in Item BY DEF Item
<1>2. (b => x = "done") /\ (~b => x = "result") OBVIOUS
<1> HIDE DEF x
<1>3. /\ Len(q) \in Nat /\ Len(Append(q, x)) = Len(q) + 1
      /\ Append(q, x)[Len(q) + 1] = x
      /\ \A j \in 1..Len(q) : Append(q, x)[j] = q[j]
  BY <1>1, AppendProperties, LenProperties
<1>4. \A j \in 1..Len(q) + 1 : j = Len(q) + 1 \/ j \in 1..Len(q) BY <1>3
<1>5. r \notin c => Faithful(Append(q, x), "done", b, m, n, r, c)
  BY <1>2, <1>3, <1>4 DEF Faithful
<1> QED BY <1>5 DEF Faithful, x

\* A chunk consumed as it is relayed.
LEMMA FaithfulRelay ==
    ASSUME NEW q \in Seq(Item), q # <<>>, Head(q) = "chunk", NEW g, NEW b,
           NEW m \in Nat, NEW n \in Nat, NEW r, NEW c, Faithful(q, g, b, m, n, r, c)
    PROVE  Faithful(Tail(q), g, b, m + 1, n, r, c)
<1>1. /\ Len(q) \in Nat /\ Len(q) > 0 /\ Len(Tail(q)) = Len(q) - 1
      /\ \A j \in 1..Len(q) - 1 : Tail(q)[j] = q[j + 1] /\ j + 1 \in 1..Len(q)
  <2>1. Len(q) \in Nat /\ Len(q) > 0 BY EmptySeq, LenProperties
  <2> QED BY <2>1, HeadTailProperties
<1>2. \A j \in 1..Len(q) - 1 : j \in Nat BY <1>1
<1> QED BY <1>1, <1>2 DEF Faithful

\* A request whose queue is still to be read
Reading(r) == via[r] = "mesh" /\ at[r] \in {"mesh", "opened", "relay"}

RequestInv(r) ==
    /\ at[r] = "new" => /\ gen[r]["mesh"] = "none" /\ produced[r]["mesh"] = 0
                        /\ queue[r] = <<>> /\ relayed[r] = 0 /\ r \notin drained
    /\ at[r] = "http" => via[r] = "http" /\ ~stream[r]
    /\ spent.swaps = 0 /\ Reading(r) =>
          Faithful(queue[r], gen[r]["mesh"], stream[r], relayed[r], produced[r]["mesh"],
                   r, drained)

Complete(r) ==
    /\ gen[r][via[r]] = "done"
    /\ stream[r] => relayed[r] = produced[r][via[r]]

\* Complete after the step, of a request named before it
CompleteNext(r) ==
    /\ gen'[r][via'[r]] = "done"
    /\ stream'[r] => relayed'[r] = produced'[r][via'[r]]

\* The inductive strengthening of SuccessIsComplete
CompleteInv ==
    /\ AnswerInv /\ RecordsInv /\ FlowType
    /\ \A r \in Req : RequestInv(r)
    /\ SuccessIsComplete

\* What a step leaves alone of a request that is not its own
Keeps(q) ==
    /\ at'[q] = at[q] \/ at'[q] \in Ended
    /\ stream'[q] = stream[q] /\ via'[q] = via[q] /\ gen'[q] = gen[q]
    /\ produced'[q] = produced[q] /\ relayed'[q] = relayed[q] /\ queue'[q] = queue[q]
    /\ (q \in drained') <=> (q \in drained)

\* A step of request r, which keeps the others and records only what is complete
StepOf(r) ==
    /\ at[r] \notin Ended
    /\ \A q \in Req \ {r} : Keeps(q)
    /\ FlowType' /\ RequestInv(r)'
    /\ spent'.swaps = 0 => spent.swaps = 0
    /\ \/ dUsage' = dUsage
       \/ dUsage' = Append(dUsage, [req |-> r, ok |-> FALSE])
       \/ dUsage' = Append(dUsage, [req |-> r, ok |-> TRUE]) /\ (spent'.swaps = 0 => CompleteNext(r))

LEMMA KeptRequest ==
    ASSUME NEW q \in Req, RequestInv(q), Keeps(q), spent'.swaps = 0 => spent.swaps = 0
    PROVE  RequestInv(q)' /\ (Complete(q) => CompleteNext(q))
  BY DEF RequestInv, Complete, CompleteNext, Keeps, Reading, Ended, Faithful

\* The records stay true of what was done when all but one request are kept, and
\* that one is not recorded before the step.
LEMMA StepKeepsComplete ==
    ASSUME CompleteInv, [Next]_vars, NEW r \in Req, StepOf(r)
    PROVE  CompleteInv'
<1>1. AnswerInv' /\ RecordsInv' BY AnswerStep, RecordsStep DEF CompleteInv
<1>2. \A q \in Req : RequestInv(q)'
  BY KeptRequest DEF CompleteInv, StepOf
<1>3. dUsage \in Seq(Usage) BY DEF CompleteInv, RecordsInv, BooksType
<1>4. \A i \in DOMAIN dUsage : dUsage[i].req \in Req \ {r}
  <2>1. \A i \in DOMAIN dUsage : dUsage[i] \in Usage BY <1>3, LenProperties
  <2>2. \A i \in DOMAIN dUsage : dUsage[i].req \in Req BY <2>1 DEF Usage
  <2> QED BY <2>2 DEF CompleteInv, RecordsInv, StepOf
<1>5. ASSUME spent'.swaps = 0
      PROVE  \A i \in DOMAIN dUsage : dUsage[i].ok => CompleteNext(dUsage[i].req)
  <2>1. \A i \in DOMAIN dUsage : dUsage[i].ok => Complete(dUsage[i].req)
    BY <1>5 DEF CompleteInv, StepOf, SuccessIsComplete, Complete
  <2>2. \A q \in Req \ {r} : Complete(q) => CompleteNext(q)
    BY KeptRequest DEF CompleteInv, StepOf
  <2>3. ASSUME NEW i \in DOMAIN dUsage, dUsage[i].ok PROVE CompleteNext(dUsage[i].req)
    BY <1>4, <2>1, <2>2, <2>3
  <2> QED BY <2>3
<1>6. SuccessIsComplete'
  <2> SUFFICES ASSUME spent'.swaps = 0
               PROVE  \A i \in DOMAIN dUsage' : dUsage'[i].ok => CompleteNext(dUsage'[i].req)
    BY DEF SuccessIsComplete, CompleteNext
  <2>1. CASE dUsage' = dUsage BY <1>5, <2>1
  <2>2. ASSUME NEW ok \in BOOLEAN, dUsage' = Append(dUsage, [req |-> r, ok |-> ok]),
               ok => CompleteNext(r)
        PROVE  \A i \in DOMAIN dUsage' : dUsage'[i].ok => CompleteNext(dUsage'[i].req)
    <3> DEFINE rec == [req |-> r, ok |-> ok]
    <3>1. /\ DOMAIN dUsage' = DOMAIN dUsage \cup {Len(dUsage) + 1}
          /\ dUsage'[Len(dUsage) + 1] = rec
          /\ \A i \in DOMAIN dUsage : dUsage'[i] = dUsage[i]
      <4>1. rec \in Usage BY DEF Usage
      <4> QED BY <1>3, <2>2, <4>1, AppendProperties, LenProperties
    <3>2. ASSUME NEW i \in DOMAIN dUsage', dUsage'[i].ok PROVE CompleteNext(dUsage'[i].req)
      <4>1. CASE i \in DOMAIN dUsage
        <5>1. dUsage'[i] = dUsage[i] BY <3>1, <4>1
        <5> QED BY <1>5, <3>2, <4>1, <5>1
      <4>2. CASE i = Len(dUsage) + 1
        <5>1. dUsage'[i].req = r /\ (dUsage'[i].ok <=> ok) BY <3>1, <4>2
        <5> QED BY <2>2, <3>2, <5>1
      <4> QED BY <3>1, <4>1, <4>2
    <3> QED BY <3>2
  <2> QED BY <2>1, <2>2 DEF StepOf
<1> QED BY <1>1, <1>2, <1>6 DEF CompleteInv, StepOf

\* A step that keeps every request and the records: a crash, a boot.
LEMMA AllKept ==
    ASSUME CompleteInv, [Next]_vars, \A q \in Req : Keeps(q), FlowType', dUsage' = dUsage,
           spent'.swaps = spent.swaps
    PROVE  CompleteInv'
<1>1. AnswerInv' /\ RecordsInv' BY AnswerStep, RecordsStep DEF CompleteInv
<1>2. \A q \in Req : RequestInv(q)' /\ (Complete(q) => CompleteNext(q))
  BY KeptRequest DEF CompleteInv
<1>3. \A i \in DOMAIN dUsage : dUsage[i].req \in Req
  <2>1. \A i \in DOMAIN dUsage : dUsage[i] \in Usage
    BY LenProperties DEF CompleteInv, RecordsInv, BooksType
  <2> QED BY <2>1 DEF Usage
<1>4. SuccessIsComplete'
  <2> SUFFICES ASSUME spent'.swaps = 0
               PROVE  \A i \in DOMAIN dUsage : dUsage[i].ok => CompleteNext(dUsage[i].req)
    BY DEF SuccessIsComplete, CompleteNext
  <2>1. \A i \in DOMAIN dUsage : dUsage[i].ok => Complete(dUsage[i].req)
    BY DEF CompleteInv, SuccessIsComplete, Complete
  <2> QED BY <1>2, <1>3, <2>1
<1> QED BY <1>1, <1>2, <1>4 DEF CompleteInv

\* Metering is a step of its request, if a success it records is complete.
LEMMA MeteredStep ==
    ASSUME CompleteInv, NEW r \in Req, NEW ok \in BOOLEAN, Meters(r, ok),
           UNCHANGED <<stream, via, gen, produced, drained, relayed>>,
           FlowType', \A q \in Req \ {r} : queue'[q] = queue[q],
           ok /\ spent.swaps = 0 => Complete(r)
    PROVE  StepOf(r)
<1>1. /\ at'[r] \in Ended /\ at[r] \notin Ended
      /\ \A q \in Req : at'[q] = at[q] \/ at'[q] \in Ended
      /\ dUsage' = dUsage \/ dUsage' = Append(dUsage, [req |-> r, ok |-> ok])
  BY MeterBooks DEF CompleteInv, RecordsInv, Meters, Ended, Active
<1>2. spent'.swaps = spent.swaps
  BY MeterSwaps DEF CompleteInv, RecordsInv, Meters
<1>3. RequestInv(r)' BY <1>1 DEF RequestInv, Reading, Ended
<1>4. \A q \in Req \ {r} : Keeps(q) BY <1>1 DEF Keeps
<1>5. \/ dUsage' = dUsage
      \/ dUsage' = Append(dUsage, [req |-> r, ok |-> FALSE])
      \/ dUsage' = Append(dUsage, [req |-> r, ok |-> TRUE]) /\ (spent'.swaps = 0 => CompleteNext(r))
  <2>1. CASE ok = TRUE BY <1>1, <1>2, <2>1 DEF Complete, CompleteNext
  <2>2. CASE ok = FALSE BY <1>1, <2>2
  <2> QED BY <2>1, <2>2
<1> QED BY <1>1, <1>2, <1>3, <1>4, <1>5 DEF StepOf

\* Arrival: an untouched request starts with an empty queue and nothing produced.
LEMMA ArriveComplete ==
    ASSUME CompleteInv, NEW r \in Req, Arrive(r)
    PROVE  StepOf(r)
<1> USE DEF request, mesh, books
<1>1. at \in [Req -> Place] /\ FlowType /\ RequestInv(r)
      /\ gen \in [Req -> [Transport -> {"none", "asked", "working", "done", "failed"}]]
      /\ via \in [Req -> Transport]
  BY DEF CompleteInv, AnswerInv, RecordsInv, BooksType
<1>2. CASE Refuse(r)
  <2>1. \A q \in Req \ {r} : Keeps(q) BY <1>1, <1>2 DEF Refuse, Keeps
  <2>2. RequestInv(r)' BY <1>1, <1>2 DEF Refuse, RequestInv, Reading
  <2> QED BY <1>1, <1>2, <2>1, <2>2 DEF Refuse, StepOf, FlowType, Ended
<1>3. ASSUME NEW n \in Node, NEW b \in BOOLEAN, DispatchHttp(r, n, b) PROVE StepOf(r)
  <2>1. HttpPlace(b) \in {"opened", "http"} /\ (HttpPlace(b) = "http" => ~b) BY DEF HttpPlace
  <2>2. \A q \in Req \ {r} : gen'[q] = gen[q] BY <1>1, <1>3 DEF DispatchHttp, HttpGen
  <2>3. \A q \in Req \ {r} : Keeps(q) BY <1>1, <1>3, <2>2 DEF DispatchHttp, Keeps, FlowType
  <2>4. FlowType' BY <1>1, <1>3 DEF DispatchHttp, FlowType
  <2>5. at'[r] = HttpPlace(b) /\ via'[r] = "http" /\ stream'[r] = b
    BY <1>1, <1>3 DEF DispatchHttp, FlowType
  <2>6. RequestInv(r)' BY <2>1, <2>5 DEF RequestInv, Reading
  <2> QED BY <1>3, <2>3, <2>4, <2>6 DEF DispatchHttp, StepOf, Ended
<1>4. ASSUME NEW n \in Node, NEW b \in BOOLEAN, DispatchMesh(r, n, b) PROVE StepOf(r)
  <2>1. \A q \in Req \ {r} : Keeps(q) BY <1>1, <1>4 DEF DispatchMesh, Keeps, FlowType
  <2>2. FlowType' BY <1>1, <1>4 DEF DispatchMesh, FlowType
  <2>3. /\ at'[r] = "mesh" /\ gen'[r]["mesh"] = "asked" /\ queue'[r] = <<>>
        /\ relayed'[r] = 0 /\ produced'[r]["mesh"] = 0
    BY <1>1, <1>4 DEF DispatchMesh, RequestInv, Transport
  <2>4. Faithful(<<>>, "asked", stream'[r], 0, 0, r, drained') BY DEF Faithful
  <2>5. RequestInv(r)' BY <2>3, <2>4 DEF RequestInv
  <2> QED BY <1>4, <2>1, <2>2, <2>5 DEF DispatchMesh, StepOf, Ended
<1> QED BY <1>2, <1>3, <1>4 DEF Arrive

\* A step of request r that changes what its queue holds, its generation or its
\* production, and neither its place nor its transport.
LEMMA FlowStep ==
    ASSUME CompleteInv, NEW r \in Req, at[r] \in Active, FlowType',
           UNCHANGED <<at, stream, via, dUsage>>, spent'.swaps = 0 => spent.swaps = 0,
           \A q \in Req \ {r} :
              /\ gen'[q] = gen[q] /\ produced'[q] = produced[q] /\ queue'[q] = queue[q]
              /\ relayed'[q] = relayed[q] /\ ((q \in drained') <=> (q \in drained)),
           spent'.swaps = 0 /\ Reading(r) =>
              Faithful(queue'[r], gen'[r]["mesh"], stream[r], relayed'[r], produced'[r]["mesh"],
                       r, drained')
    PROVE  StepOf(r)
<1>1. \A q \in Req \ {r} : Keeps(q) BY DEF Keeps
<1>2. RequestInv(r)' BY DEF CompleteInv, RequestInv, Reading, Active
<1> QED BY <1>1, <1>2 DEF StepOf, Active, Ended

\* The node's side: each reply is queued behind what was produced before it.
LEMMA NodeComplete ==
    ASSUME CompleteInv, NEW r \in Req, NodeStep(r)
    PROVE  StepOf(r)
<1> USE DEF request, mesh, books
<1>1. /\ FlowType /\ at[r] \in Active /\ queue[r] \in Seq(Item) /\ stream[r] \in BOOLEAN
      /\ relayed[r] \in Nat /\ produced[r]["mesh"] \in Nat
      /\ gen \in [Req -> [Transport -> {"none", "asked", "working", "done", "failed"}]]
  BY DEF CompleteInv, AnswerInv, FlowType, NodeStep, Transport
<1>2. spent.swaps = 0 /\ Reading(r) =>
         Faithful(queue[r], gen[r]["mesh"], stream[r], relayed[r], produced[r]["mesh"], r, drained)
  BY DEF CompleteInv, RequestInv
<1>3. PICK t \in Transport : \/ NodeAccepts(r, t) \/ NodeProduces(r, t)
                            \/ NodeFinishes(r, t) \/ NodeFails(r, t) \/ NodeVanishes(r, t)
  BY DEF NodeStep
<1>4. CASE NodeAccepts(r, t)
  <2>1. /\ \A q \in Req \ {r} : gen'[q] = gen[q]
        /\ gen'[r]["mesh"] = IF t = "mesh" THEN "working" ELSE gen[r]["mesh"]
        /\ gen[r][t] = "asked"
    BY <1>1, <1>4 DEF NodeAccepts, Transport
  <2>2. spent.swaps = 0 /\ Reading(r) =>
          Faithful(queue[r], gen'[r]["mesh"], stream[r], relayed[r], produced[r]["mesh"], r, drained)
    <3>1. CASE t # "mesh" BY <1>2, <2>1, <3>1
    <3>2. CASE t = "mesh" BY <1>2, <2>1, <3>2 DEF Faithful
    <3> QED BY <3>1, <3>2
  <2>3. FlowType' BY <1>1, <1>4 DEF NodeAccepts, FlowType
  <2> QED BY <1>1, <1>4, <2>1, <2>2, <2>3, FlowStep DEF NodeAccepts
<1>5. CASE NodeProduces(r, t)
  <2>1. /\ \A q \in Req \ {r} : produced'[q] = produced[q]
        /\ produced' \in [Req -> [Transport -> Nat]]
        /\ produced'[r]["mesh"] = IF t = "mesh" THEN produced[r]["mesh"] + 1 ELSE produced[r]["mesh"]
    BY <1>1, <1>5 DEF NodeProduces, FlowType, Transport
  <2>2. Append(queue[r], "chunk") \in Seq(Item) BY <1>1, AppendProperties DEF Item
  <2>3. /\ queue' \in [Req -> Seq(Item)]
        /\ \A q \in Req \ {r} : queue'[q] = queue[q]
        /\ queue'[r] = IF t = "mesh" /\ r \notin drained THEN Append(queue[r], "chunk") ELSE queue[r]
    BY <1>1, <1>5, <2>2 DEF NodeProduces, Replied, FlowType
  <2>4. FlowType' BY <1>1, <1>5, <2>1, <2>3 DEF NodeProduces, FlowType
  <2>5. spent.swaps = 0 /\ Reading(r) =>
          Faithful(queue'[r], gen[r]["mesh"], stream[r], relayed[r], produced'[r]["mesh"], r, drained)
    <3>1. CASE t = "mesh"
      <4>1. gen[r]["mesh"] # "done" BY <1>5, <3>1 DEF NodeProduces
      <4> QED BY <1>1, <1>2, <2>1, <2>3, <3>1, <4>1, FaithfulChunk
    <3>2. CASE t # "mesh" BY <1>2, <2>1, <2>3, <3>2
    <3> QED BY <3>1, <3>2
  <2> QED BY <1>1, <1>5, <2>1, <2>3, <2>4, <2>5, FlowStep DEF NodeProduces
<1>6. CASE NodeFinishes(r, t)
  <2> DEFINE x == IF stream[r] THEN "done" ELSE "result"
  <2>1. /\ \A q \in Req \ {r} : gen'[q] = gen[q]
        /\ gen'[r]["mesh"] = IF t = "mesh" THEN "done" ELSE gen[r]["mesh"]
    BY <1>1, <1>6 DEF NodeFinishes, Transport
  <2>2. Append(queue[r], x) \in Seq(Item)
    <3>1. x \in Item BY DEF Item
    <3> QED BY <1>1, <3>1, AppendProperties
  <2>3. /\ queue' \in [Req -> Seq(Item)]
        /\ \A q \in Req \ {r} : queue'[q] = queue[q]
        /\ queue'[r] = IF t = "mesh" /\ r \notin drained THEN Append(queue[r], x) ELSE queue[r]
    BY <1>1, <1>6, <2>2 DEF NodeFinishes, Replied, FlowType
  <2>4. FlowType' BY <1>1, <1>6, <2>3 DEF NodeFinishes, FlowType
  <2>5. spent.swaps = 0 /\ Reading(r) =>
          Faithful(queue'[r], gen'[r]["mesh"], stream[r], relayed[r], produced[r]["mesh"], r, drained)
    <3>1. CASE t = "mesh"
      <4>1. gen[r]["mesh"] = "working" BY <1>6, <3>1 DEF NodeFinishes
      <4> QED BY <1>1, <1>2, <2>1, <2>3, <3>1, <4>1, FaithfulEnd
    <3>2. CASE t # "mesh" BY <1>2, <2>1, <2>3, <3>2
    <3> QED BY <3>1, <3>2
  <2> QED BY <1>1, <1>6, <2>1, <2>3, <2>4, <2>5, FlowStep DEF NodeFinishes
<1>7. CASE NodeFails(r, t) \/ NodeVanishes(r, t)
  <2>1. /\ \A q \in Req \ {r} : gen'[q] = gen[q]
        /\ gen'[r]["mesh"] = IF t = "mesh" THEN "failed" ELSE gen[r]["mesh"]
        /\ t = "mesh" => gen[r]["mesh"] # "done"
    BY <1>1, <1>7 DEF NodeFails, NodeVanishes, Transport
  <2>2. Append(queue[r], "error") \in Seq(Item) BY <1>1, AppendProperties DEF Item
  <2>3. /\ queue' \in [Req -> Seq(Item)]
        /\ \A q \in Req \ {r} : queue'[q] = queue[q]
        /\ queue'[r] \in {queue[r], Append(queue[r], "error")}
        /\ t # "mesh" => queue'[r] = queue[r]
    BY <1>1, <1>7, <2>2 DEF NodeFails, NodeVanishes, Replied, FlowType
  <2>4. FlowType' BY <1>1, <1>7, <2>3 DEF NodeFails, NodeVanishes, FlowType
  <2>5. spent.swaps = 0 /\ Reading(r) =>
          Faithful(queue'[r], gen'[r]["mesh"], stream[r], relayed[r], produced[r]["mesh"], r, drained)
    <3>1. CASE t = "mesh"
      <4>2. ASSUME spent.swaps = 0, Reading(r)
            PROVE  \A q \in {queue[r], Append(queue[r], "error")} :
                      Faithful(q, "failed", stream[r], relayed[r], produced[r]["mesh"], r, drained)
        <5>1. gen[r]["mesh"] # "done" BY <2>1, <3>1
        <5>2. /\ Faithful(queue[r], "failed", stream[r], relayed[r], produced[r]["mesh"], r, drained)
              /\ Faithful(Append(queue[r], "error"), "failed", stream[r], relayed[r],
                          produced[r]["mesh"], r, drained)
          BY <1>1, <1>2, <4>2, <5>1, FaithfulFailed
        <5> QED BY <5>2
      <4> QED BY <2>1, <2>3, <3>1, <4>2
    <3>2. CASE t # "mesh" BY <1>2, <2>1, <2>3, <3>2
    <3> QED BY <3>1, <3>2
  <2>6. UNCHANGED <<at, stream, via, dUsage, produced, relayed, drained, spent>>
    BY <1>7 DEF NodeFails, NodeVanishes
  <2> QED BY <1>1, <2>1, <2>3, <2>4, <2>5, <2>6, FlowStep
<1> QED BY <1>3, <1>4, <1>5, <1>6, <1>7

\* The drain thread: it marks the end, or swaps, and a swap is counted.
LEMMA DrainComplete ==
    ASSUME CompleteInv, NEW r \in Req, DrainStep(r)
    PROVE  StepOf(r)
<1> USE DEF request, mesh, books
<1>1. /\ FlowType /\ at[r] \in Active /\ queue[r] \in Seq(Item)
      /\ relayed[r] \in Nat /\ produced[r]["mesh"] \in Nat
  BY DEF CompleteInv, FlowType, DrainStep, Transport
<1>2. spent.swaps = 0 /\ Reading(r) =>
         Faithful(queue[r], gen[r]["mesh"], stream[r], relayed[r], produced[r]["mesh"], r, drained)
  BY DEF CompleteInv, RequestInv
<1>3. ASSUME NEW s \in Seq(Item), queue' = [queue EXCEPT ![r] = s]
      PROVE  /\ queue' \in [Req -> Seq(Item)] /\ queue'[r] = s
             /\ \A q \in Req \ {r} : queue'[q] = queue[q]
  BY <1>1, <1>3 DEF FlowType
<1>4. CASE QueryEnds(r)
  <2> DEFINE s == Append(queue[r], "end")
  <2>1. s \in Seq(Item) BY <1>1, AppendProperties DEF Item
  <2>2. queue' = [queue EXCEPT ![r] = s] BY <1>4 DEF QueryEnds, EndMarked
  <2>3. spent.swaps = 0 /\ Reading(r) =>
          Faithful(s, gen[r]["mesh"], stream[r], relayed[r], produced[r]["mesh"], r, drained \cup {r})
    BY <1>1, <1>2, FaithfulClosed
  <2> HIDE DEF s
  <2>4. FlowType' BY <1>1, <1>3, <1>4, <2>1, <2>2 DEF QueryEnds, FlowType
  <2> QED BY <1>1, <1>3, <1>4, <2>1, <2>2, <2>3, <2>4, FlowStep DEF QueryEnds
<1>5. CASE QueryBreaks(r)
  <2> DEFINE s1 == Append(queue[r], "broken")
             s == Append(s1, "end")
  <2>1. s1 \in Seq(Item) /\ s \in Seq(Item) BY <1>1, AppendProperties DEF Item
  <2>2. queue' = [queue EXCEPT ![r] = s]
    <3>1. queue[r] \o <<"broken", "end">> = s BY <1>1 DEF Item
    <3> QED BY <1>5, <3>1 DEF QueryBreaks
  <2>3. spent.swaps = 0 /\ Reading(r) =>
          Faithful(s1, gen[r]["mesh"], stream[r], relayed[r], produced[r]["mesh"], r, drained \cup {r})
    BY <1>1, <1>2, FaithfulClosed
  <2> HIDE DEF s1
  <2>4. spent.swaps = 0 /\ Reading(r) =>
          Faithful(s, gen[r]["mesh"], stream[r], relayed[r], produced[r]["mesh"], r, drained \cup {r})
    <3>1. (drained \cup {r}) \cup {r} = drained \cup {r} OBVIOUS
    <3> QED BY <1>1, <2>1, <2>3, <3>1, FaithfulClosed
  <2> HIDE DEF s
  <2>5. FlowType' BY <1>1, <1>3, <1>5, <2>1, <2>2 DEF QueryBreaks, FlowType
  <2> QED BY <1>1, <1>3, <1>5, <2>1, <2>2, <2>4, <2>5, FlowStep DEF QueryBreaks
<1>6. CASE RepliesSwap(r)
  <2> DEFINE q == queue[r]
             k == Len(q)
             s == [q EXCEPT ![k] = q[k - 1], ![k - 1] = q[k]]
  <2>1. s \in Seq(Item)
    <3>1. k \in Nat /\ k >= 2 BY <1>1, <1>6, LenProperties DEF RepliesSwap
    <3>2. k \in 1..k /\ k - 1 \in 1..k BY <3>1
    <3>3. q[k] \in Item /\ q[k - 1] \in Item BY <1>1, <3>2, ElementOfSeq
    <3>4. [q EXCEPT ![k] = q[k - 1]] \in Seq(Item) /\ Len([q EXCEPT ![k] = q[k - 1]]) = k
      BY <1>1, <3>2, <3>3, ExceptSeq
    <3> DEFINE u == [q EXCEPT ![k] = q[k - 1]]
    <3>5. s = [u EXCEPT ![k - 1] = q[k]] OBVIOUS
    <3> HIDE DEF u
    <3>6. [u EXCEPT ![k - 1] = q[k]] \in Seq(Item) BY <3>2, <3>3, <3>4, ExceptSeq DEF u
    <3> QED BY <3>5, <3>6
  <2>2. queue' = [queue EXCEPT ![r] = s] BY <1>6 DEF RepliesSwap
  <2>3. spent'.swaps = spent.swaps + 1 /\ spent.swaps \in Nat
    BY <1>6, SwapsCounted DEF RepliesSwap, CompleteInv, RecordsInv
  <2> HIDE DEF s
  <2>4. FlowType' BY <1>1, <1>3, <1>6, <2>1, <2>2 DEF RepliesSwap, FlowType
  <2>5. UNCHANGED <<at, stream, via, dUsage, gen, produced, relayed, drained>>
    BY <1>6 DEF RepliesSwap
  <2> QED BY <1>1, <1>3, <2>1, <2>2, <2>3, <2>4, <2>5, FlowStep
<1> QED BY <1>4, <1>5, <1>6 DEF DrainStep

\* The reply a handler takes from its queue is the first one left in it.
LEMMA TakeReply ==
    ASSUME FlowType, NEW r \in Req, queue[r] # <<>>, queue' = [queue EXCEPT ![r] = Tail(@)]
    PROVE  /\ queue' \in [Req -> Seq(Item)]
           /\ queue'[r] = Tail(queue[r])
           /\ \A q \in Req \ {r} : queue'[q] = queue[q]
           /\ queue[r] \in Seq(Item) /\ 1 \in 1..Len(queue[r]) /\ Head(queue[r]) = queue[r][1]
<1>1. queue[r] \in Seq(Item) BY DEF FlowType
<1>2. Tail(queue[r]) \in Seq(Item) BY <1>1, HeadTailProperties
<1>3. 1 \in 1..Len(queue[r]) BY <1>1, EmptySeq
<1> QED BY <1>1, <1>2, <1>3 DEF FlowType

\* The first reply: a result is the whole answer; a fallback leaves the queue.
LEMMA FirstReplyComplete ==
    ASSUME CompleteInv, NEW r \in Req, FirstReplyStep(r)
    PROVE  StepOf(r)
<1> USE DEF request, mesh, books
<1>1. /\ FlowType /\ RequestInv(r) /\ at \in [Req -> Place] /\ via \in [Req -> Transport]
      /\ gen \in [Req -> [Transport -> {"none", "asked", "working", "done", "failed"}]]
      /\ at[r] = "mesh" => via[r] = "mesh"
  BY DEF CompleteInv, AnswerInv, RecordsInv, BooksType
<1>2. ASSUME at[r] = "mesh", FallBack(r), UNCHANGED drained, queue' \in [Req -> Seq(Item)],
             \A q \in Req \ {r} : queue'[q] = queue[q]
      PROVE  StepOf(r)
  <2>1. HttpPlace(stream[r]) \in {"opened", "http"} /\ (HttpPlace(stream[r]) = "http" => ~stream[r])
    BY DEF HttpPlace
  <2>2. \A q \in Req \ {r} : gen'[q] = gen[q] BY <1>1, <1>2 DEF FallBack, HttpGen
  <2>3. \A q \in Req \ {r} : Keeps(q) BY <1>1, <1>2, <2>2 DEF FallBack, Keeps
  <2>4. FlowType' BY <1>1, <1>2 DEF FallBack, FlowType
  <2>5. at'[r] = HttpPlace(stream[r]) /\ via'[r] = "http" /\ stream'[r] = stream[r]
    BY <1>1, <1>2 DEF FallBack
  <2>6. RequestInv(r)' BY <2>1, <2>5 DEF RequestInv, Reading
  <2> QED BY <1>2, <2>3, <2>4, <2>6 DEF FallBack, StepOf, Ended
<1>3. CASE FirstReplyUnavailable(r)
  BY <1>1, <1>2, <1>3, TakeReply DEF FirstReplyUnavailable
<1>4. CASE FirstReplyTimeout(r)
  BY <1>1, <1>2, <1>4 DEF FirstReplyTimeout, FlowType
<1>5. CASE FirstReplyError(r)
  <2>1. Meters(r, FALSE) /\ UNCHANGED <<stream, via, gen, produced, drained, relayed>>
    BY <1>5 DEF FirstReplyError, Meters, Active
  <2>2. FlowType' /\ \A q \in Req \ {r} : queue'[q] = queue[q]
    BY <1>1, <1>5, TakeReply DEF FirstReplyError, FlowType
  <2> QED BY <2>1, <2>2, MeteredStep
<1>6. CASE FirstReplyResult(r)
  <2>1. Meters(r, TRUE) /\ UNCHANGED <<stream, via, gen, produced, drained, relayed>>
    BY <1>6 DEF FirstReplyResult, Meters, Active
  <2>2. FlowType' /\ \A q \in Req \ {r} : queue'[q] = queue[q]
    BY <1>1, <1>6, TakeReply DEF FirstReplyResult, FlowType
  <2>3. ASSUME spent.swaps = 0 PROVE Complete(r)
    <3>1. via[r] = "mesh" /\ Reading(r) BY <1>1, <1>6 DEF FirstReplyResult, Reading
    <3>2. 1 \in 1..Len(queue[r]) /\ queue[r][1] = "result"
      BY <1>1, <1>6, TakeReply DEF FirstReplyResult
    <3> QED BY <1>1, <2>3, <3>1, <3>2 DEF RequestInv, Faithful, Complete
  <2> QED BY <2>1, <2>2, <2>3, MeteredStep
<1>7. CASE FirstReplyOpens(r)
  <2>1. \A q \in Req \ {r} : Keeps(q) BY <1>1, <1>7 DEF FirstReplyOpens, Keeps
  <2>2. FlowType' BY <1>1, <1>7 DEF FirstReplyOpens, FlowType
  <2>3. RequestInv(r)' BY <1>1, <1>7 DEF FirstReplyOpens, RequestInv, Reading
  <2> QED BY <1>7, <2>1, <2>2, <2>3 DEF FirstReplyOpens, StepOf, Ended
<1> QED BY <1>3, <1>4, <1>5, <1>6, <1>7 DEF FirstReplyStep

\* One HTTP answer is a whole answer.
LEMMA HttpComplete ==
    ASSUME CompleteInv, NEW r \in Req, HttpStep(r)
    PROVE  StepOf(r)
<1> USE DEF request, mesh, books
<1>1. FlowType /\ RequestInv(r) /\ at \in [Req -> Place]
  BY DEF CompleteInv, RecordsInv, BooksType
<1>2. CASE HttpAnswers(r)
  <2>1. /\ Meters(r, TRUE) /\ UNCHANGED <<stream, via, gen, produced, queue, drained, relayed>>
        /\ at[r] = "http" /\ gen[r]["http"] = "done"
    BY <1>2 DEF HttpAnswers, Meters, Active
  <2>2. Complete(r) BY <1>1, <2>1 DEF RequestInv, Complete
  <2>3. FlowType' BY <1>1, <2>1 DEF FlowType
  <2> QED BY <2>1, <2>2, <2>3, MeteredStep
<1>3. CASE HttpFails(r)
  <2>1. Meters(r, FALSE) /\ UNCHANGED <<stream, via, gen, produced, queue, drained, relayed>>
    BY <1>3 DEF HttpFails, Meters, Active
  <2>2. FlowType' BY <1>1, <2>1 DEF FlowType
  <2> QED BY <2>1, <2>2, MeteredStep
<1>4. CASE HttpUnparseable(r)
  <2>1. \A q \in Req \ {r} : Keeps(q) BY <1>1, <1>4 DEF HttpUnparseable, Keeps
  <2>2. FlowType' BY <1>1, <1>4 DEF HttpUnparseable, FlowType
  <2>3. RequestInv(r)' BY <1>1, <1>4 DEF HttpUnparseable, RequestInv, Reading
  <2> QED BY <1>4, <2>1, <2>2, <2>3 DEF HttpUnparseable, StepOf, Ended
<1> QED BY <1>2, <1>3, <1>4 DEF HttpStep

\* The relayed stream: the terminator is reached with every chunk handed on.
LEMMA RelayComplete ==
    ASSUME CompleteInv, NEW r \in Req, RelayStep(r) \/ RequesterGone(r)
    PROVE  StepOf(r)
<1> USE DEF request, mesh, books
<1>1. /\ FlowType /\ RequestInv(r) /\ at \in [Req -> Place] /\ via \in [Req -> Transport]
      /\ gen \in [Req -> [Transport -> {"none", "asked", "working", "done", "failed"}]]
  BY DEF CompleteInv, AnswerInv, RecordsInv, BooksType
<1>2. CASE StreamStarts(r)
  <2>1. /\ \A q \in Req \ {r} : gen'[q] = gen[q]
        /\ gen'[r]["mesh"] = gen[r]["mesh"]
    BY <1>1, <1>2 DEF StreamStarts, Transport
  <2>2. \A q \in Req \ {r} : Keeps(q) BY <1>1, <1>2, <2>1 DEF StreamStarts, Keeps
  <2>3. FlowType' BY <1>1, <1>2 DEF StreamStarts, FlowType
  <2>4. RequestInv(r)' BY <1>1, <1>2, <2>1 DEF StreamStarts, RequestInv, Reading
  <2> QED BY <1>2, <2>2, <2>3, <2>4 DEF StreamStarts, StepOf, Ended
<1>3. CASE RequesterGoneEarly(r)
  <2>1. \A q \in Req \ {r} : Keeps(q) BY <1>1, <1>3 DEF RequesterGoneEarly, Keeps
  <2>2. FlowType' BY <1>1, <1>3 DEF RequesterGoneEarly, FlowType
  <2>3. RequestInv(r)' BY <1>1, <1>3 DEF RequesterGoneEarly, RequestInv, Reading
  <2> QED BY <1>3, <2>1, <2>2, <2>3 DEF RequesterGoneEarly, StepOf, Ended
<1>4. CASE RelayMeshChunk(r)
  <2>1. /\ queue' \in [Req -> Seq(Item)] /\ queue'[r] = Tail(queue[r])
        /\ \A q \in Req \ {r} : queue'[q] = queue[q]
        /\ queue[r] \in Seq(Item)
    BY <1>1, <1>4, TakeReply DEF RelayMeshChunk
  <2>2. /\ relayed' \in [Req -> Nat] /\ relayed'[r] = relayed[r] + 1 /\ relayed[r] \in Nat
        /\ \A q \in Req \ {r} : relayed'[q] = relayed[q]
    BY <1>1, <1>4 DEF RelayMeshChunk, FlowType
  <2>3. FlowType' BY <1>1, <1>4, <2>1, <2>2 DEF RelayMeshChunk, FlowType
  <2>4. spent.swaps = 0 /\ Reading(r) =>
          Faithful(Tail(queue[r]), gen[r]["mesh"], stream[r], relayed[r] + 1, produced[r]["mesh"],
                   r, drained)
    <3>1. produced[r]["mesh"] \in Nat BY <1>1 DEF FlowType, Transport
    <3>2. queue[r] # <<>> /\ Head(queue[r]) = "chunk" BY <1>4 DEF RelayMeshChunk
    <3> QED BY <1>1, <2>1, <2>2, <3>1, <3>2, FaithfulRelay DEF RequestInv
  <2>5. /\ at[r] \in Active
        /\ UNCHANGED <<at, stream, via, gen, produced, drained, dUsage, spent>>
    BY <1>4 DEF RelayMeshChunk, Active
  <2> QED BY <2>1, <2>2, <2>3, <2>4, <2>5, FlowStep
<1>5. CASE RelayMeshEnds(r)
  <2> DEFINE ok == Head(queue[r]) \in CleanEnd
  <2>1. /\ ok \in BOOLEAN /\ Meters(r, ok)
        /\ UNCHANGED <<stream, via, gen, produced, drained, relayed>>
    BY <1>5 DEF RelayMeshEnds, Meters, Active
  <2>2. FlowType' /\ \A q \in Req \ {r} : queue'[q] = queue[q]
    BY <1>1, <1>5, TakeReply DEF RelayMeshEnds, FlowType
  <2>3. ASSUME ok, spent.swaps = 0 PROVE Complete(r)
    <3>1. via[r] = "mesh" /\ Reading(r) BY <1>5 DEF RelayMeshEnds, Reading
    <3>2. 1 \in 1..Len(queue[r]) /\ queue[r][1] = "done"
      BY <1>1, <1>5, <2>3, TakeReply DEF RelayMeshEnds, CleanEnd
    <3>3. gen[r]["mesh"] = "done" /\ relayed[r] + 1 = produced[r]["mesh"] + 1
      BY <1>1, <2>3, <3>1, <3>2 DEF RequestInv, Faithful
    <3>4. relayed[r] \in Nat /\ produced[r]["mesh"] \in Nat
      BY <1>1 DEF FlowType, Transport
    <3> QED BY <3>1, <3>3, <3>4 DEF Complete
  <2> HIDE DEF ok
  <2> QED BY <2>1, <2>2, <2>3, MeteredStep
<1>6. CASE RelayHttpLine(r)
  <2>1. /\ relayed' \in [Req -> Nat] /\ \A q \in Req \ {r} : relayed'[q] = relayed[q]
    BY <1>1, <1>6 DEF RelayHttpLine, FlowType
  <2>2. FlowType' BY <1>1, <1>6, <2>1 DEF RelayHttpLine, FlowType
  <2>3. /\ at[r] \in Active /\ ~Reading(r)
        /\ UNCHANGED <<at, stream, via, gen, produced, queue, drained, dUsage, spent>>
    BY <1>6 DEF RelayHttpLine, Active, Reading
  <2> QED BY <2>1, <2>2, <2>3, FlowStep
<1>7. CASE RelayHttpEnds(r)
  <2>1. /\ Meters(r, TRUE)
        /\ UNCHANGED <<stream, via, gen, produced, queue, drained, relayed>>
        /\ via[r] = "http" /\ gen[r]["http"] = "done" /\ relayed[r] = produced[r]["http"]
    BY <1>7 DEF RelayHttpEnds, Meters, Active
  <2>2. Complete(r) BY <2>1 DEF Complete
  <2>3. FlowType' BY <1>1, <2>1 DEF FlowType
  <2> QED BY <2>1, <2>2, <2>3, MeteredStep
<1>8. CASE RelayHttpFails(r) \/ RequesterGone(r)
  <2>1. /\ Meters(r, FALSE)
        /\ UNCHANGED <<stream, via, gen, produced, queue, drained, relayed>>
    BY <1>8 DEF RelayHttpFails, RequesterGone, Meters, Active
  <2>2. FlowType' BY <1>1, <2>1 DEF FlowType
  <2> QED BY <2>1, <2>2, MeteredStep
<1> QED BY <1>2, <1>3, <1>4, <1>5, <1>6, <1>7, <1>8 DEF RelayStep

\* As long as the mesh keeps the order of replies, a request recorded as a
\* success gave its requester all the node generated for it: no timeout, fallback,
\* silent end of the reply iterator or abandoned stream passes for a complete one.
THEOREM SuccessesAreComplete == Spec => []SuccessIsComplete
<1>1. Init => CompleteInv
  <2> SUFFICES ASSUME Init PROVE CompleteInv OBVIOUS
  <2>1. AnswerInv BY DEF Init, AnswerInv, Transport, Active
  <2>2. RecordsInv
    BY EmptySeq, DispatchAssumption DEF Init, RecordsInv, BooksType, Place, Active, Ended
  <2>3. FlowType BY EmptySeq DEF Init, FlowType, Transport
  <2>4. \A r \in Req : RequestInv(r) BY DEF Init, RequestInv, Reading, Transport
  <2>5. SuccessIsComplete BY DEF Init, SuccessIsComplete
  <2> QED BY <2>1, <2>2, <2>3, <2>4, <2>5 DEF CompleteInv
<1>2. CompleteInv /\ [Next]_vars => CompleteInv'
  <2> SUFFICES ASSUME CompleteInv, [Next]_vars PROVE CompleteInv' OBVIOUS
  <2>1. at \in [Req -> Place] /\ BooksType /\ FlowType
    BY DEF CompleteInv, RecordsInv, BooksType
  <2>2. CASE Crash
    <3>1. \A q \in Req : Keeps(q)
      BY <2>1, <2>2 DEF Crash, LoseMemory, Keeps, Ended, request, mesh
    <3>2. spent'.swaps = spent.swaps BY <2>1, <2>2, SwapsCounted DEF Crash, LoseMemory
    <3> QED BY <2>1, <2>2, <3>1, <3>2, AllKept DEF Crash, FlowType, request, mesh
  <2>3. CASE Boot \/ UNCHANGED vars
    <3>1. UNCHANGED <<at, stream, via, gen, produced, queue, drained, relayed, dUsage, spent>>
      BY <2>3 DEF Boot, vars, request, mesh, books
    <3>2. \A q \in Req : Keeps(q) BY <3>1 DEF Keeps
    <3> QED BY <2>1, <3>1, <3>2, AllKept DEF FlowType
  <2>4. ASSUME NEW r \in Req,
               \/ Arrive(r) \/ NodeStep(r) \/ DrainStep(r) \/ FirstReplyStep(r)
               \/ HttpStep(r) \/ RelayStep(r) \/ RequesterGone(r)
        PROVE  CompleteInv'
    <3>1. StepOf(r)
      BY <2>4, ArriveComplete, NodeComplete, DrainComplete, FirstReplyComplete, HttpComplete,
         RelayComplete
    <3> QED BY <3>1, StepKeepsComplete
  <2> QED BY <2>2, <2>3, <2>4 DEF Next
<1>3. CompleteInv => SuccessIsComplete BY DEF CompleteInv
<1> QED BY <1>1, <1>2, <1>3, PTL DEF Spec
=============================================================================

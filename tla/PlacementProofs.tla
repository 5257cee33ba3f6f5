-------------------------- MODULE PlacementProofs --------------------------
(***************************************************************************)
(* Proofs about Placement, for every fleet, every set of payloads and      *)
(* every pipeline: the load tracked is the work that was placed, what is   *)
(* chosen by it is chosen fairly and from trusted nodes, and quarantine is *)
(* earned.                                                                 *)
(***************************************************************************)
EXTENDS Placement, SequenceTheorems, FiniteSetTheorems, WellFoundedInduction, TLAPS

\* The tracked depth of every id, registered or not, against the history: the
\* inductive form of LoadMatchesAssignments.  An entry that is missing stands
\* for no work at all, which is what lets a departure, a telemetry frame and a
\* new registration restart the count.
LoadInv ==
    /\ depth \in [Node -> Nat \cup {Missing}]
    /\ charged \in [Node -> Nat]
    /\ orphaned \in [Node -> Nat]
    /\ beat \in [Node -> Beat \cup {Absent}]
    /\ \A n \in Node :
          charged[n] + orphaned[n] = IF depth[n] = Missing THEN 0 ELSE depth[n]

\* A charged node's depth and count rise together (DepthPlusOne, engine.py).
LEMMA DepthRises ==
    ASSUME LoadInv, NEW n \in Node
    PROVE  /\ DepthPlusOne(n) \in Nat \ {0}
           /\ DepthPlusOne(n) = charged[n] + orphaned[n] + 1
           /\ DepthPlusOne(n) # Missing
  BY DEF LoadInv, DepthPlusOne, Missing

\* Charging the nodes of a plan keeps the two counts equal, whichever of the two
\* histories takes the charge (the loop that builds PipelineStages, engine.py).
LEMMA ChargeKeeps ==
    ASSUME LoadInv, NEW nodes, Charge(nodes), beat' = beat,
           \/ charged' = Counted(charged, nodes) /\ orphaned' = orphaned
           \/ orphaned' = Counted(orphaned, nodes) /\ charged' = charged
    PROVE  LoadInv'
<1>1. /\ depth' = [n \in Node |-> IF n \in nodes THEN DepthPlusOne(n) ELSE depth[n]]
      /\ \A n \in Node : DepthPlusOne(n) \in Nat \ {0}
      /\ \A n \in Node : DepthPlusOne(n) = charged[n] + orphaned[n] + 1
  BY DepthRises DEF Charge
<1>2. depth' \in [Node -> Nat \cup {Missing}]
  BY <1>1 DEF LoadInv
<1>3. charged' \in [Node -> Nat] /\ orphaned' \in [Node -> Nat]
  BY DEF LoadInv, Counted
<1>4. ASSUME NEW n \in Node
      PROVE  charged'[n] + orphaned'[n] = IF depth'[n] = Missing THEN 0 ELSE depth'[n]
  BY <1>1 DEF LoadInv, Counted, Missing
<1> QED BY <1>2, <1>3, <1>4 DEF LoadInv

\* An id that is forgotten, or whose telemetry entry is replaced, starts afresh.
LEMMA RestartKeeps ==
    ASSUME LoadInv, NEW n \in Node,
           depth' = [depth EXCEPT ![n] = Missing],
           charged' = [charged EXCEPT ![n] = 0],
           orphaned' = [orphaned EXCEPT ![n] = 0],
           beat' \in [Node -> Beat \cup {Absent}]
    PROVE  LoadInv'
<1>1. depth' \in [Node -> Nat \cup {Missing}]
  BY DEF LoadInv
<1>2. charged' \in [Node -> Nat] /\ orphaned' \in [Node -> Nat]
  BY DEF LoadInv
<1>3. ASSUME NEW x \in Node
      PROVE  charged'[x] + orphaned'[x] = IF depth'[x] = Missing THEN 0 ELSE depth'[x]
  <2>1. CASE x = n
    BY <2>1 DEF LoadInv
  <2>2. CASE x # n
    BY <2>2 DEF LoadInv
  <2> QED BY <2>1, <2>2
<1> QED BY <1>1, <1>2, <1>3 DEF LoadInv

\* Every step of the registry, the verifier and the engine preserves LoadInv.
LEMMA LoadStep == LoadInv /\ [Next]_vars => LoadInv'
<1> SUFFICES ASSUME LoadInv, [Next]_vars PROVE LoadInv'
  OBVIOUS
<1> USE DEF ledger
<1>1. ASSUME NEW n \in Node, NEW q \in Payload, Register(n, q) PROVE LoadInv'
  BY <1>1 DEF Register, LoadInv
<1>2. ASSUME NEW n \in Node, Unregister(n) PROVE LoadInv'
  <2>1. beat' \in [Node -> Beat \cup {Absent}]
    BY <1>2 DEF Unregister, LoadInv
  <2> QED BY <1>2, <2>1, RestartKeeps DEF Unregister, DepthForgotten
<1>3. ASSUME NEW n \in Node, NEW models, SetAvailableModels(n, models) PROVE LoadInv'
  BY <1>3 DEF SetAvailableModels, LoadInv, load
<1>4. ASSUME NEW n \in Node, NEW b \in Beat, UpdateHeartbeat(n, b) PROVE LoadInv'
  BY <1>4 DEF UpdateHeartbeat, LoadInv
<1>5. ASSUME NEW n \in Node, NEW c \in Cpu, MapTelemetry(n, c) PROVE LoadInv'
  <2>1. beat' \in [Node -> Beat \cup {Absent}]
    BY <1>5 DEF MapTelemetry, LoadInv, registry
  <2> QED BY <1>5, <2>1, RestartKeeps DEF MapTelemetry
<1>6. ASSUME NEW n \in Node, NEW passed, RecordCanary(n, passed) PROVE LoadInv'
  BY <1>6 DEF RecordCanary, LoadInv, registry, load
<1>7. ASSUME NEW n \in Node, Restitch(n) PROVE LoadInv'
  BY <1>7 DEF Restitch, LoadInv, registry, load
<1>8. ASSUME NEW m, SelectNode(m) PROVE LoadInv'
  BY <1>8 DEF SelectNode, LoadInv, registry
<1>9. ASSUME NEW m, NEW need, ScheduleTask(m, need) PROVE LoadInv'
  <2> DEFINE t == Ranked(Eligible(m, need))[1]
  <2>1. /\ depth' = [depth EXCEPT ![t] = DepthPlusOne(t)]
        /\ charged' = [charged EXCEPT ![t] = @ + 1]
        /\ orphaned' = orphaned /\ beat' = beat
    BY <1>9 DEF ScheduleTask, registry
  <2> HIDE DEF t
  <2>2. CASE t \in Node
    <3>1. DepthPlusOne(t) \in Nat \ {0} /\ DepthPlusOne(t) = charged[t] + orphaned[t] + 1
      BY <2>2, DepthRises
    <3> QED BY <2>1, <2>2, <3>1 DEF LoadInv, Missing
  <2>3. CASE t \notin Node
    BY <2>1, <2>3 DEF LoadInv
  <2> QED BY <2>2, <2>3
<1>10. ASSUME NEW m, NEW layers, NEW per, NEW stages, SchedulePipeline(m, layers, per, stages)
       PROVE  LoadInv'
  <2>1. PICK nodes : /\ Charge(nodes)
                     /\ \/ charged' = Counted(charged, nodes) /\ orphaned' = orphaned
                        \/ orphaned' = Counted(orphaned, nodes) /\ charged' = charged
    BY <1>10 DEF SchedulePipeline
  <2>2. beat' = beat
    BY <1>10 DEF SchedulePipeline, registry
  <2> QED BY <2>1, <2>2, ChargeKeeps
<1>11. ASSUME NEW m, NEW layers, NEW asked, ScheduleSplit(m, layers, asked) PROVE LoadInv'
  <2>1. PICK nodes : /\ Charge(nodes)
                     /\ \/ charged' = Counted(charged, nodes) /\ orphaned' = orphaned
                        \/ orphaned' = Counted(orphaned, nodes) /\ charged' = charged
    BY <1>11 DEF ScheduleSplit
  <2>2. beat' = beat
    BY <1>11 DEF ScheduleSplit, registry
  <2> QED BY <2>1, <2>2, ChargeKeeps
<1>12. CASE UNCHANGED vars
  BY <1>12 DEF vars, registry, load, LoadInv
<1> QED
  BY <1>1, <1>2, <1>3, <1>4, <1>5, <1>6, <1>7, <1>8, <1>9, <1>10, <1>11, <1>12 DEF Next

\* As long as heartbeats report an empty queue, which is what the node's runtime
\* does, the depth score_nodes ranks a node by is the work placed on it.
THEOREM LoadTracked ==
    ASSUME \A b \in Beat : b.queue = 0
    PROVE  Spec => []LoadMatchesAssignments
<1>1. Init => LoadInv
  BY DEF Init, LoadInv, Nothing, Missing
<1>2. LoadInv => LoadMatchesAssignments
  BY DEF LoadInv, LoadMatchesAssignments, QueueDepth
<1> QED BY <1>1, <1>2, LoadStep, PTL DEF Spec

-----------------------------------------------------------------------------
(***************************************************************************)
(* Quarantine                                                              *)
(***************************************************************************)

\* o ends in exactly k failures
EndsIn(o, k) ==
    /\ k <= Len(o)
    /\ \A i \in Nat : i < k => ~o[Len(o) - i]
    /\ k < Len(o) => o[Len(o) - k]

\* The inductive strengthening of QuarantineEarned: the counter is the length of
\* the failing end of the node's whole history, and the flag follows the counter.
CanaryInv ==
    /\ failing \in [Node -> Nat]
    /\ outcomes \in [Node -> Seq(BOOLEAN)]
    /\ quarantined \subseteq Node
    /\ \A n \in Node : EndsIn(outcomes[n], failing[n])
    /\ \A n \in Node : n \in quarantined <=> failing[n] >= Failures

\* One more reply lengthens the failing end by one, or cuts it to nothing.
LEMMA EndGrows ==
    ASSUME NEW o \in Seq(BOOLEAN), NEW k \in Nat, EndsIn(o, k)
    PROVE  /\ EndsIn(Append(o, TRUE), 0)
           /\ EndsIn(Append(o, FALSE), k + 1)
<1>1. ASSUME NEW b \in BOOLEAN
      PROVE  /\ Len(o) \in Nat /\ Len(Append(o, b)) = Len(o) + 1
             /\ Append(o, b)[Len(o) + 1] = b
             /\ \A i \in 1..Len(o) : Append(o, b)[i] = o[i]
  BY AppendProperties, LenProperties
<1>2. EndsIn(Append(o, TRUE), 0) BY <1>1 DEF EndsIn
<1>3. EndsIn(Append(o, FALSE), k + 1)
  <2> DEFINE p == Append(o, FALSE)
  <2>1. /\ Len(o) \in Nat /\ Len(p) = Len(o) + 1 /\ p[Len(o) + 1] = FALSE
        /\ \A i \in 1..Len(o) : p[i] = o[i]
    BY <1>1
  <2> HIDE DEF p
  <2>2. k <= Len(o) BY DEF EndsIn
  <2>3. ASSUME NEW i \in Nat, i < k + 1 PROVE ~p[Len(p) - i]
    <3>1. CASE i = 0 BY <2>1, <3>1
    <3>2. CASE i > 0
      <4> DEFINE j == i - 1
      <4>1. /\ j \in Nat /\ j < k /\ Len(p) - i = Len(o) - j /\ Len(o) - j \in 1..Len(o)
        BY <2>1, <2>2, <2>3, <3>2
      <4> HIDE DEF j
      <4>2. ~o[Len(o) - j] BY <4>1 DEF EndsIn
      <4> QED BY <2>1, <4>1, <4>2
    <3> QED BY <3>1, <3>2
  <2>4. ASSUME k + 1 < Len(p) PROVE p[Len(p) - (k + 1)]
    <3>1. k < Len(o) /\ Len(p) - (k + 1) = Len(o) - k /\ Len(o) - k \in 1..Len(o)
      BY <2>1, <2>4
    <3>2. o[Len(o) - k] BY <3>1 DEF EndsIn
    <3> QED BY <2>1, <3>1, <3>2
  <2> QED BY <2>1, <2>2, <2>3, <2>4 DEF EndsIn, p
<1> QED BY <1>2, <1>3

LEMMA CanaryStep == CanaryInv /\ [Next]_vars => CanaryInv'
<1> SUFFICES ASSUME CanaryInv, [Next]_vars PROVE CanaryInv' OBVIOUS
<1>1. ASSUME NEW n \in Node, NEW passed \in BOOLEAN, RecordCanary(n, passed) PROVE CanaryInv'
  <2>1. failing[n] \in Nat /\ outcomes[n] \in Seq(BOOLEAN) /\ EndsIn(outcomes[n], failing[n])
    BY DEF CanaryInv
  <2>2. /\ failing' = [failing EXCEPT ![n] = Failing(n, passed)]
        /\ outcomes' = [outcomes EXCEPT ![n] = Append(@, passed)]
    BY <1>1 DEF RecordCanary
  <2>3. Failing(n, passed) \in Nat /\ Append(outcomes[n], passed) \in Seq(BOOLEAN)
    BY <2>1, AppendProperties DEF Failing
  <2>4. EndsIn(Append(outcomes[n], passed), Failing(n, passed))
    <3>1. CASE passed = TRUE BY <2>1, <3>1, EndGrows DEF Failing
    <3>2. CASE passed = FALSE BY <2>1, <3>2, EndGrows DEF Failing
    <3> QED BY <3>1, <3>2
  <2>5. failing' \in [Node -> Nat] /\ outcomes' \in [Node -> Seq(BOOLEAN)]
    BY <2>2, <2>3 DEF CanaryInv
  <2>6. \A x \in Node : EndsIn(outcomes'[x], failing'[x])
    <3>1. \A x \in Node \ {n} : outcomes'[x] = outcomes[x] /\ failing'[x] = failing[x]
      BY <2>2 DEF CanaryInv
    <3>2. outcomes'[n] = Append(outcomes[n], passed) /\ failing'[n] = Failing(n, passed)
      BY <2>2 DEF CanaryInv
    <3> QED BY <2>4, <3>1, <3>2 DEF CanaryInv
  <2>7. quarantined' \subseteq Node /\ \A x \in Node : x \in quarantined' <=> failing'[x] >= Failures
    <3>1. Failures \in Nat \ {0} BY PlacementAssumption
    <3>2. CASE passed = TRUE
      <4>1. quarantined' = quarantined \ {n} /\ failing' = [failing EXCEPT ![n] = 0]
        BY <1>1, <3>2 DEF RecordCanary, Failing
      <4> QED BY <3>1, <4>1 DEF CanaryInv
    <3>3. CASE passed = FALSE
      <4>1. failing' = [failing EXCEPT ![n] = failing[n] + 1] /\ failing'[n] = failing[n] + 1
        BY <1>1, <3>3 DEF RecordCanary, Failing, CanaryInv
      <4>2. quarantined' = IF failing'[n] >= Failures THEN quarantined \cup {n} ELSE quarantined
        BY <1>1, <3>3 DEF RecordCanary
      <4> QED BY <2>1, <3>1, <4>1, <4>2 DEF CanaryInv
    <3> QED BY <3>2, <3>3
  <2> QED BY <2>5, <2>6, <2>7 DEF CanaryInv
<1>2. CASE UNCHANGED canary BY <1>2 DEF canary, CanaryInv
<1>3. (\E n \in Node, passed \in BOOLEAN : RecordCanary(n, passed)) \/ UNCHANGED canary
  <2> USE DEF vars
  <2>1. ASSUME NEW n \in Node, NEW q \in Payload, Register(n, q) PROVE UNCHANGED canary
    BY <2>1 DEF Register
  <2>2. ASSUME NEW n \in Node, Unregister(n) PROVE UNCHANGED canary BY <2>2 DEF Unregister
  <2>3. ASSUME NEW n \in Node, NEW models, SetAvailableModels(n, models) PROVE UNCHANGED canary
    BY <2>3 DEF SetAvailableModels
  <2>4. ASSUME NEW n \in Node, NEW b \in Beat, UpdateHeartbeat(n, b) PROVE UNCHANGED canary
    BY <2>4 DEF UpdateHeartbeat
  <2>5. ASSUME NEW n \in Node, NEW c \in Cpu, MapTelemetry(n, c) PROVE UNCHANGED canary
    BY <2>5 DEF MapTelemetry
  <2>6. ASSUME NEW n \in Node, Restitch(n) PROVE UNCHANGED canary BY <2>6 DEF Restitch
  <2>7. ASSUME NEW m, SelectNode(m) PROVE UNCHANGED canary BY <2>7 DEF SelectNode
  <2>8. ASSUME NEW m, NEW need, ScheduleTask(m, need) PROVE UNCHANGED canary
    BY <2>8 DEF ScheduleTask
  <2>9. ASSUME NEW m, NEW layers, NEW per, NEW stages, SchedulePipeline(m, layers, per, stages)
        PROVE  UNCHANGED canary
    BY <2>9 DEF SchedulePipeline
  <2>10. ASSUME NEW m, NEW layers, NEW asked, ScheduleSplit(m, layers, asked)
         PROVE  UNCHANGED canary
    BY <2>10 DEF ScheduleSplit
  <2> QED BY <2>1, <2>2, <2>3, <2>4, <2>5, <2>6, <2>7, <2>8, <2>9, <2>10 DEF Next
<1> QED BY <1>1, <1>2, <1>3

\* A node is quarantined exactly when its last replies, failures_before_quarantine
\* of them, all failed (CanaryVerifier.record), over its whole history: departures
\* and new registrations neither clear nor add to it.
THEOREM QuarantineIsEarned == Spec => []QuarantineEarned
<1>1. Init => CanaryInv
  BY EmptySeq, PlacementAssumption DEF Init, CanaryInv, EndsIn, Nothing
<1>2. CanaryInv => QuarantineEarned
  <2> SUFFICES ASSUME CanaryInv, NEW n \in Node
               PROVE  failing[n] >= Failures <=>
                         /\ Len(outcomes[n]) >= Failures
                         /\ \A i \in 0..Failures - 1 : ~outcomes[n][Len(outcomes[n]) - i]
    BY DEF CanaryInv, QuarantineEarned
  <2> DEFINE k == failing[n]
             o == outcomes[n]
  <2>1. k \in Nat /\ Len(o) \in Nat /\ EndsIn(o, k) /\ Failures \in Nat \ {0}
    BY PlacementAssumption, LenProperties DEF CanaryInv
  <2> HIDE DEF k, o
  <2>2. CASE k >= Failures BY <2>1, <2>2 DEF EndsIn, k, o
  <2>3. CASE k < Failures
    <3>1. ASSUME Len(o) >= Failures PROVE o[Len(o) - k] /\ k \in 0..Failures - 1
      BY <2>1, <2>3, <3>1 DEF EndsIn
    <3> QED BY <2>1, <2>3, <3>1 DEF k, o
  <2> QED BY <2>1, <2>2, <2>3
<1> QED BY <1>1, <1>2, CanaryStep, PTL DEF Spec

-----------------------------------------------------------------------------
(***************************************************************************)
(* Rankings by a score, ties broken by position                            *)
(***************************************************************************)

\* x comes before y by score f, the lower the better, then by position p
Before(f, p, x, y) == f[x] < f[y] \/ (f[x] = f[y] /\ p[x] < p[y])

\* A finite set ranked this way has an element of every rank: the ranks are
\* distinct, and as many as there are elements.
LEMMA EveryRank ==
    ASSUME NEW S, IsFiniteSet(S), NEW f \in [S -> Int], NEW p \in [S -> Int],
           \A x, y \in S : p[x] = p[y] => x = y,
           NEW i \in 1..Cardinality(S)
    PROVE  \E n \in S : Cardinality({x \in S : Before(f, p, x, n)}) = i - 1
<1> DEFINE B(n) == {x \in S : Before(f, p, x, n)}
           k == Cardinality(S)
           R == 0..k - 1
           r == [n \in S |-> Cardinality(B(n))]
<1>0. /\ \A x \in S : f[x] \in Int /\ p[x] \in Int
      /\ \A x \in S : ~Before(f, p, x, x)
      /\ \A x, y, z \in S : Before(f, p, x, y) /\ Before(f, p, y, z) => Before(f, p, x, z)
      /\ \A x, y \in S : x # y => Before(f, p, x, y) \/ Before(f, p, y, x)
  <2>1. \A x \in S : f[x] \in Int /\ p[x] \in Int OBVIOUS
  <2>2. \A x \in S : ~Before(f, p, x, x) BY <2>1 DEF Before
  <2>3. \A x, y, z \in S : Before(f, p, x, y) /\ Before(f, p, y, z) => Before(f, p, x, z)
    BY <2>1 DEF Before
  <2>4. \A x, y \in S : x # y => Before(f, p, x, y) \/ Before(f, p, y, x)
    BY <2>1 DEF Before
  <2> QED BY <2>1, <2>2, <2>3, <2>4
<1>1. k \in Nat /\ i \in 1..k BY FS_CardinalityType
<1>2. ASSUME NEW n \in S
      PROVE  IsFiniteSet(B(n)) /\ Cardinality(B(n)) \in R
  <2>1. B(n) \in SUBSET S /\ n \notin B(n) BY <1>0
  <2>2. IsFiniteSet(B(n)) /\ Cardinality(B(n)) <= k /\ (k = Cardinality(B(n)) => S = B(n))
    BY <2>1, FS_Subset
  <2>3. Cardinality(B(n)) \in Nat BY <2>2, FS_CardinalityType
  <2> HIDE DEF B
  <2> QED BY <1>1, <2>1, <2>2, <2>3
<1>3. ASSUME NEW x \in S, NEW y \in S, Before(f, p, x, y)
      PROVE  Cardinality(B(x)) < Cardinality(B(y))
  <2>1. B(x) \in SUBSET B(y) /\ x \in B(y) /\ x \notin B(x)
    BY <1>0, <1>3
  <2>2. IsFiniteSet(B(x)) /\ IsFiniteSet(B(y))
        /\ Cardinality(B(x)) \in Nat /\ Cardinality(B(y)) \in Nat
    BY <1>1, <1>2
  <2> HIDE DEF B
  <2>3. Cardinality(B(x)) <= Cardinality(B(y)) /\ Cardinality(B(x)) # Cardinality(B(y))
    BY <2>1, <2>2, FS_Subset
  <2> QED BY <2>2, <2>3
<1>4. ASSUME NEW x \in S, NEW y \in S, x # y PROVE Cardinality(B(x)) # Cardinality(B(y))
  <2>1. Before(f, p, x, y) \/ Before(f, p, y, x) BY <1>0, <1>4
  <2> HIDE DEF B
  <2>2. Cardinality(B(x)) \in Nat /\ Cardinality(B(y)) \in Nat BY <1>1, <1>2
  <2> QED BY <1>3, <2>1, <2>2
<1> HIDE DEF B
<1>5. r \in Injection(S, R) BY <1>2, <1>4 DEF Injection, IsInjective
<1>6. IsFiniteSet(R) /\ Cardinality(R) = k
  <2> DEFINE h == k - 1
  <2>1. h \in Int /\ 0 \in Int BY <1>1
  <2> HIDE DEF h
  <2>2. IsFiniteSet(0..h) /\ Cardinality(0..h) = IF 0 > h THEN 0 ELSE h - 0 + 1
    BY <2>1, FS_Interval
  <2> QED BY <1>1, <2>2 DEF h
<1>7. r \in Surjection(S, R) BY <1>5, <1>6, FS_Injection
<1>8. i - 1 \in R BY <1>1
<1>9. \E n \in S : r[n] = i - 1
  <2> HIDE DEF r, R
  <2> QED BY <1>7, <1>8 DEF Surjection
<1> QED BY <1>9 DEF B

\* In particular it has a first one.
LEMMA FirstExists ==
    ASSUME NEW S, IsFiniteSet(S), S # {}, NEW f \in [S -> Int], NEW p \in [S -> Int],
           \A x, y \in S : p[x] = p[y] => x = y
    PROVE  \E n \in S : \A x \in S \ {n} : Before(f, p, n, x)
<1> DEFINE B(n) == {x \in S : Before(f, p, x, n)}
<1>1. Cardinality(S) \in Nat /\ Cardinality(S) # 0 BY FS_CardinalityType, FS_EmptySet
<1>2. 1 \in 1..Cardinality(S) BY <1>1
<1>3. PICK n \in S : Cardinality(B(n)) = 0
  <2>1. ASSUME NEW i \in 1..Cardinality(S)
        PROVE  \E n \in S : Cardinality({x \in S : Before(f, p, x, n)}) = i - 1
    BY EveryRank
  <2> HIDE DEF B
  <2>2. \E n \in S : Cardinality(B(n)) = 1 - 1 BY <1>2, <2>1 DEF B
  <2> QED BY <2>2
<1>4. B(n) = {}
  <2>1. IsFiniteSet(B(n)) BY FS_Subset
  <2> HIDE DEF B
  <2> QED BY <1>3, <2>1, FS_EmptySet
<1>5. \A x \in S \ {n} : Before(f, p, n, x) BY <1>4 DEF Before
<1> QED BY <1>5
-----------------------------------------------------------------------------
(***************************************************************************)
(* The fleet                                                               *)
(***************************************************************************)

Profile == [models: SUBSET Model, free: Nat, total: Nat]

\* No id is twice among the keys of _nodes, every id there has a registration,
\* and heartbeats and telemetry are what a node may have sent.
FleetInv ==
    /\ fleet \in Seq(Node)
    /\ \A i, j \in 1..Len(fleet) : fleet[i] = fleet[j] => i = j
    /\ payload \in [Node -> Profile \cup {Absent}]
    /\ \A n \in Member : payload[n] \in Profile
    /\ beat \in [Node -> Beat \cup {Absent}]
    /\ seen \in [Node -> Cpu \cup {Missing}]

\* The members are finitely many nodes, each at a position of its own.
LEMMA FleetFacts ==
    ASSUME FleetInv
    PROVE  /\ Member \subseteq Node
           /\ IsFiniteSet(Member)
           /\ \A n \in Member : Position(n) \in 1..Len(fleet) /\ fleet[Position(n)] = n
           /\ \A x, y \in Member : Position(x) = Position(y) => x = y
<1>1. fleet \in Seq(Node) /\ Len(fleet) \in Nat /\ DOMAIN fleet = 1..Len(fleet)
  BY LenProperties DEF FleetInv
<1>2. Member = {fleet[i] : i \in 1..Len(fleet)} /\ Member \subseteq Node
  BY <1>1, RangeEquality, RangeOfSeq DEF Member
<1>3. IsFiniteSet(Member)
  <2> DEFINE k == Len(fleet)
             f == [i \in 1..k |-> fleet[i]]
  <2>1. k \in Nat BY <1>1
  <2>2. f \in Surjection(1..k, Member) BY <1>2 DEF Surjection
  <2>3. 1 \in Int /\ k \in Int BY <2>1
  <2> HIDE DEF k, f
  <2>4. IsFiniteSet(1..k) BY <2>3, FS_Interval
  <2> QED BY <2>2, <2>4, FS_Surjection
<1>4. ASSUME NEW n \in Member PROVE Position(n) \in 1..Len(fleet) /\ fleet[Position(n)] = n
  <2>1. \E i \in 1..Len(fleet) : fleet[i] = n BY <1>2
  <2> QED BY <1>1, <2>1 DEF Position
<1> QED BY <1>2, <1>3, <1>4

\* Appending a new id, and removing one, keep the keys distinct
\* (local_register_node and local_unregister_node, state.py).
LEMMA FleetGrows ==
    ASSUME FleetInv, NEW n \in Node \ Member, fleet' = Append(fleet, n)
    PROVE  /\ fleet' \in Seq(Node)
           /\ \A i, j \in 1..Len(fleet') : fleet'[i] = fleet'[j] => i = j
           /\ Member' = Member \cup {n}
<1> DEFINE s == fleet
           t == Append(fleet, n)
<1>1. /\ s \in Seq(Node) /\ Len(s) \in Nat /\ t \in Seq(Node) /\ Len(t) = Len(s) + 1
      /\ \A i \in 1..Len(s) : t[i] = s[i]
      /\ t[Len(s) + 1] = n
  BY LenProperties, AppendProperties DEF FleetInv
<1>2. \A i, j \in 1..Len(s) : s[i] = s[j] => i = j
  BY DEF FleetInv
<1>3. Member = {s[i] : i \in 1..Len(s)} /\ Member' = {t[i] : i \in 1..Len(t)}
  BY <1>1, RangeEquality DEF Member
<1>4. fleet' = t OBVIOUS
<1> HIDE DEF s, t
<1>5. \A i, j \in 1..Len(t) : t[i] = t[j] => i = j
  BY <1>1, <1>2, <1>3
<1>6. Member' = Member \cup {n}
  <2>1. \A i \in 1..Len(t) : i = Len(s) + 1 \/ i \in 1..Len(s) BY <1>1
  <2>2. \A i \in 1..Len(s) : i \in 1..Len(t) BY <1>1
  <2>3. Len(s) + 1 \in 1..Len(t) BY <1>1
  <2> QED BY <1>1, <1>3, <2>1, <2>2, <2>3
<1> QED BY <1>1, <1>4, <1>5, <1>6

LEMMA FleetShrinks ==
    ASSUME FleetInv, NEW n \in Member, fleet' = RemoveAt(fleet, Position(n))
    PROVE  /\ fleet' \in Seq(Node)
           /\ \A i, j \in 1..Len(fleet') : fleet'[i] = fleet'[j] => i = j
           /\ Member' \subseteq Member \ {n}
<1> DEFINE s == fleet
           k == Position(n)
           a == SubSeq(s, 1, k - 1)
           b == SubSeq(s, k + 1, Len(s))
           t == a \o b
<1>1. /\ s \in Seq(Node) /\ Len(s) \in Nat /\ \A i \in 1..Len(s) : s[i] \in Node
      /\ k \in 1..Len(s) /\ s[k] = n
  BY FleetFacts, LenProperties, ElementOfSeq DEF FleetInv
<1>2. \A i, j \in 1..Len(s) : s[i] = s[j] => i = j
  BY DEF FleetInv
<1>3. Member = {s[i] : i \in 1..Len(s)}
  BY <1>1, RangeEquality DEF Member
<1>4. fleet' = t BY DEF RemoveAt
<1> HIDE DEF s, k
<1>5. a \in Seq(Node) /\ Len(a) = k - 1 /\ \A i \in 1..k - 1 : a[i] = s[i]
  <2>1. 1 \in Int /\ k - 1 \in Int /\ \A i \in 1..k - 1 : s[i] \in Node BY <1>1
  <2>2. /\ a \in Seq(Node)
        /\ Len(a) = IF 1 <= k - 1 THEN k - 1 - 1 + 1 ELSE 0
        /\ \A i \in 1..(k - 1) - 1 + 1 : a[i] = s[1 + i - 1]
    BY <2>1, SubSeqProperties
  <2> HIDE DEF a
  <2> QED BY <1>1, <2>2
<1>6. b \in Seq(Node) /\ Len(b) = Len(s) - k /\ \A i \in 1..Len(s) - k : b[i] = s[k + i]
  <2>1. k + 1 \in Int /\ Len(s) \in Int /\ \A i \in k + 1..Len(s) : s[i] \in Node BY <1>1
  <2>2. /\ b \in Seq(Node)
        /\ Len(b) = IF k + 1 <= Len(s) THEN Len(s) - (k + 1) + 1 ELSE 0
        /\ \A i \in 1..Len(s) - (k + 1) + 1 : b[i] = s[k + 1 + i - 1]
    BY <2>1, SubSeqProperties
  <2> HIDE DEF b
  <2> QED BY <1>1, <2>2
<1> HIDE DEF a, b
<1>7. /\ t \in Seq(Node) /\ Len(t) = Len(a) + Len(b)
      /\ \A i \in 1..Len(a) + Len(b) : t[i] = IF i <= Len(a) THEN a[i] ELSE b[i - Len(a)]
  BY <1>5, <1>6, ConcatProperties
<1>8. Member' = {t[i] : i \in 1..Len(t)}
  BY <1>4, <1>7, RangeEquality DEF Member
<1> HIDE DEF t
<1>9. \A i \in 1..Len(t) : \/ i < k /\ t[i] = s[i]
                           \/ i >= k /\ i + 1 \in 1..Len(s) /\ t[i] = s[i + 1]
  <2> SUFFICES ASSUME NEW i \in 1..Len(t)
               PROVE  \/ i < k /\ t[i] = s[i]
                      \/ i >= k /\ i + 1 \in 1..Len(s) /\ t[i] = s[i + 1]
    OBVIOUS
  <2>1. CASE i < k BY <1>1, <1>5, <1>6, <1>7, <2>1
  <2>2. CASE i >= k
    <3> DEFINE j == i - (k - 1)
    <3>1. j \in 1..Len(s) - k /\ k + j = i + 1 BY <1>1, <1>5, <1>6, <1>7, <2>2
    <3>2. t[i] = b[j] BY <1>1, <1>5, <1>6, <1>7, <2>2
    <3> HIDE DEF j
    <3> QED BY <1>1, <1>6, <2>2, <3>1, <3>2
  <2> QED BY <1>1, <2>1, <2>2
<1>10. Len(t) = Len(s) - 1 BY <1>1, <1>5, <1>6, <1>7
<1>11. \A i, j \in 1..Len(t) : t[i] = t[j] => i = j
  BY <1>1, <1>2, <1>9, <1>10
<1>12. \A i \in 1..Len(t) : t[i] # n /\ t[i] \in Member
  BY <1>1, <1>2, <1>3, <1>9, <1>10
<1> QED BY <1>4, <1>7, <1>8, <1>11, <1>12

LEMMA FleetStep == FleetInv /\ [Next]_vars => FleetInv'
<1> SUFFICES ASSUME FleetInv, [Next]_vars PROVE FleetInv' OBVIOUS
<1>0. Payload \subseteq Profile BY PlacementAssumption DEF Profile
<1>1. ASSUME NEW n \in Node, NEW q \in Payload, Register(n, q) PROVE FleetInv'
  <2>1. n \in Node \ Member /\ fleet' = Append(fleet, n) BY <1>1 DEF Register
  <2>2. /\ fleet' \in Seq(Node)
        /\ \A i, j \in 1..Len(fleet') : fleet'[i] = fleet'[j] => i = j
        /\ Member' = Member \cup {n}
    BY <2>1, FleetGrows
  <2>3. payload' = [payload EXCEPT ![n] = q] /\ beat' = beat /\ seen' = seen
    BY <1>1 DEF Register
  <2>4. payload' \in [Node -> Profile \cup {Absent}] BY <1>0, <2>3 DEF FleetInv
  <2>5. \A x \in Member' : payload'[x] \in Profile
    BY <1>0, <2>2, <2>3, FleetFacts DEF FleetInv
  <2> QED BY <2>2, <2>3, <2>4, <2>5 DEF FleetInv
<1>2. ASSUME NEW n \in Node, Unregister(n) PROVE FleetInv'
  <2>1. n \in Member /\ fleet' = RemoveAt(fleet, Position(n)) BY <1>2 DEF Unregister
  <2>2. /\ fleet' \in Seq(Node)
        /\ \A i, j \in 1..Len(fleet') : fleet'[i] = fleet'[j] => i = j
        /\ Member' \subseteq Member \ {n}
    BY <2>1, FleetShrinks
  <2>3. /\ payload' = [payload EXCEPT ![n] = Absent]
        /\ beat' = [beat EXCEPT ![n] = Absent]
        /\ seen' = [seen EXCEPT ![n] = Missing]
    BY <1>2 DEF Unregister
  <2>4. payload' \in [Node -> Profile \cup {Absent}] BY <2>3 DEF FleetInv
  <2>5. beat' \in [Node -> Beat \cup {Absent}] BY <2>3 DEF FleetInv
  <2>6. seen' \in [Node -> Cpu \cup {Missing}] BY <2>3 DEF FleetInv
  <2>7. \A x \in Member' : payload'[x] \in Profile
    BY <2>2, <2>3, FleetFacts DEF FleetInv
  <2> QED BY <2>2, <2>4, <2>5, <2>6, <2>7 DEF FleetInv
<1>3. ASSUME NEW n \in Node, NEW models \in SUBSET Model, SetAvailableModels(n, models)
      PROVE  FleetInv'
  <2>1. /\ payload' = [payload EXCEPT ![n].models = models]
        /\ fleet' = fleet /\ beat' = beat /\ seen' = seen /\ n \in Member
    BY <1>3 DEF SetAvailableModels, load
  <2>2. [payload[n] EXCEPT !.models = models] \in Profile
    BY <2>1 DEF FleetInv, Profile
  <2>3. payload' = [payload EXCEPT ![n] = [payload[n] EXCEPT !.models = models]]
    BY <2>1 DEF FleetInv
  <2>4. payload' \in [Node -> Profile \cup {Absent}] BY <2>2, <2>3 DEF FleetInv
  <2>5. Member' = Member BY <2>1 DEF Member
  <2>6. \A x \in Member' : payload'[x] \in Profile
    BY <2>2, <2>3, <2>5, FleetFacts DEF FleetInv
  <2> QED BY <2>1, <2>4, <2>6 DEF FleetInv
<1>4. ASSUME NEW n \in Node, NEW b \in Beat, UpdateHeartbeat(n, b) PROVE FleetInv'
  BY <1>4 DEF UpdateHeartbeat, FleetInv, Member
<1>5. ASSUME NEW n \in Node, NEW c \in Cpu, MapTelemetry(n, c) PROVE FleetInv'
  BY <1>5 DEF MapTelemetry, FleetInv, Member, registry
<1>6. ASSUME NEW n \in Node, NEW passed, RecordCanary(n, passed) PROVE FleetInv'
  BY <1>6 DEF RecordCanary, FleetInv, Member, registry, load
<1>7. ASSUME NEW n \in Node, Restitch(n) PROVE FleetInv'
  BY <1>7 DEF Restitch, FleetInv, Member, registry, load
<1>8. ASSUME NEW m, SelectNode(m) PROVE FleetInv'
  BY <1>8 DEF SelectNode, FleetInv, Member, registry
<1>9. ASSUME NEW m, NEW need, ScheduleTask(m, need) PROVE FleetInv'
  BY <1>9 DEF ScheduleTask, FleetInv, Member, registry
<1>10. ASSUME NEW m, NEW layers, NEW per, NEW stages, SchedulePipeline(m, layers, per, stages)
       PROVE  FleetInv'
  <2>1. UNCHANGED registry /\ seen' = seen BY <1>10 DEF SchedulePipeline
  <2> QED BY <2>1 DEF FleetInv, Member, registry
<1>11. ASSUME NEW m, NEW layers, NEW asked, ScheduleSplit(m, layers, asked) PROVE FleetInv'
  <2>1. UNCHANGED registry /\ seen' = seen BY <1>11 DEF ScheduleSplit
  <2> QED BY <2>1 DEF FleetInv, Member, registry
<1>12. CASE UNCHANGED vars
  BY <1>12 DEF vars, registry, load, FleetInv, Member
<1> QED
  BY <1>1, <1>2, <1>3, <1>4, <1>5, <1>6, <1>7, <1>8, <1>9, <1>10, <1>11, <1>12 DEF Next

-----------------------------------------------------------------------------
(***************************************************************************)
(* What the engine ranks is what it may charge                             *)
(***************************************************************************)

LEMMA FiguresStart == Init => FleetInv /\ LoadInv
  BY EmptySeq DEF Init, FleetInv, LoadInv, Member, Nothing, Missing, Range

\* Every figure score_nodes and filter_nodes read of a member is a number.
LEMMA FiguresTyped ==
    ASSUME FleetInv, LoadInv, NEW n \in Member
    PROVE  QueueDepth(n) \in Nat /\ CpuLoad(n) \in Nat /\ Fitness(n) \in Int
           /\ FreeMemory(n) \in Nat
<1>1. n \in Node BY FleetFacts
<1>2. /\ depth[n] \in Nat \cup {Missing} /\ seen[n] \in Cpu \cup {Missing}
      /\ beat[n] \in Beat \cup {Absent} /\ payload[n] \in Profile
  BY <1>1 DEF FleetInv, LoadInv
<1>3. Cpu \subseteq Nat
      /\ \A b \in Beat : b.queue \in Nat /\ b.cpu \in Nat /\ b.free \in Nat
  BY PlacementAssumption
<1>4. QueueDepth(n) \in Nat BY <1>2, <1>3 DEF QueueDepth
<1>5. CpuLoad(n) \in Nat BY <1>2, <1>3 DEF CpuLoad
<1>6. FreeMemory(n) \in Nat BY <1>2, <1>3 DEF FreeMemory, Profile
<1>7. Fitness(n) \in Int BY <1>4, <1>5 DEF Fitness
<1> QED BY <1>4, <1>5, <1>6, <1>7

\* The ranking lists exactly the nodes it is given: one of them at each place,
\* none twice, and none fitter than the one at the first place.
LEMMA RankedFacts ==
    ASSUME FleetInv, LoadInv, NEW S \in SUBSET Member
    PROVE  /\ Cardinality(S) \in Nat
           /\ Len(Ranked(S)) = Cardinality(S)
           /\ \A i \in 1..Len(Ranked(S)) : Ranked(S)[i] \in S
           /\ \A i, j \in 1..Len(Ranked(S)) : Ranked(S)[i] = Ranked(S)[j] => i = j
           /\ S # {} => \A x \in S : Fitness(x) <= Fitness(Ranked(S)[1])
<1> DEFINE f == [n \in S |-> 0 - Fitness(n)]
           p == [n \in S |-> Position(n)]
           B(n) == {x \in S : RanksBefore(x, n)}
           k == Cardinality(S)
           R == Ranked(S)
<1>1. IsFiniteSet(S) /\ k \in Nat
  BY FleetFacts, FS_Subset, FS_CardinalityType
<1>2. \A n \in S : Fitness(n) \in Int BY FiguresTyped
<1>3. /\ \A n \in S : Position(n) \in 1..Len(fleet)
      /\ \A x, y \in S : Position(x) = Position(y) => x = y
  BY FleetFacts
<1>4. Len(fleet) \in Nat BY LenProperties DEF FleetInv
<1>5. f \in [S -> Int] /\ p \in [S -> Int]
  BY <1>2, <1>3, <1>4
<1>6. \A x, y \in S : p[x] = p[y] => x = y BY <1>3
<1>7. \A x, y \in S : Before(f, p, x, y) <=> RanksBefore(x, y)
  BY <1>2 DEF Before, RanksBefore
<1>8. \A n \in S : {x \in S : Before(f, p, x, n)} = B(n) BY <1>7
<1>9. ASSUME NEW i \in 1..Cardinality(S) PROVE \E n \in S : Cardinality(B(n)) = i - 1
  <2> HIDE DEF f, p, B, k, R
  <2>1. IsFiniteSet(S) BY <1>1
  <2>2. \E n \in S : Cardinality({x \in S : Before(f, p, x, n)}) = i - 1
    BY <1>5, <1>6, <2>1, EveryRank
  <2> QED BY <1>8, <2>2
<1>10. R = [i \in 1..k |-> CHOOSE n \in S : Cardinality(B(n)) = i - 1]
  BY DEF Ranked
<1> HIDE DEF B, f, p, k, R
<1>11. \A i \in 1..k : R[i] \in S /\ Cardinality(B(R[i])) = i - 1
  BY <1>9, <1>10 DEF k
<1>12. Len(R) = k BY <1>1, <1>10
<1>13. \A i, j \in 1..k : R[i] = R[j] => i = j BY <1>1, <1>11
<1>14. ASSUME S # {}, NEW x \in S PROVE Fitness(x) <= Fitness(R[1])
  <2>1. k # 0 BY <1>1, <1>14, FS_EmptySet DEF k
  <2>2. R[1] \in S /\ Cardinality(B(R[1])) = 0 BY <1>1, <1>11, <2>1
  <2>3. B(R[1]) \in SUBSET S BY DEF B
  <2>4. IsFiniteSet(B(R[1])) BY <1>1, <2>3, FS_Subset
  <2>5. B(R[1]) = {} BY <2>2, <2>4, FS_EmptySet
  <2>6. ~(Fitness(x) > Fitness(R[1])) BY <2>5 DEF B, RanksBefore
  <2> QED BY <1>2, <2>2, <2>6
<1> QED BY <1>1, <1>11, <1>12, <1>13, <1>14 DEF R, k

\* The hosts of a pipeline are distinct trusted members with room for a layer.
LEMMA HostsFacts ==
    ASSUME FleetInv, LoadInv, NEW m, NEW layers \in Nat, NEW per \in Nat
    PROVE  /\ Len(Hosts(m, layers, per)) \in Nat
           /\ DOMAIN Hosts(m, layers, per) = 1..Len(Hosts(m, layers, per))
           /\ \A i \in 1..Len(Hosts(m, layers, per)) :
                 /\ Hosts(m, layers, per)[i] \in Member \ quarantined
                 /\ Capacity(Hosts(m, layers, per)[i], layers, per) \in Nat \ {0}
           /\ \A i, j \in 1..Len(Hosts(m, layers, per)) :
                 Hosts(m, layers, per)[i] = Hosts(m, layers, per)[j] => i = j
<1> DEFINE S == {n \in Eligible(m, 0) : Capacity(n, layers, per) > 0}
<1>1. S \in SUBSET Member BY DEF Eligible
<1>2. ASSUME NEW n \in S PROVE n \in Member \ quarantined /\ Capacity(n, layers, per) \in Nat \ {0}
  <2>1. n \in Member \ quarantined /\ Capacity(n, layers, per) > 0 BY DEF Eligible
  <2>2. FreeMemory(n) \in Nat BY <2>1, FiguresTyped
  <2>3. Capacity(n, layers, per) \in Int BY <2>2 DEF Capacity
  <2> QED BY <2>1, <2>3
<1>3. Hosts(m, layers, per) = Ranked(S) BY DEF Hosts
<1> HIDE DEF S
<1>4. /\ Cardinality(S) \in Nat
      /\ Len(Ranked(S)) = Cardinality(S)
      /\ \A i \in 1..Len(Ranked(S)) : Ranked(S)[i] \in S
      /\ \A i, j \in 1..Len(Ranked(S)) : Ranked(S)[i] = Ranked(S)[j] => i = j
  BY <1>1, RankedFacts
<1>5. DOMAIN Ranked(S) = 1..Cardinality(S) BY DEF Ranked
<1> QED BY <1>2, <1>3, <1>4, <1>5

\* However the layers are partitioned, the i-th stage is the i-th host's
\* (schedule_pipeline and schedule_split_inference_pipeline, engine.py).
LEMMA GreedyDomain ==
    ASSUME NEW layers, NEW caps, Len(caps) \in Nat
    PROVE  \E u \in Nat : u <= Len(caps) /\ DOMAIN Greedy(layers, caps) = 1..u
<1> DEFINE k == Len(caps)
<1>1. PICK U \in SUBSET (1..k) : DOMAIN Greedy(layers, caps) = 1..Cardinality(U)
  BY DEF Greedy
<1>2. 1 \in Int /\ k \in Int OBVIOUS
<1> HIDE DEF k
<1>3. IsFiniteSet(1..k) /\ Cardinality(1..k) = IF 1 > k THEN 0 ELSE k - 1 + 1
  BY <1>2, FS_Interval
<1>4. IsFiniteSet(U) /\ Cardinality(U) <= Cardinality(1..k) BY <1>3, FS_Subset
<1>5. Cardinality(U) \in Nat BY <1>4, FS_CardinalityType
<1>6. k \in Nat BY DEF k
<1>7. Cardinality(U) <= k BY <1>3, <1>4, <1>5, <1>6
<1> QED BY <1>1, <1>5, <1>7 DEF k

LEMMA StagesOnHosts ==
    ASSUME NEW hosts, NEW counts, NEW caps, NEW from
    PROVE  /\ DOMAIN Stages(hosts, counts, caps, from) = DOMAIN counts
           /\ \A i \in DOMAIN counts : Stages(hosts, counts, caps, from)[i].node = hosts[i]
  BY DEF Stages

\* No step charges a node that is quarantined or gone.
LEMMA TrustedStep ==
    ASSUME FleetInv, LoadInv, [Next]_vars, NEW n \in Node, charged'[n] > charged[n]
    PROVE  n \in Member \ quarantined
<1> USE DEF ledger
<1>0. charged \in [Node -> Nat] /\ charged[n] \in Nat BY DEF LoadInv
<1>1. ASSUME NEW x \in Node, NEW q \in Payload, Register(x, q) PROVE FALSE
  BY <1>0, <1>1 DEF Register
<1>2. ASSUME NEW x \in Node, Unregister(x) PROVE FALSE
  BY <1>0, <1>2 DEF Unregister
<1>3. ASSUME NEW x \in Node, NEW models, SetAvailableModels(x, models) PROVE FALSE
  BY <1>0, <1>3 DEF SetAvailableModels
<1>4. ASSUME NEW x \in Node, NEW b \in Beat, UpdateHeartbeat(x, b) PROVE FALSE
  BY <1>0, <1>4 DEF UpdateHeartbeat
<1>5. ASSUME NEW x \in Node, NEW c \in Cpu, MapTelemetry(x, c) PROVE FALSE
  BY <1>0, <1>5 DEF MapTelemetry
<1>6. ASSUME NEW x \in Node, NEW passed, RecordCanary(x, passed) PROVE FALSE
  BY <1>0, <1>6 DEF RecordCanary
<1>7. ASSUME NEW x \in Node, Restitch(x) PROVE FALSE
  BY <1>0, <1>7 DEF Restitch
<1>8. ASSUME NEW m, SelectNode(m) PROVE FALSE
  BY <1>0, <1>8 DEF SelectNode
<1>9. ASSUME NEW m, NEW need, ScheduleTask(m, need) PROVE n \in Member \ quarantined
  <2> DEFINE S == Eligible(m, need)
             t == Ranked(S)[1]
  <2>1. S # {} /\ charged' = [charged EXCEPT ![t] = @ + 1]
    BY <1>9 DEF ScheduleTask
  <2>2. S \in SUBSET Member /\ S \cap quarantined = {} BY DEF Eligible
  <2> HIDE DEF S
  <2>3. /\ Cardinality(S) \in Nat /\ Len(Ranked(S)) = Cardinality(S)
        /\ \A i \in 1..Len(Ranked(S)) : Ranked(S)[i] \in S
    BY <2>2, RankedFacts
  <2>4. Cardinality(S) # 0 BY <2>1, <2>2, FleetFacts, FS_Subset, FS_EmptySet
  <2>5. t \in S BY <2>3, <2>4
  <2> HIDE DEF t
  <2>6. n = t BY <1>0, <2>1
  <2> QED BY <2>2, <2>5, <2>6
<1>10. ASSUME NEW m, NEW layers \in Layers, NEW per \in PerLayer, NEW stages \in StageCounts,
              SchedulePipeline(m, layers, per, stages)
       PROVE  n \in Member \ quarantined
  <2> DEFINE hosts == Hosts(m, layers, per)
             caps == [i \in DOMAIN hosts |-> Capacity(hosts[i], layers, per)]
             counts == IF stages > 0 THEN Even(layers, stages) ELSE Greedy(layers, caps)
             all == Stages(hosts, counts, caps, 0)
             built == Built(all)
  <2>1. /\ Placeable(hosts, caps, layers, stages)
        /\ charged' = Counted(charged, NodesOf(built)) \/ charged' = charged
    BY <1>10 DEF SchedulePipeline
  <2>2. layers \in Nat /\ per \in Nat /\ stages \in Nat BY PlacementAssumption
  <2>3. /\ Len(hosts) \in Nat /\ DOMAIN hosts = 1..Len(hosts)
        /\ \A i \in 1..Len(hosts) : hosts[i] \in Member \ quarantined
    BY <2>2, HostsFacts
  <2> HIDE DEF hosts
  <2>4. Len(caps) = Len(hosts) BY <2>3
  <2> HIDE DEF caps
  <2>5. DOMAIN counts \subseteq 1..Len(hosts)
    <3>1. CASE stages > 0
      <4>1. DOMAIN counts = 1..stages /\ Len(hosts) >= stages
        BY <2>1, <3>1 DEF Even, Placeable
      <4> QED BY <2>2, <2>3, <4>1
    <3>2. CASE ~(stages > 0)
      <4>1. PICK u \in Nat : u <= Len(caps) /\ DOMAIN Greedy(layers, caps) = 1..u
        BY <2>3, <2>4, GreedyDomain
      <4> QED BY <2>3, <2>4, <3>2, <4>1
    <3> QED BY <3>1, <3>2
  <2> HIDE DEF counts
  <2>6. DOMAIN all = DOMAIN counts /\ \A i \in DOMAIN counts : all[i].node = hosts[i]
    BY StagesOnHosts
  <2> HIDE DEF all
  <2>7. NodesOf(built) \subseteq Member \ quarantined
    <3>1. DOMAIN built \subseteq DOMAIN all /\ \A i \in DOMAIN built : built[i] = all[i]
      BY DEF Built
    <3> HIDE DEF built
    <3> QED BY <2>3, <2>5, <2>6, <3>1 DEF NodesOf
  <2> HIDE DEF built
  <2>8. n \in NodesOf(built) BY <1>0, <2>1 DEF Counted
  <2> QED BY <2>7, <2>8
<1>11. ASSUME NEW m, NEW layers \in Layers, NEW asked \in PerLayer, ScheduleSplit(m, layers, asked)
       PROVE  n \in Member \ quarantined
  <2> DEFINE per == IF asked = 0 THEN DefaultPerLayer ELSE asked
             rest == layers - 1
             hosts == Hosts(m, rest, per)
             caps == [i \in DOMAIN hosts |-> Capacity(hosts[i], rest, per)]
             counts == Greedy(rest, caps)
             middle == Stages(hosts, counts, caps, 1)
  <2>1. charged' = Counted(charged, NodesOf(middle)) \/ charged' = charged
    BY <1>11 DEF ScheduleSplit
  <2>2. rest \in Nat /\ per \in Nat BY PlacementAssumption DEF DefaultPerLayer
  <2> HIDE DEF rest, per
  <2>3. /\ Len(hosts) \in Nat /\ DOMAIN hosts = 1..Len(hosts)
        /\ \A i \in 1..Len(hosts) : hosts[i] \in Member \ quarantined
    BY <2>2, HostsFacts
  <2> HIDE DEF hosts
  <2>4. Len(caps) = Len(hosts) BY <2>3
  <2> HIDE DEF caps
  <2>5. DOMAIN counts \subseteq 1..Len(hosts)
    <3>1. PICK u \in Nat : u <= Len(caps) /\ DOMAIN Greedy(rest, caps) = 1..u
      BY <2>3, <2>4, GreedyDomain
    <3> QED BY <2>3, <2>4, <3>1
  <2> HIDE DEF counts
  <2>6. DOMAIN middle = DOMAIN counts /\ \A i \in DOMAIN counts : middle[i].node = hosts[i]
    BY StagesOnHosts
  <2> HIDE DEF middle
  <2>7. n \in NodesOf(middle) BY <1>0, <2>1 DEF Counted
  <2> QED BY <2>3, <2>5, <2>6, <2>7 DEF NodesOf
<1>12. CASE UNCHANGED vars
  BY <1>0, <1>12 DEF vars
<1> QED
  BY <1>1, <1>2, <1>3, <1>4, <1>5, <1>6, <1>7, <1>8, <1>9, <1>10, <1>11, <1>12 DEF Next

\* Every task, and every stage of every pipeline, goes to a registered node that
\* is not quarantined, whatever the partition (schedule_task, schedule_pipeline and
\* schedule_split_inference_pipeline, engine.py).
THEOREM TrustedAreCharged == Spec => OnlyTrustedCharged
<1>1. Init => FleetInv /\ LoadInv BY FiguresStart
<1>2. FleetInv /\ LoadInv /\ [Next]_vars =>
        [\A n \in Node : charged'[n] > charged[n] => n \in Member \ quarantined]_vars
  BY TrustedStep
<1> QED BY <1>1, <1>2, FleetStep, LoadStep, PTL DEF Spec, OnlyTrustedCharged

-----------------------------------------------------------------------------
(***************************************************************************)
(* Bursts                                                                  *)
(***************************************************************************)

\* What a burst knows after one more choice (Grown): a burst for another demand
\* is forgotten, one for the same demand counts on.
LEMMA GrownFacts ==
    ASSUME NEW burst, burst.of \in [Node -> Nat], NEW demand, NEW n \in Node
    PROVE  /\ Grown(burst, demand, n).for = demand
           /\ Grown(burst, demand, n).of \in [Node -> Nat]
           /\ \A x \in Node \ {n} :
                 Grown(burst, demand, n).of[x] > 0 => burst.for = demand /\ burst.of[x] > 0
<1> DEFINE before == IF burst.for = demand THEN burst.of ELSE Nothing
<1>1. before \in [Node -> Nat] BY DEF Nothing
<1>2. /\ Grown(burst, demand, n).for = demand
      /\ Grown(burst, demand, n).of = [before EXCEPT ![n] = @ + 1]
  BY DEF Grown
<1>3. \A x \in Node : before[x] > 0 => burst.for = demand /\ burst.of[x] > 0
  BY DEF Nothing
<1> HIDE DEF before
<1> QED BY <1>1, <1>2, <1>3

TaskWeight(n) == 30 * (charged[n] + orphaned[n]) + CpuLoad(n)

\* The inductive form of TasksSpread: with what the rankings read
TaskInv ==
    /\ FleetInv
    /\ LoadInv
    /\ tasks.of \in [Node -> Nat]
    /\ TasksSpread

\* Every step but schedule_task's own ends its burst.
LEMMA OthersEndTasks ==
    ASSUME [Next]_vars
    PROVE  \/ \E m \in Model \cup {AnyModel}, need \in Needs : ScheduleTask(m, need)
           \/ tasks' = Idle
           \/ UNCHANGED vars
<1> USE DEF NoBurst
<1>1. ASSUME NEW n \in Node, NEW q \in Payload, Register(n, q) PROVE tasks' = Idle
  BY <1>1 DEF Register
<1>2. ASSUME NEW n \in Node, Unregister(n) PROVE tasks' = Idle BY <1>2 DEF Unregister
<1>3. ASSUME NEW n \in Node, NEW models, SetAvailableModels(n, models) PROVE tasks' = Idle
  BY <1>3 DEF SetAvailableModels
<1>4. ASSUME NEW n \in Node, NEW b \in Beat, UpdateHeartbeat(n, b) PROVE tasks' = Idle
  BY <1>4 DEF UpdateHeartbeat
<1>5. ASSUME NEW n \in Node, NEW c \in Cpu, MapTelemetry(n, c) PROVE tasks' = Idle
  BY <1>5 DEF MapTelemetry
<1>6. ASSUME NEW n \in Node, NEW passed, RecordCanary(n, passed) PROVE tasks' = Idle
  BY <1>6 DEF RecordCanary
<1>7. ASSUME NEW n \in Node, Restitch(n) PROVE tasks' = Idle BY <1>7 DEF Restitch
<1>8. ASSUME NEW m, SelectNode(m) PROVE tasks' = Idle BY <1>8 DEF SelectNode
<1>9. ASSUME NEW m, NEW layers, NEW per, NEW stages, SchedulePipeline(m, layers, per, stages)
      PROVE  tasks' = Idle
  BY <1>9 DEF SchedulePipeline
<1>10. ASSUME NEW m, NEW layers, NEW asked, ScheduleSplit(m, layers, asked)
       PROVE  tasks' = Idle
  BY <1>10 DEF ScheduleSplit
<1> QED
  BY <1>1, <1>2, <1>3, <1>4, <1>5, <1>6, <1>7, <1>8, <1>9, <1>10 DEF Next

\* One more task goes to a node no other is lighter than, and adds one task to
\* that node alone.
LEMMA TaskSpreads ==
    ASSUME \A b \in Beat : b.queue = 0, TaskInv,
           NEW m \in Model \cup {AnyModel}, NEW need \in Needs, ScheduleTask(m, need)
    PROVE  tasks'.of \in [Node -> Nat] /\ TasksSpread'
<1> DEFINE S == Eligible(m, need)
           t == Ranked(S)[1]
<1>1. /\ S # {} /\ charged' = [charged EXCEPT ![t] = @ + 1] /\ orphaned' = orphaned
      /\ tasks' = Grown(tasks, {<<m, need>>}, t)
      /\ fleet' = fleet /\ payload' = payload /\ beat' = beat /\ seen' = seen
      /\ quarantined' = quarantined
  BY DEF ScheduleTask, registry, canary
<1>2. S \in SUBSET Member /\ Eligible(m, need)' = S BY <1>1 DEF Eligible, Member, FreeMemory
<1>3. \A n \in Member : TaskWeight(n) \in Int /\ Fitness(n) = 200 - TaskWeight(n)
                        /\ CpuLoad(n) \in Nat /\ n \in Node
  <2> SUFFICES ASSUME NEW n \in Member
               PROVE  TaskWeight(n) \in Int /\ Fitness(n) = 200 - TaskWeight(n)
                      /\ CpuLoad(n) \in Nat /\ n \in Node
    OBVIOUS
  <2>1. n \in Node /\ CpuLoad(n) \in Nat BY FleetFacts, FiguresTyped DEF TaskInv
  <2>2. charged[n] \in Nat /\ orphaned[n] \in Nat /\ QueueDepth(n) = charged[n] + orphaned[n]
    BY <2>1 DEF TaskInv, LoadInv, QueueDepth
  <2> QED BY <2>1, <2>2 DEF TaskWeight, Fitness
<1> HIDE DEF S
<1>4. /\ Cardinality(S) \in Nat /\ Len(Ranked(S)) = Cardinality(S)
      /\ \A i \in 1..Len(Ranked(S)) : Ranked(S)[i] \in S
      /\ \A x \in S : Fitness(x) <= Fitness(Ranked(S)[1])
  BY <1>1, <1>2, RankedFacts DEF TaskInv
<1>5. Cardinality(S) # 0 BY <1>1, <1>2, FleetFacts, FS_Subset, FS_EmptySet DEF TaskInv
<1>6. t \in S /\ \A x \in S : Fitness(x) <= Fitness(t) BY <1>4, <1>5
<1> HIDE DEF t
<1>7. t \in Node /\ \A x \in S : TaskWeight(t) <= TaskWeight(x) BY <1>2, <1>3, <1>6
<1>8. \A n \in Member : TaskWeight(n)' = IF n = t THEN TaskWeight(n) + 30 ELSE TaskWeight(n)
  <2> SUFFICES ASSUME NEW n \in Member
               PROVE  TaskWeight(n)' = IF n = t THEN TaskWeight(n) + 30 ELSE TaskWeight(n)
    OBVIOUS
  <2>1. n \in Node /\ CpuLoad(n) \in Nat BY <1>3
  <2>2. charged[n] \in Nat /\ orphaned[n] \in Nat BY <2>1 DEF TaskInv, LoadInv
  <2>3. CpuLoad(n)' = CpuLoad(n) BY <1>1 DEF CpuLoad
  <2>4. charged'[n] = IF n = t THEN charged[n] + 1 ELSE charged[n]
    BY <1>1, <2>1 DEF TaskInv, LoadInv
  <2>5. TaskWeight(n)' = 30 * (charged'[n] + orphaned[n]) + CpuLoad(n)
    BY <1>1, <2>3 DEF TaskWeight
  <2> QED BY <2>1, <2>2, <2>4, <2>5 DEF TaskWeight
<1>9. /\ tasks'.for = {<<m, need>>} /\ tasks'.of \in [Node -> Nat]
      /\ \A x \in Node \ {t} : tasks'.of[x] > 0 => tasks.for = {<<m, need>>} /\ tasks.of[x] > 0
  <2> DEFINE d == {<<m, need>>}
  <2>1. tasks.of \in [Node -> Nat] /\ tasks' = Grown(tasks, d, t) BY <1>1 DEF TaskInv
  <2> HIDE DEF d
  <2>2. /\ Grown(tasks, d, t).for = d
        /\ Grown(tasks, d, t).of \in [Node -> Nat]
        /\ \A x \in Node \ {t} : Grown(tasks, d, t).of[x] > 0 => tasks.for = d /\ tasks.of[x] > 0
    BY <1>7, <2>1, GrownFacts
  <2> QED BY <2>1, <2>2 DEF d
<1>10. ASSUME NEW a \in S, NEW b \in S, tasks'.of[a] > 0
       PROVE  TaskWeight(a)' - 30 <= TaskWeight(b)'
  <2>1. a \in Member /\ b \in Member /\ TaskWeight(a) \in Int /\ TaskWeight(b) \in Int
        /\ a \in Node
    BY <1>2, <1>3
  <2>2. CASE a = t BY <1>7, <1>8, <2>1, <2>2
  <2>3. CASE a # t
    <3>1. tasks.for = {<<m, need>>} /\ tasks.of[a] > 0 BY <1>9, <1>10, <2>1, <2>3
    <3>2. TaskWeight(a) - 30 <= TaskWeight(b)
      BY <3>1 DEF TaskInv, TasksSpread, TaskWeight, S
    <3> QED BY <1>8, <2>1, <2>3, <3>2
  <2> QED BY <2>2, <2>3
<1>11. ASSUME NEW m2 \in Model \cup {AnyModel}, NEW need2 \in Needs, tasks'.for = {<<m2, need2>>}
       PROVE  m2 = m /\ need2 = need
  <2>1. <<m, need>> \in {<<m2, need2>>} BY <1>9, <1>11
  <2> QED BY <2>1
<1>12. TasksSpread'
  <2> SUFFICES ASSUME NEW m2 \in Model \cup {AnyModel}, NEW need2 \in Needs,
                      tasks'.for = {<<m2, need2>>},
                      NEW a \in Eligible(m2, need2)', NEW b \in Eligible(m2, need2)',
                      tasks'.of[a] > 0
               PROVE  TaskWeight(a)' - 30 <= TaskWeight(b)'
    BY DEF TasksSpread, TaskWeight
  <2> QED BY <1>2, <1>10, <1>11
<1> QED BY <1>9, <1>12

LEMMA TaskStep ==
    ASSUME \A b \in Beat : b.queue = 0, TaskInv, [Next]_vars
    PROVE  TaskInv'
<1>1. FleetInv' /\ LoadInv' BY FleetStep, LoadStep DEF TaskInv
<1>2. tasks'.of \in [Node -> Nat] /\ TasksSpread'
  <2>1. CASE \E m \in Model \cup {AnyModel}, need \in Needs : ScheduleTask(m, need)
    BY <2>1, TaskSpreads
  <2>2. CASE tasks' = Idle BY <2>2 DEF Idle, Nothing, TasksSpread
  <2>3. CASE UNCHANGED vars
    <3>1. /\ tasks' = tasks /\ charged' = charged /\ orphaned' = orphaned
          /\ fleet' = fleet /\ payload' = payload /\ beat' = beat /\ seen' = seen
          /\ quarantined' = quarantined
      BY <2>3 DEF vars, registry, load, canary, ledger
    <3> QED BY <3>1 DEF TaskInv, TasksSpread, Eligible, CpuLoad, FreeMemory, Member
  <2> QED BY <2>1, <2>2, <2>3, OthersEndTasks
<1> QED BY <1>1, <1>2 DEF TaskInv

\* A burst of tasks spreads over the nodes that may take them: none is ahead of
\* another by more than the task it was last given (schedule_task tracks the depth
\* it ranks by at once), as long as heartbeats report an empty queue.
THEOREM TasksAreSpread ==
    ASSUME \A b \in Beat : b.queue = 0
    PROVE  Spec => []TasksSpread
<1>1. Init => TaskInv
  <2>1. Idle.for = {} /\ Idle.of \in [Node -> Nat] BY DEF Idle, Nothing
  <2>2. Init => tasks = Idle BY DEF Init
  <2>3. tasks = Idle => TasksSpread BY <2>1 DEF TasksSpread
  <2> QED BY <2>1, <2>2, <2>3, FiguresStart DEF TaskInv
<1>2. TaskInv /\ [Next]_vars => TaskInv' BY TaskStep
<1>3. TaskInv => TasksSpread BY DEF TaskInv
<1> QED BY <1>1, <1>2, <1>3, PTL DEF Spec

\* The inductive form of BurstSpreads: the dampener counts the choices since the
\* node's report, so the score select_node takes the least of is the weight.
BurstInv ==
    /\ FleetInv
    /\ dampener \in [Node -> Nat]
    /\ chosen = dampener
    /\ picks.of \in [Node -> Nat]
    /\ BurstSpreads

LEMMA DampenerStep ==
    ASSUME dampener \in [Node -> Nat], chosen = dampener, [Next]_vars
    PROVE  dampener' \in [Node -> Nat] /\ chosen' = dampener'
<1> DEFINE Goal == dampener' \in [Node -> Nat] /\ chosen' = dampener'
<1> USE DEF load, ledger
<1>1. ASSUME NEW n \in Node, NEW q \in Payload, Register(n, q) PROVE Goal
  BY <1>1 DEF Register
<1>2. ASSUME NEW n \in Node, Unregister(n) PROVE Goal BY <1>2 DEF Unregister
<1>3. ASSUME NEW n \in Node, NEW models, SetAvailableModels(n, models) PROVE Goal
  BY <1>3 DEF SetAvailableModels
<1>4. ASSUME NEW n \in Node, NEW b \in Beat, UpdateHeartbeat(n, b) PROVE Goal
  BY <1>4 DEF UpdateHeartbeat
<1>5. ASSUME NEW n \in Node, NEW c \in Cpu, MapTelemetry(n, c) PROVE Goal
  BY <1>5 DEF MapTelemetry
<1>6. ASSUME NEW n \in Node, NEW passed, RecordCanary(n, passed) PROVE Goal
  BY <1>6 DEF RecordCanary
<1>7. ASSUME NEW n \in Node, Restitch(n) PROVE Goal BY <1>7 DEF Restitch
<1>8. ASSUME NEW m, SelectNode(m) PROVE Goal
  <2> DEFINE n == Selected(m)
  <2>1. dampener' = [dampener EXCEPT ![n] = @ + 1] /\ chosen' = [chosen EXCEPT ![n] = @ + 1]
    BY <1>8 DEF SelectNode, Damped
  <2> HIDE DEF n
  <2>2. chosen' = dampener' BY <2>1
  <2>3. dampener' \in [Node -> Nat]
    <3>1. CASE n \in Node BY <2>1, <3>1
    <3>2. CASE n \notin Node BY <2>1, <3>2
    <3> QED BY <3>1, <3>2
  <2> QED BY <2>2, <2>3
<1>9. ASSUME NEW m, NEW need, ScheduleTask(m, need) PROVE Goal BY <1>9 DEF ScheduleTask
<1>10. ASSUME NEW nodes, Charge(nodes), chosen' = Counted(chosen, nodes) PROVE Goal
  BY <1>10 DEF Charge, Counted
<1>11. ASSUME NEW m, NEW layers, NEW per, NEW stages, SchedulePipeline(m, layers, per, stages)
       PROVE  Goal
  <2>1. PICK nodes : Charge(nodes) /\ chosen' = Counted(chosen, nodes)
    BY <1>11 DEF SchedulePipeline
  <2> QED BY <1>10, <2>1
<1>12. ASSUME NEW m, NEW layers, NEW asked, ScheduleSplit(m, layers, asked) PROVE Goal
  <2>1. PICK nodes : Charge(nodes) /\ chosen' = Counted(chosen, nodes)
    BY <1>12 DEF ScheduleSplit
  <2> QED BY <1>10, <2>1
<1>13. CASE UNCHANGED vars BY <1>13 DEF vars
<1> QED
  BY <1>1, <1>2, <1>3, <1>4, <1>5, <1>6, <1>7, <1>8, <1>9, <1>11, <1>12, <1>13 DEF Next

\* Every step but select_node's own ends its burst.
LEMMA OthersEndPicks ==
    ASSUME [Next]_vars
    PROVE  (\E m \in Model : SelectNode(m)) \/ picks' = Idle \/ UNCHANGED vars
<1> USE DEF NoBurst
<1>1. ASSUME NEW n \in Node, NEW q \in Payload, Register(n, q) PROVE picks' = Idle
  BY <1>1 DEF Register
<1>2. ASSUME NEW n \in Node, Unregister(n) PROVE picks' = Idle BY <1>2 DEF Unregister
<1>3. ASSUME NEW n \in Node, NEW models, SetAvailableModels(n, models) PROVE picks' = Idle
  BY <1>3 DEF SetAvailableModels
<1>4. ASSUME NEW n \in Node, NEW b \in Beat, UpdateHeartbeat(n, b) PROVE picks' = Idle
  BY <1>4 DEF UpdateHeartbeat
<1>5. ASSUME NEW n \in Node, NEW c \in Cpu, MapTelemetry(n, c) PROVE picks' = Idle
  BY <1>5 DEF MapTelemetry
<1>6. ASSUME NEW n \in Node, NEW passed, RecordCanary(n, passed) PROVE picks' = Idle
  BY <1>6 DEF RecordCanary
<1>7. ASSUME NEW n \in Node, Restitch(n) PROVE picks' = Idle BY <1>7 DEF Restitch
<1>8. ASSUME NEW m, NEW need, ScheduleTask(m, need) PROVE picks' = Idle BY <1>8 DEF ScheduleTask
<1>9. ASSUME NEW m, NEW layers, NEW per, NEW stages, SchedulePipeline(m, layers, per, stages)
      PROVE  picks' = Idle
  BY <1>9 DEF SchedulePipeline
<1>10. ASSUME NEW m, NEW layers, NEW asked, ScheduleSplit(m, layers, asked)
       PROVE  picks' = Idle
  BY <1>10 DEF ScheduleSplit
<1> QED
  BY <1>1, <1>2, <1>3, <1>4, <1>5, <1>6, <1>7, <1>8, <1>9, <1>10 DEF Next

PickWeight(n) == ReportedLoad(n) + 100 * chosen[n]

\* One more choice takes a node no other is lighter than, and adds one dampener
\* step to that node alone.
LEMMA PickSpreads ==
    ASSUME BurstInv, NEW m \in Model, SelectNode(m)
    PROVE  picks'.of \in [Node -> Nat] /\ BurstSpreads'
<1> DEFINE S == Selectable(m)
           t == Selected(m)
<1>1. /\ S # {} /\ chosen' = [chosen EXCEPT ![t] = @ + 1]
      /\ picks' = Grown(picks, {m}, t)
      /\ fleet' = fleet /\ payload' = payload /\ beat' = beat
  BY DEF SelectNode, registry
<1>2. S \in SUBSET Member /\ Selectable(m)' = S BY <1>1 DEF Selectable, Member
<1>3. \A n \in S : n \in Node /\ ReportedLoad(n) \in Int /\ chosen[n] \in Nat
                   /\ PickWeight(n) \in Int /\ LoadScore(n) = PickWeight(n)
  <2> SUFFICES ASSUME NEW n \in S
               PROVE  n \in Node /\ ReportedLoad(n) \in Int /\ chosen[n] \in Nat
                      /\ PickWeight(n) \in Int /\ LoadScore(n) = PickWeight(n)
    OBVIOUS
  <2>1. n \in Member /\ n \in Node BY <1>2, FleetFacts DEF BurstInv
  <2>2. beat[n] \in Beat /\ payload[n] \in Profile
    BY <2>1 DEF Selectable, BurstInv, FleetInv
  <2>3. /\ beat[n].queue \in Nat /\ beat[n].cpu \in Nat /\ beat[n].gpu \in Nat
        /\ beat[n].free \in Nat /\ payload[n].total \in Nat
    BY <2>2, PlacementAssumption DEF Profile
  <2>4. MemoryUsed(n) \in Int BY <2>3 DEF MemoryUsed
  <2>5. ReportedLoad(n) \in Int BY <2>3, <2>4 DEF ReportedLoad
  <2>6. chosen[n] \in Nat /\ dampener[n] = chosen[n] BY <2>1 DEF BurstInv
  <2> QED BY <2>1, <2>5, <2>6 DEF PickWeight, LoadScore
<1>4. t \in S /\ \A x \in S : PickWeight(t) <= PickWeight(x)
  <2> DEFINE f == [n \in S |-> LoadScore(n)]
             p == [n \in S |-> Position(n)]
  <2>1. IsFiniteSet(S) BY <1>2, FleetFacts, FS_Subset DEF BurstInv
  <2>2. /\ \A n \in S : Position(n) \in 1..Len(fleet)
        /\ \A x, y \in S : Position(x) = Position(y) => x = y
    BY <1>2, FleetFacts DEF BurstInv
  <2>3. Len(fleet) \in Nat BY LenProperties DEF BurstInv, FleetInv
  <2>4. f \in [S -> Int] /\ p \in [S -> Int] BY <1>3, <2>2, <2>3
  <2>5. \A x, y \in S : p[x] = p[y] => x = y BY <2>2
  <2>6. \A x, y \in S : Before(f, p, x, y) <=>
            \/ LoadScore(x) < LoadScore(y)
            \/ LoadScore(x) = LoadScore(y) /\ Position(x) < Position(y)
    BY DEF Before
  <2> HIDE DEF S, f, p
  <2>7. \E n \in S : \A x \in S \ {n} : Before(f, p, n, x)
    BY <1>1, <2>1, <2>4, <2>5, FirstExists
  <2>8. \E n \in S : \A x \in S \ {n} :
            \/ LoadScore(n) < LoadScore(x)
            \/ LoadScore(n) = LoadScore(x) /\ Position(n) < Position(x)
    BY <2>6, <2>7
  <2>9. /\ t \in S
        /\ \A x \in S \ {t} :
              \/ LoadScore(t) < LoadScore(x)
              \/ LoadScore(t) = LoadScore(x) /\ Position(t) < Position(x)
    BY <2>8 DEF Selected, S
  <2> HIDE DEF t
  <2> QED BY <1>3, <2>9
<1> HIDE DEF S, t
<1>5. \A n \in S : PickWeight(n)' = IF n = t THEN PickWeight(n) + 100 ELSE PickWeight(n)
  <2> SUFFICES ASSUME NEW n \in S
               PROVE  PickWeight(n)' = IF n = t THEN PickWeight(n) + 100 ELSE PickWeight(n)
    OBVIOUS
  <2>1. n \in Node /\ ReportedLoad(n) \in Int /\ chosen[n] \in Nat BY <1>3
  <2>2. ReportedLoad(n)' = ReportedLoad(n) BY <1>1 DEF ReportedLoad, MemoryUsed
  <2>3. chosen'[n] = IF n = t THEN chosen[n] + 1 ELSE chosen[n] BY <1>1, <2>1 DEF BurstInv
  <2>4. PickWeight(n)' = ReportedLoad(n) + 100 * chosen'[n] BY <2>2 DEF PickWeight
  <2> QED BY <2>1, <2>3, <2>4 DEF PickWeight
<1>6. /\ picks'.for = {m} /\ picks'.of \in [Node -> Nat]
      /\ \A x \in Node \ {t} : picks'.of[x] > 0 => picks.for = {m} /\ picks.of[x] > 0
  <2> DEFINE d == {m}
  <2>1. picks.of \in [Node -> Nat] /\ picks' = Grown(picks, d, t) /\ t \in Node
    BY <1>1, <1>3, <1>4 DEF BurstInv
  <2> HIDE DEF d
  <2>2. /\ Grown(picks, d, t).for = d
        /\ Grown(picks, d, t).of \in [Node -> Nat]
        /\ \A x \in Node \ {t} : Grown(picks, d, t).of[x] > 0 => picks.for = d /\ picks.of[x] > 0
    BY <2>1, GrownFacts
  <2> QED BY <2>1, <2>2 DEF d
<1>7. ASSUME NEW a \in S, NEW b \in S, picks'.of[a] > 0
      PROVE  PickWeight(a)' - 100 <= PickWeight(b)'
  <2>1. PickWeight(a) \in Int /\ PickWeight(b) \in Int /\ a \in Node BY <1>3
  <2>2. CASE a = t BY <1>4, <1>5, <2>1, <2>2
  <2>3. CASE a # t
    <3>1. picks.for = {m} /\ picks.of[a] > 0 BY <1>6, <1>7, <2>1, <2>3
    <3>2. PickWeight(a) - 100 <= PickWeight(b)
      BY <3>1 DEF BurstInv, BurstSpreads, PickWeight, S
    <3> QED BY <1>5, <2>1, <2>3, <3>2
  <2> QED BY <2>2, <2>3
<1>8. BurstSpreads'
  <2> SUFFICES ASSUME NEW m2 \in Model, picks'.for = {m2},
                      NEW a \in Selectable(m2)', NEW b \in Selectable(m2)', picks'.of[a] > 0
               PROVE  PickWeight(a)' - 100 <= PickWeight(b)'
    BY DEF BurstSpreads, PickWeight
  <2>1. m2 = m BY <1>6
  <2> QED BY <1>2, <1>7, <2>1
<1> QED BY <1>6, <1>8

\* The dampener prevents the herd effect for every fleet: in a burst of choices
\* for one model no chosen node is worse, by what it reported and how often it was
\* chosen since, than another by more than one dampener step (select_node,
\* scheduler.py, and increment_dampener, state.py).
THEOREM BurstsAreSpread == Spec => []BurstSpreads
<1>1. Idle.for = {} /\ Idle.of \in [Node -> Nat] BY DEF Idle, Nothing
<1>2. Init => BurstInv
  <2>1. Init => picks = Idle /\ dampener = Nothing /\ chosen = Nothing BY DEF Init
  <2>2. picks = Idle => BurstSpreads BY <1>1 DEF BurstSpreads
  <2>3. Nothing \in [Node -> Nat] BY DEF Nothing
  <2> QED BY <1>1, <2>1, <2>2, <2>3, FiguresStart DEF BurstInv
<1>3. ASSUME BurstInv, [Next]_vars PROVE BurstInv'
  <2>1. FleetInv' BY <1>3, FleetStep DEF BurstInv
  <2>2. dampener' \in [Node -> Nat] /\ chosen' = dampener' BY <1>3, DampenerStep DEF BurstInv
  <2>3. picks'.of \in [Node -> Nat] /\ BurstSpreads'
    <3>1. CASE \E m \in Model : SelectNode(m) BY <1>3, <3>1, PickSpreads
    <3>2. CASE picks' = Idle BY <1>1, <3>2 DEF BurstSpreads
    <3>3. CASE UNCHANGED vars
      <4>1. /\ picks' = picks /\ chosen' = chosen
            /\ fleet' = fleet /\ payload' = payload /\ beat' = beat
        BY <3>3 DEF vars, registry, ledger
      <4> QED
        BY <1>3, <4>1 DEF BurstInv, BurstSpreads, Selectable, ReportedLoad, MemoryUsed, Member
    <3> QED BY <1>3, <3>1, <3>2, <3>3, OthersEndPicks
  <2> QED BY <2>1, <2>2, <2>3 DEF BurstInv
<1>4. BurstInv => BurstSpreads BY DEF BurstInv
<1> QED BY <1>2, <1>3, <1>4, PTL DEF Spec

-----------------------------------------------------------------------------
(***************************************************************************)
(* Running totals.  Induction is by the least counterexample, and what is  *)
(* defined by recursion exists because its initial segments do.            *)
(***************************************************************************)

LEMMA LeastNat ==
    ASSUME NEW T, T \subseteq Nat, T # {}
    PROVE  \E x \in T : \A y \in T : x <= y
<1> DEFINE R == OpToRel(<, Nat)
<1>1. IsWellFoundedOn(R, Nat) BY NatLessThanWellFounded
<1>2. R = {ss \in Nat \X Nat : ss[1] < ss[2]} BY DEF OpToRel
<1> HIDE DEF R
<1>3. PICK x \in T : \A y \in T : ~(<<y, x>> \in R) BY <1>1, WFMin
<1>4. ASSUME NEW y \in T PROVE x <= y
  <2>1. x \in Nat /\ y \in Nat OBVIOUS
  <2>2. ~(<<y, x>> \in R) BY <1>3
  <2>3. ~(y < x) BY <1>2, <2>1, <2>2
  <2> QED BY <2>1, <2>3
<1> QED BY <1>4

LEMMA UpTo ==
    ASSUME NEW k \in Nat, NEW S, 0 \in S, \A i \in Nat : i < k /\ i \in S => i + 1 \in S
    PROVE  \A i \in 0..k : i \in S
<1> SUFFICES ASSUME NEW b \in 0..k, b \notin S PROVE FALSE OBVIOUS
<1> DEFINE T == {i \in 0..k : i \notin S}
<1>1. T \subseteq Nat /\ T # {} OBVIOUS
<1> HIDE DEF T
<1>2. PICK x \in T : \A y \in T : x <= y BY <1>1, LeastNat
<1>3. x \in 0..k /\ x \notin S /\ x # 0 BY <1>2 DEF T
<1>4. x - 1 \in 0..k /\ x - 1 \notin T BY <1>1, <1>2, <1>3
<1>5. x - 1 \in S BY <1>4 DEF T
<1> QED BY <1>3, <1>4, <1>5

\* A running value over 1..k, each from the one before it by h, exists.
LEMMA RunExists ==
    ASSUME NEW k \in Nat, NEW a \in Int, NEW h \in [1..k -> [Int -> Int]]
    PROVE  \E g \in [0..k -> Int] : g[0] = a /\ \A i \in 1..k : g[i] = h[i][g[i - 1]]
<1> DEFINE Run(g, n) == g[0] = a /\ \A i \in 1..n : g[i] = h[i][g[i - 1]]
           S == {n \in 0..k : \E g \in [0..n -> Int] : Run(g, n)}
<1>1. 0 \in S
  <2>1. [i \in 0..0 |-> a] \in [0..0 -> Int] OBVIOUS
  <2>2. Run([i \in 0..0 |-> a], 0) OBVIOUS
  <2> HIDE DEF Run
  <2> QED BY <2>1, <2>2
<1>2. ASSUME NEW n \in Nat, n < k, n \in S PROVE n + 1 \in S
  <2>1. PICK g \in [0..n -> Int] : Run(g, n) BY <1>2
  <2> DEFINE v == h[n + 1][g[n]]
             e == [i \in 0..n + 1 |-> IF i <= n THEN g[i] ELSE v]
  <2>2. v \in Int /\ \A i \in 0..n : g[i] \in Int
    <3>1. n + 1 \in 1..k /\ n \in 0..n BY <1>2
    <3>2. h[n + 1] \in [Int -> Int] /\ g[n] \in Int BY <3>1
    <3> QED BY <3>2
  <2>3. v = h[n + 1][g[n]] OBVIOUS
  <2> HIDE DEF v
  <2>4. e \in [0..n + 1 -> Int] BY <2>2
  <2>5. e[n + 1] = v /\ \A i \in 0..n : e[i] = g[i] BY <1>2
  <2>6. e[0] = a BY <2>1, <2>5
  <2>7. ASSUME NEW i \in 1..n + 1 PROVE e[i] = h[i][e[i - 1]]
    <3> HIDE DEF e
    <3>1. CASE i = n + 1
      <4>1. n \in 0..n /\ i - 1 = n BY <3>1
      <4> QED BY <2>3, <2>5, <3>1, <4>1
    <3>2. CASE i <= n
      <4>1. i \in 1..n /\ i \in 0..n /\ i - 1 \in 0..n BY <3>2
      <4>2. e[i] = g[i] /\ e[i - 1] = g[i - 1] BY <2>5, <4>1
      <4> QED BY <2>1, <4>1, <4>2
    <3> QED BY <3>1, <3>2
  <2> HIDE DEF e
  <2>8. Run(e, n + 1) BY <2>6, <2>7
  <2> HIDE DEF Run
  <2> QED BY <1>2, <2>4, <2>8
<1> HIDE DEF S
<1>3. \A n \in Nat : n < k /\ n \in S => n + 1 \in S BY <1>2
<1>4. \A n \in 0..k : n \in S BY <1>1, <1>3, UpTo
<1>5. k \in S BY <1>4
<1> QED BY <1>5 DEF S

\* What remains after each host (the greedy loop of schedule_pipeline).
LEMMA RemainingFacts ==
    ASSUME NEW layers \in Nat, NEW caps, Len(caps) \in Nat,
           \A i \in 1..Len(caps) : caps[i] \in Nat
    PROVE  /\ Remaining(layers, caps)[0] = layers
           /\ \A i \in 0..Len(caps) : Remaining(layers, caps)[i] \in Nat
           /\ \A i \in 1..Len(caps) :
                 Remaining(layers, caps)[i] = Remaining(layers, caps)[i - 1]
                                              - Lesser(Remaining(layers, caps)[i - 1], caps[i])
<1> DEFINE k == Len(caps)
           P(f) == f = [i \in 0..Len(caps) |->
                            IF i = 0 THEN layers ELSE f[i - 1] - Lesser(f[i - 1], caps[i])]
           h == [i \in 1..k |-> [x \in Int |-> x - Lesser(x, caps[i])]]
           left == Remaining(layers, caps)
<1>1. h \in [1..k -> [Int -> Int]]
  <2>1. ASSUME NEW i \in 1..k, NEW x \in Int PROVE x - Lesser(x, caps[i]) \in Int
    BY DEF Lesser
  <2> QED BY <2>1
<1>2. \A i \in 1..k, x \in Int : h[i][x] = x - Lesser(x, caps[i]) OBVIOUS
<1>3. k \in Nat /\ layers \in Int OBVIOUS
<1> HIDE DEF h
<1>4. PICK g \in [0..k -> Int] : g[0] = layers /\ \A i \in 1..k : g[i] = h[i][g[i - 1]]
  <2> HIDE DEF k
  <2> QED BY <1>1, <1>3, RunExists
<1>5. P(g)
  <2>1. ASSUME NEW i \in 0..k
        PROVE  g[i] = IF i = 0 THEN layers ELSE g[i - 1] - Lesser(g[i - 1], caps[i])
    <3>1. CASE i = 0 BY <1>4, <3>1
    <3>2. CASE i # 0
      <4>1. i \in 1..k /\ i - 1 \in 0..k BY <1>3, <3>2
      <4>2. g[i - 1] \in Int BY <4>1
      <4> HIDE DEF k
      <4> QED BY <1>2, <1>4, <3>2, <4>1, <4>2
    <3> QED BY <3>1, <3>2
  <2> QED BY <2>1
<1>6. P(left)
  <2>1. left = CHOOSE f : P(f) BY DEF Remaining
  <2> HIDE DEF P, left
  <2> QED BY <1>5, <2>1
<1>7. \A i \in 0..k : left[i] = IF i = 0 THEN layers
                                ELSE left[i - 1] - Lesser(left[i - 1], caps[i])
  <2> HIDE DEF left
  <2> QED BY <1>6
<1> HIDE DEF P, left, k
<1>8. left[0] = layers BY <1>3, <1>7
<1>9. \A i \in 1..k : left[i] = left[i - 1] - Lesser(left[i - 1], caps[i])
  BY <1>3, <1>7
<1>10. \A i \in 0..k : left[i] \in Nat
  <2> DEFINE S == {i \in 0..k : left[i] \in Nat}
  <2>1. 0 \in S BY <1>3, <1>8
  <2>2. ASSUME NEW i \in Nat, i < k, i \in S PROVE i + 1 \in S
    <3>1. i + 1 \in 1..k /\ left[i] \in Nat BY <1>3, <2>2
    <3>2. left[i + 1] = left[i] - Lesser(left[i], caps[i + 1]) BY <1>9, <3>1
    <3>3. caps[i + 1] \in Nat BY <3>1 DEF k
    <3>4. left[i + 1] \in Nat BY <3>1, <3>2, <3>3 DEF Lesser
    <3> QED BY <1>3, <3>1, <3>4
  <2>3. \A i \in Nat : i < k /\ i \in S => i + 1 \in S BY <2>2
  <2> HIDE DEF S
  <2>4. \A i \in 0..k : i \in S BY <1>3, <2>1, <2>3, UpTo
  <2> QED BY <2>4 DEF S
<1> QED BY <1>8, <1>9, <1>10 DEF left, k

\* total_cluster_capacity is the last of the running sums of the capacities.
LEMMA TotalFacts ==
    ASSUME NEW caps, Len(caps) \in Nat, \A i \in 1..Len(caps) : caps[i] \in Nat
    PROVE  \E sum : /\ sum[0] = 0
                    /\ \A i \in 0..Len(caps) : sum[i] \in Nat
                    /\ \A i \in 1..Len(caps) : sum[i] = sum[i - 1] + caps[i]
                    /\ Total(caps) = sum[Len(caps)]
<1> DEFINE k == Len(caps)
           P(f) == f = [i \in 0..Len(caps) |-> IF i = 0 THEN 0 ELSE f[i - 1] + caps[i]]
           h == [i \in 1..k |-> [x \in Int |-> x + caps[i]]]
           sum == CHOOSE f : P(f)
<1>1. h \in [1..k -> [Int -> Int]] OBVIOUS
<1>2. \A i \in 1..k, x \in Int : h[i][x] = x + caps[i] OBVIOUS
<1>3. k \in Nat /\ 0 \in Int OBVIOUS
<1> HIDE DEF h
<1>4. PICK g \in [0..k -> Int] : g[0] = 0 /\ \A i \in 1..k : g[i] = h[i][g[i - 1]]
  <2> HIDE DEF k
  <2> QED BY <1>1, <1>3, RunExists
<1>5. P(g)
  <2>1. ASSUME NEW i \in 0..k PROVE g[i] = IF i = 0 THEN 0 ELSE g[i - 1] + caps[i]
    <3>1. CASE i = 0 BY <1>4, <3>1
    <3>2. CASE i # 0
      <4>1. i \in 1..k /\ i - 1 \in 0..k BY <1>3, <3>2
      <4>2. g[i - 1] \in Int BY <4>1
      <4> HIDE DEF k
      <4> QED BY <1>2, <1>4, <3>2, <4>1, <4>2
    <3> QED BY <3>1, <3>2
  <2> QED BY <2>1
<1>6. P(sum)
  <2> HIDE DEF P
  <2> QED BY <1>5
<1>7. Total(caps) = sum[k] BY DEF Total
<1> HIDE DEF sum
<1>8. \A i \in 0..k : sum[i] = IF i = 0 THEN 0 ELSE sum[i - 1] + caps[i] BY <1>6
<1> HIDE DEF P, k
<1>9. sum[0] = 0 /\ \A i \in 1..k : sum[i] = sum[i - 1] + caps[i] BY <1>3, <1>8
<1>10. \A i \in 0..k : sum[i] \in Nat
  <2> DEFINE S == {i \in 0..k : sum[i] \in Nat}
  <2>1. 0 \in S BY <1>3, <1>9
  <2>2. ASSUME NEW i \in Nat, i < k, i \in S PROVE i + 1 \in S
    <3>1. i + 1 \in 1..k /\ sum[i] \in Nat BY <1>3, <2>2
    <3>2. sum[i + 1] = sum[i] + caps[i + 1] BY <1>9, <3>1
    <3>3. caps[i + 1] \in Nat BY <3>1 DEF k
    <3> QED BY <1>3, <3>1, <3>2, <3>3
  <2>3. \A i \in Nat : i < k /\ i \in S => i + 1 \in S BY <2>2
  <2> HIDE DEF S
  <2>4. \A i \in 0..k : i \in S BY <1>3, <2>1, <2>3, UpTo
  <2> QED BY <2>4 DEF S
<1> QED BY <1>7, <1>9, <1>10 DEF k

\* Enough capacity in all leaves nothing over: the second "Insufficient VRAM" of
\* schedule_pipeline cannot be raised.
LEMMA NothingLeftOver ==
    ASSUME NEW layers \in Nat, NEW caps, Len(caps) \in Nat,
           \A i \in 1..Len(caps) : caps[i] \in Nat, Total(caps) >= layers
    PROVE  Remaining(layers, caps)[Len(caps)] = 0
<1> DEFINE k == Len(caps)
           left == Remaining(layers, caps)
<1>1. /\ left[0] = layers /\ \A i \in 0..k : left[i] \in Nat
      /\ \A i \in 1..k : left[i] = left[i - 1] - Lesser(left[i - 1], caps[i])
  BY RemainingFacts
<1>2. PICK sum : /\ sum[0] = 0 /\ \A i \in 0..k : sum[i] \in Nat
                 /\ \A i \in 1..k : sum[i] = sum[i - 1] + caps[i]
                 /\ Total(caps) = sum[k]
  BY TotalFacts
<1>3. k \in Nat /\ \A i \in 1..k : caps[i] \in Nat OBVIOUS
<1> DEFINE S == {i \in 0..k : left[i] = 0 \/ left[i] = layers - sum[i]}
<1> HIDE DEF left, k
<1>4. 0 \in S BY <1>1, <1>2, <1>3
<1>5. ASSUME NEW i \in Nat, i < k, i \in S PROVE i + 1 \in S
  <2>1. i + 1 \in 1..k /\ i \in 0..k /\ i + 1 \in 0..k BY <1>3, <1>5
  <2>2. /\ left[i + 1] = left[i] - Lesser(left[i], caps[i + 1])
        /\ sum[i + 1] = sum[i] + caps[i + 1]
    BY <1>1, <1>2, <2>1
  <2>3. left[i] \in Nat /\ sum[i] \in Nat /\ caps[i + 1] \in Nat BY <1>1, <1>2, <1>3, <2>1
  <2>4. left[i] = 0 \/ left[i] = layers - sum[i] BY <1>5
  <2>5. left[i + 1] = 0 \/ left[i + 1] = layers - sum[i + 1] BY <2>2, <2>3, <2>4 DEF Lesser
  <2> QED BY <2>1, <2>5
<1>6. \A i \in Nat : i < k /\ i \in S => i + 1 \in S BY <1>5
<1> HIDE DEF S
<1>7. \A i \in 0..k : i \in S BY <1>3, <1>4, <1>6, UpTo
<1>8. k \in 0..k BY <1>3
<1>9. left[k] = 0 \/ left[k] = layers - sum[k] BY <1>7, <1>8 DEF S
<1> QED BY <1>1, <1>2, <1>8, <1>9 DEF left, k

\* A[i] layers are in the first i of the u counts.
Running(A, counts, u) ==
    /\ A \in [0..u -> Nat] /\ A[0] = 0
    /\ DOMAIN counts = 1..u
    /\ \A i \in 1..u : counts[i] = A[i] - A[i - 1]

\* counts splits layers into u consecutive parts.
Parts(counts, layers, u) == \E A : Running(A, counts, u) /\ A[u] = layers

\* The greedy partition uses the first hosts, each for at least one layer and for
\* no more than it has room for, and gives out every layer.
LEMMA GreedyFacts ==
    ASSUME NEW layers \in Nat \ {0}, NEW caps, Len(caps) \in Nat \ {0},
           \A i \in 1..Len(caps) : caps[i] \in Nat \ {0}, Total(caps) >= layers
    PROVE  \E u \in 1..Len(caps) :
              /\ Parts(Greedy(layers, caps), layers, u)
              /\ \A i \in 1..u : Greedy(layers, caps)[i] \in 1..caps[i]
<1> DEFINE k == Len(caps)
           left == Remaining(layers, caps)
           U == {i \in 1..k : left[i - 1] > 0}
<1>1. /\ left[0] = layers /\ \A i \in 0..k : left[i] \in Nat
      /\ \A i \in 1..k : left[i] = left[i - 1] - Lesser(left[i - 1], caps[i])
  BY RemainingFacts
<1>2. left[k] = 0 BY NothingLeftOver
<1>3. k \in Nat \ {0} /\ \A i \in 1..k : caps[i] \in Nat \ {0} OBVIOUS
<1>4. Greedy(layers, caps) = [i \in 1..Cardinality(U) |-> Lesser(left[i - 1], caps[i])]
  BY DEF Greedy
<1> HIDE DEF left, k
<1>5. PICK u \in 1..k : left[u] = 0 /\ \A i \in 0..k : left[i] = 0 => u <= i
  <2> DEFINE T == {i \in 0..k : left[i] = 0}
  <2>1. T \subseteq Nat /\ T # {} BY <1>2, <1>3
  <2> HIDE DEF T
  <2>2. PICK x \in T : \A y \in T : x <= y BY <2>1, LeastNat
  <2>3. x \in 0..k /\ left[x] = 0 /\ x # 0 BY <1>1, <2>2 DEF T
  <2>4. x \in 1..k BY <1>3, <2>3
  <2>5. \A i \in 0..k : left[i] = 0 => x <= i BY <2>2 DEF T
  <2> QED BY <2>3, <2>4, <2>5
<1>6. \A i \in 0..k : i >= u => left[i] = 0
  <2> DEFINE S == {i \in 0..k : i < u \/ left[i] = 0}
  <2>1. 0 \in S BY <1>3
  <2>2. ASSUME NEW i \in Nat, i < k, i \in S PROVE i + 1 \in S
    <3>1. i + 1 \in 1..k /\ i + 1 \in 0..k BY <1>3, <2>2
    <3>2. CASE i + 1 <= u BY <1>3, <1>5, <3>1, <3>2
    <3>3. CASE i + 1 > u
      <4>1. left[i] = 0 BY <2>2, <3>3
      <4>2. left[i + 1] = left[i] - Lesser(left[i], caps[i + 1]) /\ caps[i + 1] \in Nat
        BY <1>1, <1>3, <3>1
      <4>3. left[i + 1] = 0 BY <4>1, <4>2, <1>3, <3>1 DEF Lesser
      <4> QED BY <3>1, <4>3
    <3> QED BY <3>2, <3>3
  <2>3. \A i \in Nat : i < k /\ i \in S => i + 1 \in S BY <2>2
  <2> HIDE DEF S
  <2>4. \A i \in 0..k : i \in S BY <1>3, <2>1, <2>3, UpTo
  <2> QED BY <2>4 DEF S
<1>7. U = 1..u
  <2>1. ASSUME NEW i \in 1..k PROVE left[i - 1] > 0 <=> i <= u
    <3>1. i - 1 \in 0..k /\ left[i - 1] \in Nat BY <1>1, <1>3
    <3> QED BY <1>3, <1>5, <1>6, <3>1
  <2> QED BY <1>3, <2>1
<1>8. Cardinality(U) = u
  <2>1. 1 \in Int /\ u \in Int BY <1>3
  <2>2. Cardinality(1..u) = IF 1 > u THEN 0 ELSE u - 1 + 1 BY <2>1, FS_Interval
  <2> HIDE DEF U
  <2>3. Cardinality(1..u) = u BY <1>3, <2>2
  <2> QED BY <1>7, <2>3
<1> HIDE DEF U
<1> DEFINE counts == Greedy(layers, caps)
           A == [i \in 0..u |-> layers - left[i]]
<1>9. DOMAIN counts = 1..u /\ \A i \in 1..u : counts[i] = Lesser(left[i - 1], caps[i])
  BY <1>4, <1>8
<1> HIDE DEF counts
<1>10. \A i \in 0..k : left[i] <= layers
  <2> DEFINE S == {i \in 0..k : left[i] <= layers}
  <2>1. 0 \in S BY <1>1, <1>3
  <2>2. ASSUME NEW i \in Nat, i < k, i \in S PROVE i + 1 \in S
    <3>1. i + 1 \in 1..k /\ i + 1 \in 0..k /\ i \in 0..k BY <1>3, <2>2
    <3>2. left[i + 1] = left[i] - Lesser(left[i], caps[i + 1]) /\ caps[i + 1] \in Nat
      BY <1>1, <1>3, <3>1
    <3>3. left[i] \in Nat /\ left[i] <= layers BY <1>1, <2>2, <3>1
    <3>4. left[i + 1] <= layers BY <3>2, <3>3 DEF Lesser
    <3> QED BY <3>1, <3>4
  <2>3. \A i \in Nat : i < k /\ i \in S => i + 1 \in S BY <2>2
  <2> HIDE DEF S
  <2>4. \A i \in 0..k : i \in S BY <1>3, <2>1, <2>3, UpTo
  <2> QED BY <2>4 DEF S
<1>11. \A i \in 0..u : i \in 0..k BY <1>3
<1>12. /\ A \in [0..u -> Nat] /\ A[0] = 0 /\ A[u] = layers
       /\ \A i \in 0..u : A[i] = layers - left[i]
  <2>1. \A i \in 0..u : layers - left[i] \in Nat BY <1>1, <1>10, <1>11
  <2>2. 0 \in 0..u /\ u \in 0..u BY <1>3
  <2> QED BY <1>1, <1>5, <2>1, <2>2
<1> HIDE DEF A
<1>13. ASSUME NEW i \in 1..u PROVE counts[i] = A[i] - A[i - 1] /\ counts[i] \in 1..caps[i]
  <2>1. i \in 1..k /\ i \in 0..u /\ i - 1 \in 0..u /\ i - 1 \in 0..k /\ i \in 0..k
    BY <1>3
  <2>2. /\ counts[i] = Lesser(left[i - 1], caps[i]) /\ caps[i] \in Nat \ {0}
        /\ left[i - 1] \in Nat /\ left[i] \in Nat /\ left[i] = left[i - 1] - counts[i]
    BY <1>1, <1>3, <1>9, <2>1
  <2>3. left[i - 1] > 0 BY <1>7, <2>1 DEF U
  <2>4. A[i] = layers - left[i] /\ A[i - 1] = layers - left[i - 1] BY <1>12, <2>1
  <2>5. counts[i] \in 1..caps[i] BY <2>2, <2>3 DEF Lesser
  <2> QED BY <2>2, <2>4, <2>5
<1>14. Parts(counts, layers, u)
  <2>1. \A i \in 1..u : counts[i] = A[i] - A[i - 1] BY <1>13
  <2>2. Running(A, counts, u) BY <1>9, <1>12, <2>1 DEF Running
  <2> QED BY <1>12, <2>2 DEF Parts
<1> QED BY <1>13, <1>14 DEF counts, k

\* The even partition gives out every layer too (base_l and rem_l).
LEMMA EvenFacts ==
    ASSUME NEW layers \in Nat, NEW stages \in Nat \ {0}
    PROVE  Parts(Even(layers, stages), layers, stages)
<1> DEFINE q == layers \div stages
           d == layers % stages
           A == [i \in 0..stages |-> i * q + Lesser(i, d)]
           counts == Even(layers, stages)
<1>1. q \in Nat /\ d \in 0..stages - 1 /\ layers = stages * q + d
  OBVIOUS
<1>2. DOMAIN counts = 1..stages
      /\ \A i \in 1..stages : counts[i] = q + (IF i <= d THEN 1 ELSE 0)
  BY DEF Even
<1> HIDE DEF q, d, counts
<1>3. \A i \in 0..stages : i * q + Lesser(i, d) \in Nat
  <2>1. \A i \in 0..stages : i * q \in Nat BY <1>1
  <2>2. \A i \in 0..stages : Lesser(i, d) \in Nat BY <1>1 DEF Lesser
  <2> QED BY <2>1, <2>2
<1>4. A \in [0..stages -> Nat] /\ \A i \in 0..stages : A[i] = i * q + Lesser(i, d) BY <1>3
<1> HIDE DEF A
<1>5. A[0] = 0 /\ A[stages] = layers
  <2>1. A[0] = 0 * q + Lesser(0, d) /\ A[stages] = stages * q + Lesser(stages, d) BY <1>4
  <2>2. 0 * q = 0 /\ Lesser(0, d) = 0 /\ Lesser(stages, d) = d BY <1>1 DEF Lesser
  <2> QED BY <1>1, <2>1, <2>2
<1>6. ASSUME NEW i \in 1..stages PROVE counts[i] = A[i] - A[i - 1]
  <2>1. i \in 0..stages /\ i - 1 \in 0..stages OBVIOUS
  <2>2. A[i] = i * q + Lesser(i, d) /\ A[i - 1] = (i - 1) * q + Lesser(i - 1, d)
    BY <1>4, <2>1
  <2>3. i * q = (i - 1) * q + q /\ (i - 1) * q \in Int BY <1>1
  <2>4. Lesser(i, d) = Lesser(i - 1, d) + (IF i <= d THEN 1 ELSE 0) BY <1>1 DEF Lesser
  <2>5. Lesser(i - 1, d) \in Int BY <1>1 DEF Lesser
  <2>6. CASE i <= d BY <1>1, <1>2, <2>2, <2>3, <2>4, <2>5, <2>6
  <2>7. CASE ~(i <= d) BY <1>1, <1>2, <2>2, <2>3, <2>4, <2>5, <2>7
  <2> QED BY <2>6, <2>7
<1>7. Running(A, counts, stages) BY <1>2, <1>4, <1>5, <1>6 DEF Running
<1> QED BY <1>5, <1>7 DEF Parts, counts

\* The record a stage is
StageShaped(s) == s = [node |-> s.node, first |-> s.first, last |-> s.last, room |-> s.room]

\* The stages of a partition are consecutive ranges that start at from and hold
\* the layers given out so far (the loop that builds the PipelineStages).
LEMMA StagesFacts ==
    ASSUME NEW hosts, NEW counts, NEW caps, NEW from \in Int, NEW u \in Nat \ {0},
           NEW A, Running(A, counts, u)
    PROVE  /\ DOMAIN Stages(hosts, counts, caps, from) = 1..u
           /\ \E X : Stages(hosts, counts, caps, from) \in Seq(X)
           /\ Len(Stages(hosts, counts, caps, from)) = u
           /\ \A i \in 1..u :
                 /\ StageShaped(Stages(hosts, counts, caps, from)[i])
                 /\ Stages(hosts, counts, caps, from)[i].node = hosts[i]
                 /\ Stages(hosts, counts, caps, from)[i].first = from + A[i - 1]
                 /\ Stages(hosts, counts, caps, from)[i].last = from + A[i] - 1
                 /\ Stages(hosts, counts, caps, from)[i].room = caps[i]
<1>0. /\ A \in [0..u -> Nat] /\ A[0] = 0 /\ DOMAIN counts = 1..u
      /\ \A i \in 1..u : counts[i] = A[i] - A[i - 1]
  BY DEF Running
<1> DEFINE P(f) == f = [i \in DOMAIN counts |->
                            IF i = 1 THEN from ELSE f[i - 1] + counts[i - 1]]
           g == [i \in 1..u |-> from + A[i - 1]]
           start == Starts(counts, from)
<1>1. P(g)
  <2>1. ASSUME NEW i \in 1..u
        PROVE  g[i] = IF i = 1 THEN from ELSE g[i - 1] + counts[i - 1]
    <3>1. CASE i = 1 BY <1>0, <3>1
    <3>2. CASE i # 1
      <4>1. i - 1 \in 1..u /\ (i - 1) - 1 \in 0..u /\ i - 1 \in 0..u BY <3>2
      <4>2. A[i - 1] \in Nat /\ A[(i - 1) - 1] \in Nat BY <1>0, <4>1
      <4>3. counts[i - 1] = A[i - 1] - A[(i - 1) - 1] BY <1>0, <4>1
      <4>4. g[i] = from + A[i - 1] /\ g[i - 1] = from + A[(i - 1) - 1] BY <4>1
      <4> HIDE DEF g
      <4> QED BY <3>2, <4>2, <4>3, <4>4
    <3> QED BY <3>1, <3>2
  <2> QED BY <1>0, <2>1
<1>2. P(start)
  <2>1. start = CHOOSE f : P(f) BY DEF Starts
  <2> HIDE DEF P, start
  <2> QED BY <1>1, <2>1
<1>3. \A i \in 1..u : start[i] = IF i = 1 THEN from ELSE start[i - 1] + counts[i - 1]
  <2> HIDE DEF start
  <2> QED BY <1>0, <1>2
<1> DEFINE R(i) == [node |-> hosts[i], first |-> start[i],
                    last |-> start[i] + counts[i] - 1, room |-> caps[i]]
<1>4. /\ DOMAIN Stages(hosts, counts, caps, from) = 1..u
      /\ \E X : Stages(hosts, counts, caps, from) \in Seq(X)
      /\ Len(Stages(hosts, counts, caps, from)) = u
      /\ \A i \in 1..u : Stages(hosts, counts, caps, from)[i] = R(i)
  <2> DEFINE st == Stages(hosts, counts, caps, from)
             X == {R(i) : i \in 1..u}
  <2>1. st = [i \in 1..u |-> R(i)] BY <1>0 DEF Stages
  <2> HIDE DEF R, st
  <2>2. st \in [1..u -> X] BY <2>1
  <2> HIDE DEF X
  <2>3. st \in Seq(X) /\ Len(st) = u BY <2>2
  <2> QED BY <2>1, <2>3 DEF st
<1> HIDE DEF P, g, start
<1>5. \A i \in 0..u : i \in 1..u => start[i] = from + A[i - 1]
  <2> DEFINE S == {i \in 0..u : i \in 1..u => start[i] = from + A[i - 1]}
  <2>1. 0 \in S OBVIOUS
  <2>2. ASSUME NEW i \in Nat, i < u, i \in S PROVE i + 1 \in S
    <3>1. i + 1 \in 1..u /\ i + 1 \in 0..u BY <2>2
    <3>2. CASE i = 0
      <4>1. start[i + 1] = from /\ A[(i + 1) - 1] = 0 BY <1>0, <1>3, <3>1, <3>2
      <4> QED BY <3>1, <4>1
    <3>3. CASE i # 0
      <4>1. i \in 1..u /\ i - 1 \in 0..u /\ i \in 0..u BY <2>2, <3>3
      <4>2. start[i] = from + A[i - 1] BY <2>2, <4>1
      <4>3. start[i + 1] = start[i] + counts[i] /\ counts[i] = A[i] - A[i - 1]
        BY <1>0, <1>3, <3>1, <3>3, <4>1
      <4>4. A[i] \in Nat /\ A[i - 1] \in Nat BY <1>0, <4>1
      <4>5. start[i + 1] = from + A[i] BY <4>2, <4>3, <4>4
      <4> QED BY <3>1, <4>5
    <3> QED BY <3>2, <3>3
  <2>3. \A i \in Nat : i < u /\ i \in S => i + 1 \in S BY <2>2
  <2> HIDE DEF S
  <2>4. \A i \in 0..u : i \in S BY <2>1, <2>3, UpTo
  <2> QED BY <2>4 DEF S
<1>6. ASSUME NEW i \in 1..u
      PROVE  /\ StageShaped(R(i)) /\ R(i).node = hosts[i] /\ R(i).room = caps[i]
             /\ R(i).first = from + A[i - 1] /\ R(i).last = from + A[i] - 1
  <2>1. i \in 0..u /\ i - 1 \in 0..u OBVIOUS
  <2>2. A[i] \in Nat /\ A[i - 1] \in Nat /\ counts[i] = A[i] - A[i - 1] BY <1>0, <2>1
  <2>3. start[i] = from + A[i - 1] BY <1>5, <2>1
  <2>4. start[i] + counts[i] - 1 = from + A[i] - 1 BY <2>2, <2>3
  <2>5. StageShaped(R(i)) BY DEF StageShaped
  <2> QED BY <2>3, <2>4, <2>5
<1> HIDE DEF R
<1> QED BY <1>4, <1>6

-----------------------------------------------------------------------------
(***************************************************************************)
(* Plans                                                                   *)
(***************************************************************************)

\* Consecutive ranges F[i]..L[i] cut 0..end into disjoint parts.
LEMMA RangesCover ==
    ASSUME NEW k \in Nat \ {0}, NEW F \in [1..k -> Int], NEW L \in [1..k -> Int],
           NEW end \in Int, F[1] = 0, L[k] = end,
           \A i \in 1..k : F[i] <= L[i],
           \A i \in 1..k : i < k => L[i] + 1 = F[i + 1]
    PROVE  /\ \A l \in 0..end : \E i \in 1..k : \A j \in 1..k : l \in F[j]..L[j] <=> j = i
           /\ \A i \in 1..k : F[i]..L[i] # {} /\ F[i]..L[i] \subseteq 0..end
<1>1. \A i, j \in 1..k : i < j => L[i] < F[j]
  <2> DEFINE S == {j \in 0..k : \A i \in 1..k : j \in 1..k /\ i < j => L[i] < F[j]}
  <2>1. 0 \in S OBVIOUS
  <2>2. ASSUME NEW j \in Nat, j < k, j \in S PROVE j + 1 \in S
    <3>1. j + 1 \in 0..k BY <2>2
    <3>2. ASSUME NEW i \in 1..k, i < j + 1 PROVE L[i] < F[j + 1]
      <4>1. j \in 1..k /\ L[j] + 1 = F[j + 1] BY <2>2, <3>2
      <4>2. F[j] \in Int /\ L[j] \in Int /\ F[j] <= L[j] /\ L[i] \in Int BY <4>1
      <4>3. CASE i = j BY <4>1, <4>2, <4>3
      <4>4. CASE i < j
        <5>1. L[i] < F[j] BY <2>2, <4>1, <4>4
        <5> QED BY <4>1, <4>2, <5>1
      <4> QED BY <3>2, <4>3, <4>4
    <3> QED BY <3>1, <3>2
  <2>3. \A j \in Nat : j < k /\ j \in S => j + 1 \in S BY <2>2
  <2> HIDE DEF S
  <2>4. \A j \in 0..k : j \in S BY <2>1, <2>3, UpTo
  <2> QED BY <2>4 DEF S
<1>2. ASSUME NEW l \in 0..end
      PROVE  \E i \in 1..k : \A j \in 1..k : l \in F[j]..L[j] <=> j = i
  <2> DEFINE T == {i \in 1..k : l <= L[i]}
  <2>1. T \subseteq Nat /\ k \in T OBVIOUS
  <2> HIDE DEF T
  <2>2. PICK x \in T : \A y \in T : x <= y BY <2>1, LeastNat
  <2>3. x \in 1..k /\ l <= L[x] BY <2>2 DEF T
  <2>4. F[x] <= l
    <3>1. CASE x = 1 BY <3>1
    <3>2. CASE x # 1
      <4>1. x - 1 \in 1..k /\ x - 1 \notin T /\ x - 1 < k BY <2>1, <2>2, <2>3, <3>2
      <4>2. ~(l <= L[x - 1]) BY <4>1 DEF T
      <4>3. L[x - 1] + 1 = F[(x - 1) + 1] /\ L[x - 1] \in Int BY <4>1
      <4> QED BY <2>3, <4>2, <4>3
    <3> QED BY <3>1, <3>2
  <2>5. ASSUME NEW j \in 1..k PROVE l \in F[j]..L[j] <=> j = x
    <3>1. /\ F[j] \in Int /\ L[j] \in Int /\ F[j] <= L[j]
          /\ F[x] \in Int /\ L[x] \in Int
      BY <2>3
    <3>2. CASE j = x BY <2>3, <2>4, <3>1, <3>2
    <3>3. CASE j < x
      <4>1. L[j] < F[x] BY <1>1, <2>3, <3>3
      <4> QED BY <2>3, <2>4, <3>1, <3>3, <4>1
    <3>4. CASE x < j
      <4>1. L[x] < F[j] BY <1>1, <2>3, <3>4
      <4> QED BY <2>3, <2>4, <3>1, <3>4, <4>1
    <3> QED BY <2>3, <3>2, <3>3, <3>4
  <2> QED BY <2>3, <2>5
<1>3. ASSUME NEW i \in 1..k PROVE F[i]..L[i] # {} /\ F[i]..L[i] \subseteq 0..end
  <2>1. F[i] \in Int /\ L[i] \in Int /\ F[i] <= L[i] OBVIOUS
  <2>2. F[i] \in F[i]..L[i] BY <2>1
  <2>3. 1 \in 1..k /\ k \in 1..k OBVIOUS
  <2>4. F[i] >= 0 BY <1>1, <2>1, <2>3
  <2>5. L[i] <= end
    <3>1. CASE i = k BY <2>1, <3>1
    <3>2. CASE i < k
      <4>1. L[i] < F[k] /\ F[k] <= L[k] BY <1>1, <2>3, <3>2
      <4>2. F[k] \in Int BY <2>3
      <4> QED BY <2>1, <4>1, <4>2
    <3> QED BY <3>1, <3>2
  <2> QED BY <2>1, <2>2, <2>4, <2>5
<1> QED BY <1>2, <1>3

\* What the engine has to establish of a plan it has just built: k stages, each
\* of at least one layer, one after the other from 0 to end, and no remote one
\* beyond its room or on a node that has another.
WellBuilt(p, k, end) ==
    /\ p.around = {}
    /\ DOMAIN p.stages = 1..k
    /\ end = IF p.split THEN p.layers ELSE p.layers - 1
    /\ \A i \in 1..k : /\ p.stages[i].first \in Int /\ p.stages[i].last \in Int
                       /\ p.stages[i].first <= p.stages[i].last
    /\ p.stages[1].first = 0 /\ p.stages[k].last = end
    /\ \A i \in 1..k : i < k => p.stages[i].last + 1 = p.stages[i + 1].first
    /\ \A i \in 1..k : p.stages[i].node # Client =>
           p.stages[i].last - p.stages[i].first + 1 <= p.stages[i].room
    /\ \A i, j \in 1..k :
           p.stages[i].node = p.stages[j].node /\ p.stages[i].node # Client => i = j

LEMMA CoversFresh ==
    ASSUME NEW p, NEW k \in Nat \ {0}, NEW end \in Int, WellBuilt(p, k, end)
    PROVE  Covers(p)
<1> DEFINE F == [i \in 1..k |-> p.stages[i].first]
           L == [i \in 1..k |-> p.stages[i].last]
           remote == {i \in 1..k : p.stages[i].node # Client}
           N == NodesOf(p.stages) \ {Client}
<1>1. /\ F \in [1..k -> Int] /\ L \in [1..k -> Int]
      /\ \A i \in 1..k : F[i] = p.stages[i].first /\ L[i] = p.stages[i].last
      /\ \A i \in 1..k : F[i] \in Int /\ L[i] \in Int /\ F[i] <= L[i]
      /\ F[1] = 0 /\ L[k] = end
      /\ \A i \in 1..k : i < k => L[i] + 1 = F[i + 1]
  BY DEF WellBuilt
<1> HIDE DEF F, L
<1>2. /\ \A l \in 0..end : \E i \in 1..k : \A j \in 1..k : l \in F[j]..L[j] <=> j = i
      /\ \A i \in 1..k : F[i]..L[i] # {} /\ F[i]..L[i] \subseteq 0..end
  <2>1. F[1] = 0 /\ L[k] = end BY <1>1
  <2>2. \A i \in 1..k : F[i] <= L[i] BY <1>1
  <2>3. \A i \in 1..k : i < k => L[i] + 1 = F[i + 1] BY <1>1
  <2> QED BY <1>1, <2>1, <2>2, <2>3, RangesCover
<1>3. ASSUME NEW i \in remote PROVE Cardinality(F[i]..L[i]) <= p.stages[i].room
  <2>1. i \in 1..k /\ F[i] \in Int /\ L[i] \in Int /\ F[i] <= L[i] BY <1>1
  <2>2. Cardinality(F[i]..L[i]) = IF F[i] > L[i] THEN 0 ELSE L[i] - F[i] + 1
    BY <2>1, FS_Interval
  <2>3. L[i] - F[i] + 1 <= p.stages[i].room BY <1>1, <2>1 DEF WellBuilt
  <2> QED BY <2>1, <2>2, <2>3
<1>4. Cardinality(N) = Cardinality(remote)
  <2> DEFINE f == [i \in remote |-> p.stages[i].node]
  <2>1. N = {p.stages[i].node : i \in 1..k} \ {Client} BY DEF NodesOf, WellBuilt
  <2>2. f \in Bijection(remote, N)
    <3>1. f \in Injection(remote, N) BY <2>1 DEF Injection, IsInjective, WellBuilt
    <3>2. f \in Surjection(remote, N) BY <2>1 DEF Surjection
    <3> QED BY <3>1, <3>2 DEF Bijection
  <2>3. 1 \in Int /\ k \in Int /\ remote \in SUBSET (1..k) OBVIOUS
  <2> HIDE DEF f, N, remote
  <2>4. IsFiniteSet(1..k) BY <2>3, FS_Interval
  <2>5. IsFiniteSet(remote) BY <2>3, <2>4, FS_Subset
  <2>6. ExistsBijection(remote, N) BY <2>2 DEF ExistsBijection
  <2> QED BY <2>5, <2>6, FS_Bijection
<1>5. \A i \in 1..k : F[i]..L[i] = p.stages[i].first..p.stages[i].last BY <1>1
<1>6. ASSUME NEW l \in 0..end
      PROVE  \E i \in 1..k : \A j \in 1..k :
                 l \in p.stages[j].first..p.stages[j].last <=> j = i
  <2>1. PICK i \in 1..k : \A j \in 1..k : l \in F[j]..L[j] <=> j = i BY <1>2
  <2>2. \A j \in 1..k : l \in p.stages[j].first..p.stages[j].last <=> j = i
    BY <1>5, <2>1
  <2> QED BY <2>2
<1>7. \A i \in 1..k : /\ p.stages[i].first..p.stages[i].last # {}
                      /\ p.stages[i].first..p.stages[i].last \subseteq 0..end
  BY <1>2, <1>5
<1>8. \A i \in remote : Cardinality(p.stages[i].first..p.stages[i].last) <= p.stages[i].room
  BY <1>3, <1>5
<1>9. p.around \cap NodesOf(p.stages) = {} BY DEF WellBuilt
<1>10. /\ 1..k = DOMAIN p.stages
       /\ end = IF p.split THEN p.layers ELSE p.layers - 1
       /\ remote = {i \in DOMAIN p.stages : p.stages[i].node # Client}
  BY DEF WellBuilt
<1> DEFINE D == DOMAIN p.stages
           last == IF p.split THEN p.layers ELSE p.layers - 1
<1>11. 1..k = D /\ end = last BY <1>10
<1> HIDE DEF remote, N, D, last
<1>12. /\ \A l \in 0..last : \E i \in D : \A j \in D :
              l \in p.stages[j].first..p.stages[j].last <=> j = i
       /\ \A i \in D : /\ p.stages[i].first..p.stages[i].last # {}
                       /\ p.stages[i].first..p.stages[i].last \subseteq 0..last
  BY <1>6, <1>7, <1>11, Zenon
<1> QED BY <1>4, <1>8, <1>9, <1>10, <1>12 DEF Covers, N, D, last

\* The records a plan is made of
Shaped(p) ==
    /\ p = [split |-> p.split, layers |-> p.layers, around |-> p.around, stages |-> p.stages]
    /\ \A i \in DOMAIN p.stages : StageShaped(p.stages[i])

\* A pipeline whose stages were all built is well built, whichever partition it
\* was given.
LEMMA PipelineWellBuilt ==
    ASSUME FleetInv, LoadInv, NEW m, NEW layers \in Layers, NEW per \in PerLayer,
           NEW stages \in StageCounts, SchedulePipeline(m, layers, per, stages),
           plan' # NoPlan
    PROVE  Covers(plan') /\ Shaped(plan')
<1> DEFINE hosts == Hosts(m, layers, per)
           caps == [i \in DOMAIN hosts |-> Capacity(hosts[i], layers, per)]
           counts == IF stages > 0 THEN Even(layers, stages) ELSE Greedy(layers, caps)
           all == Stages(hosts, counts, caps, 0)
           built == Built(all)
<1>1. /\ Placeable(hosts, caps, layers, stages)
      /\ DOMAIN built = DOMAIN counts
      /\ plan' = [split |-> FALSE, layers |-> layers, around |-> {}, stages |-> built]
  BY DEF SchedulePipeline
<1>2. layers \in Nat \ {0} /\ per \in Nat /\ stages \in Nat BY PlacementAssumption
<1>3. /\ Len(hosts) \in Nat /\ DOMAIN hosts = 1..Len(hosts)
      /\ \A i \in 1..Len(hosts) : hosts[i] \in Member /\ Capacity(hosts[i], layers, per) \in Nat \ {0}
      /\ \A i, j \in 1..Len(hosts) : hosts[i] = hosts[j] => i = j
  BY <1>2, HostsFacts
<1> HIDE DEF hosts
<1>4. Len(caps) = Len(hosts) /\ \A i \in 1..Len(caps) : caps[i] \in Nat \ {0}
  BY <1>3
<1> HIDE DEF caps
<1>5. Len(hosts) \in Nat \ {0} /\ Total(caps) >= layers BY <1>1, <1>3 DEF Placeable
<1>6. PICK u \in 1..Len(hosts) :
          /\ Parts(counts, layers, u)
          /\ \A i \in 1..u : counts[i] <= caps[i]
  <2>1. CASE stages > 0
    <3>1. stages \in 1..Len(hosts) /\ \A i \in 1..stages : counts[i] <= caps[i]
      BY <1>1, <1>2, <1>3, <2>1 DEF Placeable
    <3>2. stages \in Nat \ {0} /\ layers \in Nat BY <1>2, <2>1
    <3>3. Parts(Even(layers, stages), layers, stages) BY <3>2, EvenFacts
    <3> QED BY <2>1, <3>1, <3>3
  <2>2. CASE ~(stages > 0)
    <3>1. PICK u \in 1..Len(caps) :
             /\ Parts(Greedy(layers, caps), layers, u)
             /\ \A i \in 1..u : Greedy(layers, caps)[i] \in 1..caps[i]
      BY <1>2, <1>4, <1>5, GreedyFacts
    <3>2. counts = Greedy(layers, caps) BY <2>2
    <3>3. \A i \in 1..u : counts[i] <= caps[i] BY <1>3, <1>4, <3>1, <3>2
    <3> QED BY <1>4, <3>1, <3>2, <3>3
  <2> QED BY <2>1, <2>2
<1> HIDE DEF counts
<1>7. u \in Nat \ {0} /\ \A i \in 1..u : i \in 1..Len(hosts) BY <1>3
<1>8. PICK A : Running(A, counts, u) /\ A[u] = layers BY <1>6 DEF Parts
<1>9. /\ A \in [0..u -> Nat] /\ A[0] = 0 /\ DOMAIN counts = 1..u
      /\ \A i \in 1..u : counts[i] = A[i] - A[i - 1]
  BY <1>8 DEF Running
<1>10. /\ DOMAIN all = 1..u
       /\ \A i \in 1..u : /\ StageShaped(all[i]) /\ all[i].node = hosts[i]
                          /\ all[i].first = A[i - 1] /\ all[i].last = A[i] - 1
                          /\ all[i].room = caps[i]
  <2>1. 0 \in Int OBVIOUS
  <2>2. /\ DOMAIN all = 1..u
        /\ \A i \in 1..u : /\ StageShaped(all[i]) /\ all[i].node = hosts[i]
                           /\ all[i].first = 0 + A[i - 1] /\ all[i].last = 0 + A[i] - 1
                           /\ all[i].room = caps[i]
    BY <1>7, <1>8, <2>1, StagesFacts
  <2> HIDE DEF all
  <2>3. ASSUME NEW i \in 1..u
        PROVE  all[i].first = A[i - 1] /\ all[i].last = A[i] - 1
    <3>1. i \in 0..u /\ i - 1 \in 0..u BY <1>7
    <3>2. A[i] \in Nat /\ A[i - 1] \in Nat BY <1>9, <3>1
    <3>3. all[i].first = 0 + A[i - 1] /\ all[i].last = 0 + A[i] - 1 BY <2>2
    <3> QED BY <3>2, <3>3
  <2> QED BY <2>2, <2>3
<1>11. DOMAIN built = 1..u /\ \A i \in 1..u : built[i] = all[i] /\ all[i].first <= all[i].last
  <2>1. built = [i \in {i \in DOMAIN all : \A j \in 1..i : all[j].first <= all[j].last} |-> all[i]]
    BY DEF Built
  <2> HIDE DEF all, built
  <2>2. DOMAIN built = 1..u BY <1>1, <1>9
  <2>3. DOMAIN built = {i \in DOMAIN all : \A j \in 1..i : all[j].first <= all[j].last}
    BY <2>1
  <2>4. ASSUME NEW i \in 1..u PROVE built[i] = all[i] /\ all[i].first <= all[i].last
    <3>1. i \in 1..i OBVIOUS
    <3> QED BY <2>1, <2>2, <2>3, <3>1
  <2> QED BY <2>2, <2>4
<1> HIDE DEF built, all
<1>12. ASSUME NEW i \in 1..u
       PROVE  /\ StageShaped(built[i]) /\ built[i].node = hosts[i]
              /\ built[i].first = A[i - 1] /\ built[i].last = A[i] - 1
              /\ built[i].room = caps[i]
              /\ A[i] \in Nat /\ A[i - 1] \in Nat
              /\ A[i - 1] <= A[i] - 1 /\ A[i] - 1 - A[i - 1] + 1 <= caps[i]
  <2>1. built[i] = all[i] /\ all[i].first <= all[i].last /\ counts[i] <= caps[i]
        /\ counts[i] = A[i] - A[i - 1]
    BY <1>6, <1>9, <1>11
  <2>2. i \in 0..u /\ i - 1 \in 0..u BY <1>7
  <2>3. A[i] \in Nat /\ A[i - 1] \in Nat BY <1>9, <2>2
  <2>4. caps[i] \in Nat BY <1>3, <1>4, <1>7
  <2> QED BY <1>10, <2>1, <2>3, <2>4
<1> DEFINE end == layers - 1
<1>13. WellBuilt(plan', u, end)
  <2> DEFINE p == plan'
  <2>1. p.around = {} /\ p.stages = built /\ p.split = FALSE /\ p.layers = layers BY <1>1
  <2> HIDE DEF p
  <2>2. DOMAIN p.stages = 1..u BY <1>11, <2>1
  <2>3. end = IF p.split THEN p.layers ELSE p.layers - 1 BY <2>1
  <2>4. ASSUME NEW i \in 1..u
        PROVE  /\ p.stages[i].first \in Int /\ p.stages[i].last \in Int
               /\ p.stages[i].first <= p.stages[i].last
    <3>1. p.stages[i].first = A[i - 1] /\ p.stages[i].last = A[i] - 1 BY <1>12, <2>1
    <3>2. A[i] \in Nat /\ A[i - 1] \in Nat /\ A[i - 1] <= A[i] - 1 BY <1>12
    <3> QED BY <3>1, <3>2
  <2>5. p.stages[1].first = 0 /\ p.stages[u].last = end
    <3>1. 1 \in 1..u /\ u \in 1..u /\ 1 - 1 = 0 BY <1>7
    <3> QED BY <1>8, <1>9, <1>12, <2>1, <3>1
  <2>6. ASSUME NEW i \in 1..u, i < u PROVE p.stages[i].last + 1 = p.stages[i + 1].first
    <3>1. i + 1 \in 1..u /\ (i + 1) - 1 = i BY <1>7, <2>6
    <3>2. built[i + 1].first = A[i] BY <1>12, <3>1
    <3> QED BY <1>12, <2>1, <3>2
  <2>7. \A i \in 1..u : p.stages[i].last - p.stages[i].first + 1 <= p.stages[i].room
    BY <1>12, <2>1
  <2>8. \A i, j \in 1..u : p.stages[i].node = p.stages[j].node => i = j
    BY <1>3, <1>7, <1>12, <2>1
  <2> QED BY <2>1, <2>2, <2>3, <2>4, <2>5, <2>6, <2>7, <2>8 DEF WellBuilt, p
<1>14. Covers(plan')
  <2>1. end \in Int BY <1>2
  <2> HIDE DEF end
  <2> QED BY <1>7, <1>13, <2>1, CoversFresh
<1>15. Shaped(plan')
  <2>1. \A i \in 1..u : StageShaped(built[i]) BY <1>12
  <2>2. plan'.stages = built BY <1>1
  <2>3. plan' = [split |-> plan'.split, layers |-> plan'.layers, around |-> plan'.around,
                 stages |-> plan'.stages]
    BY <1>1
  <2> QED BY <1>11, <2>1, <2>2, <2>3 DEF Shaped
<1> QED BY <1>14, <1>15

\* Where the stages of a split pipeline stand: the embedding, the middle, the head.
LEMMA SplitPlaces ==
    ASSUME NEW Y, NEW middle \in Seq(Y), NEW u \in Nat \ {0}, Len(middle) = u, NEW layers
    PROVE  /\ DOMAIN SplitStages(middle, layers) = 1..u + 2
           /\ SplitStages(middle, layers)[1]
                 = [node |-> Client, first |-> 0, last |-> 0, room |-> 1]
           /\ \A i \in 1..u : SplitStages(middle, layers)[i + 1] = middle[i]
           /\ SplitStages(middle, layers)[u + 2]
                 = [node |-> Client, first |-> layers, last |-> layers, room |-> 1]
<1> DEFINE a == [node |-> Client, first |-> 0, last |-> 0, room |-> 1]
           b == [node |-> Client, first |-> layers, last |-> layers, room |-> 1]
           X == {a, b} \cup Y
           v == <<a>>
           w == <<b>>
           s == v \o middle
           t == s \o w
<1>1. SplitStages(middle, layers) = t BY DEF SplitStages
<1>2. a \in X /\ b \in X /\ Y \subseteq X OBVIOUS
<1> HIDE DEF a, b, X
<1>3. middle \in Seq(X) BY <1>2, SeqMonotonic
<1>4. v \in Seq(X) /\ Len(v) = 1 /\ v[1] = a BY <1>2
<1>5. w \in Seq(X) /\ Len(w) = 1 /\ w[1] = b BY <1>2
<1> HIDE DEF v, w
<1>6. /\ s \in Seq(X) /\ Len(s) = 1 + u
      /\ \A i \in 1..1 + u : s[i] = IF i <= 1 THEN v[i] ELSE middle[i - 1]
  <2>1. /\ s \in Seq(X) /\ Len(s) = Len(v) + Len(middle)
        /\ \A i \in 1..Len(v) + Len(middle) : s[i] =
              IF i <= Len(v) THEN v[i] ELSE middle[i - Len(v)]
    BY <1>3, <1>4, ConcatProperties
  <2> HIDE DEF s
  <2> QED BY <1>4, <2>1
<1> HIDE DEF s
<1>7. /\ t \in Seq(X) /\ Len(t) = 2 + u
      /\ \A i \in 1..2 + u : t[i] = IF i <= 1 + u THEN s[i] ELSE w[i - (1 + u)]
  <2>1. /\ t \in Seq(X) /\ Len(t) = Len(s) + Len(w)
        /\ \A i \in 1..Len(s) + Len(w) : t[i] =
              IF i <= Len(s) THEN s[i] ELSE w[i - Len(s)]
    BY <1>5, <1>6, ConcatProperties
  <2>2. Len(s) + Len(w) = 2 + u BY <1>5, <1>6
  <2> HIDE DEF t
  <2> QED BY <1>6, <2>1, <2>2
<1>8. DOMAIN t = 1..u + 2
  <2>1. DOMAIN t = 1..Len(t) BY <1>7, LenProperties
  <2>2. Len(t) = u + 2 BY <1>7
  <2> QED BY <2>1, <2>2
<1> HIDE DEF t
<1>9. t[1] = a
  <2>1. 1 \in 1..2 + u /\ 1 \in 1..1 + u OBVIOUS
  <2>2. t[1] = s[1] BY <1>7, <2>1
  <2>3. s[1] = v[1] BY <1>6, <2>1
  <2> QED BY <1>4, <2>2, <2>3
<1>10. ASSUME NEW i \in 1..u PROVE t[i + 1] = middle[i]
  <2>1. i + 1 \in 1..2 + u /\ i + 1 \in 1..1 + u /\ (i + 1) - 1 = i /\ ~(i + 1 <= 1) OBVIOUS
  <2>2. t[i + 1] = s[i + 1] BY <1>7, <2>1
  <2>3. s[i + 1] = middle[(i + 1) - 1] BY <1>6, <2>1
  <2> QED BY <2>1, <2>2, <2>3
<1>11. t[u + 2] = b
  <2>1. u + 2 \in 1..2 + u /\ ~(u + 2 <= 1 + u) /\ (u + 2) - (1 + u) = 1 OBVIOUS
  <2>2. t[u + 2] = w[(u + 2) - (1 + u)] BY <1>7, <2>1
  <2> QED BY <1>5, <2>1, <2>2
<1> QED BY <1>1, <1>8, <1>9, <1>10, <1>11 DEF a, b

\* A split pipeline is well built: layer 0 and the layer after the last on the
\* client, the others on consecutive hosts.
LEMMA SplitWellBuilt ==
    ASSUME FleetInv, LoadInv, NEW m, NEW layers \in Layers, NEW asked \in PerLayer,
           ScheduleSplit(m, layers, asked), plan' # NoPlan
    PROVE  Covers(plan') /\ Shaped(plan')
<1> DEFINE per == IF asked = 0 THEN DefaultPerLayer ELSE asked
           rest == layers - 1
           hosts == Hosts(m, rest, per)
           caps == [i \in DOMAIN hosts |-> Capacity(hosts[i], rest, per)]
           counts == Greedy(rest, caps)
           middle == Stages(hosts, counts, caps, 1)
           st == SplitStages(middle, layers)
<1>1. /\ Placeable(hosts, caps, rest, 0) /\ layers >= 2
      /\ plan' = [split |-> TRUE, layers |-> layers, around |-> {}, stages |-> st]
  BY DEF ScheduleSplit
<1>2. layers \in Nat /\ rest \in Nat \ {0} /\ per \in Nat /\ layers = rest + 1
  BY <1>1, PlacementAssumption DEF DefaultPerLayer
<1> HIDE DEF rest, per
<1>3. /\ Len(hosts) \in Nat /\ DOMAIN hosts = 1..Len(hosts)
      /\ \A i \in 1..Len(hosts) : hosts[i] \in Member /\ Capacity(hosts[i], rest, per) \in Nat \ {0}
      /\ \A i, j \in 1..Len(hosts) : hosts[i] = hosts[j] => i = j
  BY <1>2, HostsFacts
<1> HIDE DEF hosts
<1>4. Len(caps) = Len(hosts) /\ \A i \in 1..Len(caps) : caps[i] \in Nat \ {0}
  BY <1>3
<1> HIDE DEF caps
<1>5. Len(caps) \in Nat \ {0} /\ Total(caps) >= rest BY <1>1, <1>3, <1>4 DEF Placeable
<1>6. PICK u \in 1..Len(caps) :
          /\ Parts(counts, rest, u)
          /\ \A i \in 1..u : counts[i] \in 1..caps[i]
  BY <1>2, <1>4, <1>5, GreedyFacts
<1> HIDE DEF counts
<1>7. u \in Nat \ {0} /\ \A i \in 1..u : i \in 1..Len(hosts) BY <1>3, <1>4
<1>8. PICK A : Running(A, counts, u) /\ A[u] = rest BY <1>6 DEF Parts
<1>9. /\ A \in [0..u -> Nat] /\ A[0] = 0
      /\ \A i \in 1..u : counts[i] = A[i] - A[i - 1]
  BY <1>8 DEF Running
<1>10. /\ \E Y : middle \in Seq(Y)
       /\ Len(middle) = u
       /\ \A i \in 1..u : /\ StageShaped(middle[i]) /\ middle[i].node = hosts[i]
                          /\ middle[i].first = 1 + A[i - 1] /\ middle[i].last = 1 + A[i] - 1
                          /\ middle[i].room = caps[i]
  <2>1. 1 \in Int OBVIOUS
  <2> QED BY <1>7, <1>8, <2>1, StagesFacts
<1> HIDE DEF middle
<1>11. /\ DOMAIN st = 1..u + 2
       /\ st[1] = [node |-> Client, first |-> 0, last |-> 0, room |-> 1]
       /\ \A i \in 1..u : st[i + 1] = middle[i]
       /\ st[u + 2] = [node |-> Client, first |-> layers, last |-> layers, room |-> 1]
  <2>1. PICK Y : middle \in Seq(Y) BY <1>10
  <2>2. Len(middle) = u BY <1>10
  <2> QED BY <1>7, <2>1, <2>2, SplitPlaces
<1> HIDE DEF st
<1>12. /\ st[1].node = Client /\ st[1].first = 0 /\ st[1].last = 0 /\ StageShaped(st[1])
       /\ st[u + 2].node = Client /\ st[u + 2].first = layers /\ st[u + 2].last = layers
       /\ StageShaped(st[u + 2])
  <2>1. st[1].node = Client /\ st[1].first = 0 /\ st[1].last = 0 /\ StageShaped(st[1])
    BY <1>11 DEF StageShaped
  <2>2. /\ st[u + 2].node = Client /\ st[u + 2].first = layers /\ st[u + 2].last = layers
        /\ StageShaped(st[u + 2])
    BY <1>11 DEF StageShaped
  <2> QED BY <2>1, <2>2
<1>13. ASSUME NEW i \in 1..u
       PROVE  /\ StageShaped(st[i + 1]) /\ st[i + 1].node = hosts[i]
              /\ st[i + 1].first = 1 + A[i - 1] /\ st[i + 1].last = A[i]
              /\ st[i + 1].room = caps[i]
              /\ A[i] \in Nat /\ A[i - 1] \in Nat
              /\ 1 + A[i - 1] <= A[i] /\ A[i] - (1 + A[i - 1]) + 1 <= caps[i]
  <2>1. i \in 0..u /\ i - 1 \in 0..u BY <1>7
  <2>2. A[i] \in Nat /\ A[i - 1] \in Nat BY <1>9, <2>1
  <2>3. caps[i] \in Nat /\ counts[i] \in 1..caps[i] /\ counts[i] = A[i] - A[i - 1]
    BY <1>3, <1>4, <1>6, <1>7, <1>9
  <2>4. st[i + 1] = middle[i] BY <1>11
  <2>5. 1 + A[i] - 1 = A[i] /\ 1 + A[i - 1] <= A[i] /\ A[i] - (1 + A[i - 1]) + 1 <= caps[i]
    BY <2>2, <2>3
  <2>6. /\ StageShaped(middle[i]) /\ middle[i].node = hosts[i]
        /\ middle[i].first = 1 + A[i - 1] /\ middle[i].last = 1 + A[i] - 1
        /\ middle[i].room = caps[i]
    BY <1>10
  <2> QED BY <2>2, <2>4, <2>5, <2>6
<1> DEFINE k == u + 2
<1>14. \A i \in 1..k : i = 1 \/ i = k \/ \E j \in 1..u : i = j + 1
  <2> SUFFICES ASSUME NEW i \in 1..k, i # 1, i # k PROVE \E j \in 1..u : i = j + 1 OBVIOUS
  <2>1. i - 1 \in 1..u /\ i = (i - 1) + 1 BY <1>7
  <2> QED BY <2>1
<1>15. k \in Nat \ {0} /\ k = u + 2 BY <1>7
<1> HIDE DEF k
<1>16. WellBuilt(plan', k, layers)
  <2> DEFINE p == plan'
  <2>1. p.around = {} /\ p.stages = st /\ p.split = TRUE /\ p.layers = layers BY <1>1
  <2> HIDE DEF p
  <2>2. DOMAIN p.stages = 1..k /\ layers = IF p.split THEN p.layers ELSE p.layers - 1
    BY <1>11, <1>15, <2>1
  <2>3. ASSUME NEW i \in 1..k
        PROVE  st[i].first \in Int /\ st[i].last \in Int /\ st[i].first <= st[i].last
    <3>1. CASE i = 1 BY <1>12, <3>1
    <3>2. CASE i = k BY <1>2, <1>12, <1>15, <3>2
    <3>3. ASSUME NEW j \in 1..u, i = j + 1
          PROVE  st[i].first \in Int /\ st[i].last \in Int /\ st[i].first <= st[i].last
      <4>1. /\ st[i].first = 1 + A[j - 1] /\ st[i].last = A[j]
            /\ A[j] \in Nat /\ A[j - 1] \in Nat /\ 1 + A[j - 1] <= A[j]
        BY <1>13, <3>3
      <4> QED BY <4>1
    <3> QED BY <1>14, <3>1, <3>2, <3>3
  <2>4. st[1].first = 0 /\ st[k].last = layers BY <1>12, <1>15
  <2>5. ASSUME NEW i \in 1..k, i < k PROVE st[i].last + 1 = st[i + 1].first
    <3>1. CASE i = 1
      <4>1. 1 \in 1..u /\ 1 - 1 = 0 BY <1>7
      <4>2. st[1 + 1].first = 1 + A[0] BY <1>13, <4>1
      <4> QED BY <1>9, <1>12, <3>1, <4>2
    <3>2. ASSUME NEW j \in 1..u, i = j + 1, j < u PROVE st[i].last + 1 = st[i + 1].first
      <4>1. j + 1 \in 1..u /\ (j + 1) - 1 = j BY <1>7, <3>2
      <4>2. st[(j + 1) + 1].first = 1 + A[j] BY <1>13, <4>1
      <4>3. st[j + 1].last = A[j] /\ A[j] \in Nat BY <1>13
      <4> QED BY <3>2, <4>2, <4>3
    <3>3. ASSUME i = u + 1 PROVE st[i].last + 1 = st[i + 1].first
      <4>1. u \in 1..u /\ i + 1 = u + 2 BY <1>7, <3>3
      <4>2. st[u + 1].last = A[u] BY <1>13, <4>1
      <4> QED BY <1>2, <1>8, <1>12, <3>3, <4>1, <4>2
    <3> QED BY <1>14, <1>7, <1>15, <2>5, <3>1, <3>2, <3>3
  <2>6. ASSUME NEW i \in 1..k, st[i].node # Client
        PROVE  \E j \in 1..u : i = j + 1
    BY <1>12, <1>14, <1>15, <2>6
  <2>7. ASSUME NEW i \in 1..k, st[i].node # Client
        PROVE  st[i].last - st[i].first + 1 <= st[i].room
    <3>1. PICK j \in 1..u : i = j + 1 BY <2>6, <2>7
    <3> QED BY <1>13, <3>1
  <2>8. ASSUME NEW i \in 1..k, NEW j \in 1..k, st[i].node = st[j].node, st[i].node # Client
        PROVE  i = j
    <3>1. PICK a \in 1..u : i = a + 1 BY <2>6, <2>8
    <3>2. PICK b \in 1..u : j = b + 1 BY <2>6, <2>8
    <3>3. hosts[a] = hosts[b] BY <1>13, <2>8, <3>1, <3>2
    <3>4. a = b BY <1>3, <1>7, <3>3
    <3> QED BY <3>1, <3>2, <3>4
  <2> QED BY <2>1, <2>2, <2>3, <2>4, <2>5, <2>7, <2>8 DEF WellBuilt, p
<1>17. Covers(plan')
  <2>1. layers \in Int BY <1>2
  <2> QED BY <1>15, <1>16, <2>1, CoversFresh
<1>18. Shaped(plan')
  <2>1. \A i \in 1..k : StageShaped(st[i]) BY <1>12, <1>13, <1>14, <1>15
  <2>2. plan'.stages = st BY <1>1
  <2>3. plan' = [split |-> plan'.split, layers |-> plan'.layers, around |-> plan'.around,
                 stages |-> plan'.stages]
    BY <1>1
  <2> QED BY <1>11, <1>15, <2>1, <2>2, <2>3 DEF Shaped
<1> QED BY <1>17, <1>18

\* There is a spare whenever the fleet has another node, and it is not the node
\* that failed (restitch_pipeline_on_eviction).
LEMMA SpareIsOther ==
    ASSUME FleetInv, NEW failed, Member \ {failed} # {}
    PROVE  Spare(failed) \in Member /\ Spare(failed) # failed
<1> DEFINE T == Member \ {failed}
           P == {Position(x) : x \in T}
<1>1. \A x \in T : Position(x) \in Nat
  <2>1. Len(fleet) \in Nat BY LenProperties DEF FleetInv
  <2> QED BY <2>1, FleetFacts
<1>2. P \subseteq Nat /\ P # {} BY <1>1
<1> HIDE DEF P
<1>3. PICK x \in P : \A y \in P : x <= y BY <1>2, LeastNat
<1>4. \E n \in T : \A y \in T : Position(n) <= Position(y) BY <1>3 DEF P
<1>5. Spare(failed) \in T BY <1>4 DEF Spare
<1> QED BY <1>5

\* Restitching moves stages and leaves their layers alone.
LEMMA RestitchKeeps ==
    ASSUME FleetInv, NEW failed, Restitch(failed), Shaped(plan), Covers(plan)
    PROVE  Shaped(plan') /\ Covers(plan')
<1> DEFINE st == plan.stages
           spare == Spare(failed)
           new == [i \in DOMAIN st |-> RestitchedStage(st[i], failed, spare)]
<1>1. spare # failed BY SpareIsOther DEF Restitch
<1>2. plan' = [plan EXCEPT !.around = {failed}, !.stages = new] BY DEF Restitch
<1> HIDE DEF spare, st, new
<1>3. /\ plan'.around = {failed} /\ plan'.stages = new
      /\ plan'.split = plan.split /\ plan'.layers = plan.layers
      /\ plan' = [split |-> plan'.split, layers |-> plan'.layers, around |-> plan'.around,
                  stages |-> plan'.stages]
  BY <1>2 DEF Shaped
<1>4. DOMAIN new = DOMAIN st BY DEF new
<1>5. ASSUME NEW i \in DOMAIN st
      PROVE  /\ new[i].first = st[i].first /\ new[i].last = st[i].last
             /\ new[i].node # failed /\ StageShaped(new[i])
  <2> DEFINE s == st[i]
             r == RestitchedStage(s, failed, spare)
  <2>1. StageShaped(s) BY DEF Shaped, st
  <2>2. new[i] = r BY DEF new
  <2> HIDE DEF s
  <2>3. CASE s.node = failed
    <3>1. r = [s EXCEPT !.node = spare] BY <2>3 DEF RestitchedStage
    <3> HIDE DEF r
    <3>2. /\ r.first = s.first /\ r.last = s.last /\ r.node = spare
          /\ r = [node |-> r.node, first |-> r.first, last |-> r.last, room |-> r.room]
      BY <2>1, <3>1 DEF StageShaped
    <3> QED BY <1>1, <2>2, <3>2 DEF s, StageShaped
  <2>4. CASE s.node # failed
    <3>1. r = s BY <2>4 DEF RestitchedStage
    <3> QED BY <2>1, <2>2, <2>4, <3>1 DEF s
  <2> QED BY <2>3, <2>4
<1>6. Shaped(plan')
  <2>1. \A i \in DOMAIN new : StageShaped(new[i]) BY <1>4, <1>5
  <2> QED BY <1>3, <2>1, Zenon DEF Shaped
<1> DEFINE D == DOMAIN st
           end == IF plan.split THEN plan.layers ELSE plan.layers - 1
<1>7. /\ \A l \in 0..end : \E i \in D : \A j \in D : l \in st[j].first..st[j].last <=> j = i
      /\ \A i \in D : st[i].first..st[i].last # {} /\ st[i].first..st[i].last \subseteq 0..end
  BY DEF Covers, st
<1>8. DOMAIN plan'.stages = D BY <1>3, <1>4
<1>9. end = IF plan'.split THEN plan'.layers ELSE plan'.layers - 1 BY <1>3
<1>10. \A i \in D : plan'.stages[i].first..plan'.stages[i].last = st[i].first..st[i].last
  BY <1>3, <1>5
<1> HIDE DEF D, end
<1>11. ASSUME NEW l \in 0..end
       PROVE  \E i \in D : \A j \in D :
                  l \in plan'.stages[j].first..plan'.stages[j].last <=> j = i
  <2>1. PICK i \in D : \A j \in D : l \in st[j].first..st[j].last <=> j = i BY <1>7
  <2>2. \A j \in D : l \in plan'.stages[j].first..plan'.stages[j].last <=> j = i
    BY <1>10, <2>1
  <2> QED BY <2>2
<1>12. \A i \in D : /\ plan'.stages[i].first..plan'.stages[i].last # {}
                    /\ plan'.stages[i].first..plan'.stages[i].last \subseteq 0..end
  BY <1>7, <1>10
<1>13. plan'.around \cap NodesOf(plan'.stages) = {} /\ plan'.around # {}
  <2>1. \A i \in DOMAIN new : new[i].node # failed BY <1>4, <1>5
  <2>2. failed \notin NodesOf(new) BY <2>1, Zenon DEF NodesOf
  <2> QED BY <1>3, <2>2
<1>14. Covers(plan')
  BY <1>8, <1>9, <1>11, <1>12, <1>13 DEF Covers
<1> QED BY <1>6, <1>14

\* The inductive form of PlanCoversLayers
PlanInv ==
    /\ FleetInv
    /\ LoadInv
    /\ plan # NoPlan => Shaped(plan) /\ Covers(plan)

LEMMA PlanStep == PlanInv /\ [Next]_vars => PlanInv'
<1> SUFFICES ASSUME PlanInv, [Next]_vars PROVE PlanInv' OBVIOUS
<1> DEFINE Same == plan' = NoPlan \/ plan' = plan
<1>1. ASSUME NEW n \in Node, NEW q \in Payload, Register(n, q) PROVE Same
  BY <1>1 DEF Register
<1>2. ASSUME NEW n \in Node, Unregister(n) PROVE Same BY <1>2 DEF Unregister
<1>3. ASSUME NEW n \in Node, NEW models, SetAvailableModels(n, models) PROVE Same
  BY <1>3 DEF SetAvailableModels
<1>4. ASSUME NEW n \in Node, NEW b \in Beat, UpdateHeartbeat(n, b) PROVE Same
  BY <1>4 DEF UpdateHeartbeat
<1>5. ASSUME NEW n \in Node, NEW c \in Cpu, MapTelemetry(n, c) PROVE Same
  BY <1>5 DEF MapTelemetry
<1>6. ASSUME NEW n \in Node, NEW passed, RecordCanary(n, passed) PROVE Same
  BY <1>6 DEF RecordCanary
<1>7. ASSUME NEW m, SelectNode(m) PROVE Same BY <1>7 DEF SelectNode
<1>8. ASSUME NEW m, NEW need, ScheduleTask(m, need) PROVE Same BY <1>8 DEF ScheduleTask
<1>9. ASSUME UNCHANGED vars PROVE Same BY <1>9 DEF vars
<1> DEFINE Good == plan' # NoPlan => Shaped(plan') /\ Covers(plan')
<1>10. ASSUME Same PROVE Good
  <2>1. CASE plan' = NoPlan BY <2>1
  <2>2. CASE plan' = plan
    <3>1. plan # NoPlan => Shaped(plan) /\ Covers(plan) BY DEF PlanInv
    <3> QED BY <2>2, <3>1, Zenon
  <2> QED BY <1>10, <2>1, <2>2
<1>11. ASSUME NEW n \in Node, Restitch(n) PROVE Good
  <2>1. plan # NoPlan BY <1>11 DEF Restitch
  <2> QED BY <1>11, <2>1, RestitchKeeps DEF PlanInv
<1>12. ASSUME NEW m, NEW layers \in Layers, NEW per \in PerLayer, NEW stages \in StageCounts,
              SchedulePipeline(m, layers, per, stages)
       PROVE  Good
  BY <1>12, PipelineWellBuilt DEF PlanInv
<1>13. ASSUME NEW m, NEW layers \in Layers, NEW asked \in PerLayer,
              ScheduleSplit(m, layers, asked)
       PROVE  Good
  BY <1>13, SplitWellBuilt DEF PlanInv
<1> HIDE DEF Same, Good
<1>14. Good
  BY <1>1, <1>2, <1>3, <1>4, <1>5, <1>6, <1>7, <1>8, <1>9, <1>10, <1>11, <1>12, <1>13
  DEF Next
<1>15. FleetInv' /\ LoadInv' BY FleetStep, LoadStep DEF PlanInv
<1> QED BY <1>14, <1>15 DEF PlanInv, Good

\* Every plan the engine returns, for any number of layers, any capacities and
\* either partition, puts each layer on exactly one stage, within the room of the
\* node that takes it and with no node twice; a restitched plan still covers every
\* layer and has none on the node that failed (schedule_pipeline,
\* schedule_split_inference_pipeline and restitch_pipeline_on_eviction, engine.py).
THEOREM PlansCoverLayers == Spec => []PlanCoversLayers
<1>1. Init => PlanInv
  <2>1. Init => plan = NoPlan BY DEF Init
  <2> QED BY <2>1, FiguresStart DEF PlanInv
<1>2. PlanInv => PlanCoversLayers BY DEF PlanInv, PlanCoversLayers
<1> QED BY <1>1, <1>2, PlanStep, PTL DEF Spec
=============================================================================

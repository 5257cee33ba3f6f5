------------------------------ MODULE Placement ------------------------------
(***************************************************************************)
(* Where work goes: the load the NodeRegistry tracks and the three ways    *)
(* the Scheduler chooses nodes by it.                                      *)
(*                                                                         *)
(*   SelectNode         Scheduler.select_node, for /schedule and /infer,   *)
(*                      by heartbeat and scheduling dampener               *)
(*   ScheduleTask       SchedulingEngine.schedule_task, for chat           *)
(*                      completions and the ingress, by telemetry          *)
(*   SchedulePipeline,  SchedulingEngine's layer partitions, by the same   *)
(*   ScheduleSplit      ranking and the memory each node has left          *)
(*                                                                         *)
(* The registry's lock is never held across a real suspension, so each     *)
(* call is one step.  Scores are exact, scaled to integers: select_node's  *)
(* by 1000, score_nodes' by 2.  A call that refuses changes nothing, except*)
(* for the pipeline that is refused while its stages are being built.      *)
(***************************************************************************)
EXTENDS Integers, Sequences, FiniteSets, SequencesExt

CONSTANTS
    Node,         \* node ids
    Model,        \* model names
    AnyModel,     \* a task that names no model
    Client,       \* "client_local", the requester's own machine
    Payload,      \* registrations: models offered, memory free, memory in all
    Beat,         \* heartbeats a node may send
    Cpu,          \* CPU readings telemetry may carry
    Needs,        \* min_vram_gb a task may ask for, 0 for none
    Layers,       \* total_layers a pipeline may have
    PerLayer,     \* memory per layer, 0 for a model that needs none
    StageCounts,  \* num_stages a pipeline may ask for, 0 for none
    Failures,     \* failures_before_quarantine
    MaxEvents,    \* bound on events: all but registrations, choices and restitches
    MaxLoad,      \* bound on the work tracked on one node
    Absent, NoPlan

ASSUME PlacementAssumption ==
    /\ AnyModel \notin Model
    /\ Client \notin Node
    /\ Payload \subseteq [models: SUBSET Model, free: Nat, total: Nat]
    /\ Beat \subseteq [online: BOOLEAN, queue: Nat, cpu: 0..100, gpu: 0..100, free: Nat]
    /\ Absent \notin Beat /\ Absent \notin Payload
    /\ Cpu \subseteq 0..100
    /\ Needs \subseteq Nat /\ PerLayer \subseteq Nat /\ StageCounts \subseteq Nat
    /\ Layers \subseteq Nat \ {0}
    /\ {Failures, MaxLoad} \subseteq Nat \ {0}
    /\ MaxEvents \in Nat

VARIABLES
    fleet,        \* keys of _nodes, in insertion order
    payload,      \* _nodes, or Absent
    beat,         \* _heartbeats, or Absent
    dampener,     \* _dampeners, in steps of 0.1
    depth,        \* _telemetry[n]["queue_depth"], or Missing
    seen,         \* _telemetry[n]["cpu_utilization"], or Missing
    failing,      \* NodeCanaryState.consecutive_failures
    quarantined,  \* nodes whose NodeCanaryState is quarantined
    plan,         \* the stages the latest pipeline call returned
    events        \* events so far

\* History, read by properties only.
VARIABLES
    charged,   \* tasks and stages given to n since its telemetry was replaced
    orphaned,  \* stages charged to n since then by a call that then failed
    chosen,    \* choices of n that call for a dampener step, since its report
    picks,     \* select_node's choices since anything else happened
    tasks,     \* schedule_task's choices since anything else happened
    outcomes   \* canary replies of each node

registry == <<fleet, payload, beat>>
load == <<dampener, depth, seen>>
canary == <<failing, quarantined, outcomes>>
ledger == <<charged, orphaned, chosen>>
vars == <<registry, load, canary, plan, events, ledger, picks, tasks>>

Missing == -1

Member == Range(fleet)
Position(n) == CHOOSE i \in DOMAIN fleet : fleet[i] = n
Nothing == [n \in Node |-> 0]

Event == events < MaxEvents /\ events' = events + 1

\* A burst: consecutive choices for the same demand, and how many each node got
Idle == [for |-> {}, of |-> Nothing]
Grown(burst, demand, n) ==
    LET before == IF burst.for = demand THEN burst.of ELSE Nothing
    IN  [for |-> demand, of |-> [before EXCEPT ![n] = @ + 1]]
NoBurst == picks' = Idle /\ tasks' = Idle

-----------------------------------------------------------------------------
(***************************************************************************)
(* NodeRegistry and the telemetry callback                                 *)
(***************************************************************************)

Register(n, p) ==
    /\ n \notin Member
    /\ fleet' = Append(fleet, n)
    /\ payload' = [payload EXCEPT ![n] = p]
    /\ dampener' = [dampener EXCEPT ![n] = 0]
    /\ plan' = NoPlan
    /\ NoBurst
    /\ chosen' = [chosen EXCEPT ![n] = 0]
    /\ UNCHANGED <<beat, depth, seen, canary, charged, orphaned, events>>

\* local_unregister and local_unregister_node forget every observation of the
\* node; CanaryVerifier.forget is not called
DepthKept(n) == depth
DepthForgotten(n) == [depth EXCEPT ![n] = Missing]

Unregister(n) ==
    /\ n \in Member
    /\ Event
    /\ fleet' = RemoveAt(fleet, Position(n))
    /\ payload' = [payload EXCEPT ![n] = Absent]
    /\ beat' = [beat EXCEPT ![n] = Absent]
    /\ dampener' = [dampener EXCEPT ![n] = 0]
    /\ depth' = DepthForgotten(n)
    /\ seen' = [seen EXCEPT ![n] = Missing]
    /\ charged' = [charged EXCEPT ![n] = 0]
    /\ orphaned' = [orphaned EXCEPT ![n] = 0]
    /\ chosen' = [chosen EXCEPT ![n] = 0]
    /\ NoBurst
    /\ UNCHANGED <<canary, plan>>

SetAvailableModels(n, models) ==
    /\ n \in Member
    /\ Event
    /\ payload' = [payload EXCEPT ![n].models = models]
    /\ plan' = NoPlan
    /\ NoBurst
    /\ UNCHANGED <<fleet, beat, load, canary, ledger>>

\* update_heartbeat: the dampener decays at once
UpdateHeartbeat(n, b) ==
    /\ n \in Member
    /\ Event
    /\ beat' = [beat EXCEPT ![n] = b]
    /\ dampener' = [dampener EXCEPT ![n] = 0]
    /\ plan' = NoPlan
    /\ NoBurst
    /\ chosen' = [chosen EXCEPT ![n] = 0]
    /\ UNCHANGED <<fleet, payload, depth, seen, canary, charged, orphaned>>

\* _process_telemetry replaces the whole entry, and TelemetryEmitter sends no
\* queue depth: what was tracked since the last frame is gone
MapTelemetry(n, cpu) ==
    /\ n \in Member
    /\ Event
    /\ seen' = [seen EXCEPT ![n] = cpu]
    /\ depth' = [depth EXCEPT ![n] = Missing]
    /\ charged' = [charged EXCEPT ![n] = 0]
    /\ orphaned' = [orphaned EXCEPT ![n] = 0]
    /\ plan' = NoPlan
    /\ NoBurst
    /\ UNCHANGED <<registry, dampener, canary, chosen>>

-----------------------------------------------------------------------------
(***************************************************************************)
(* CanaryVerifier.record                                                   *)
(***************************************************************************)

\* consecutive_failures after a reply
FailingNeverReset(n, passed) == IF passed THEN failing[n] ELSE failing[n] + 1
Failing(n, passed) == IF passed THEN 0 ELSE failing[n] + 1

RecordCanary(n, passed) ==
    /\ Event
    /\ failing' = [failing EXCEPT ![n] = Failing(n, passed)]
    /\ quarantined' = IF passed THEN quarantined \ {n}
                      ELSE IF failing'[n] >= Failures THEN quarantined \cup {n}
                      ELSE quarantined
    /\ outcomes' = [outcomes EXCEPT ![n] = Append(@, passed)]
    /\ plan' = NoPlan
    /\ NoBurst
    /\ UNCHANGED <<registry, load, ledger>>

-----------------------------------------------------------------------------
(***************************************************************************)
(* Scheduler.select_node                                                   *)
(***************************************************************************)

\* 1.0 - vram_available / vram_total, a node without memory counting as full
MemoryUsed(n) ==
    IF payload[n].total = 0 THEN 200
    ELSE 200 - (200 * beat[n].free) \div payload[n].total

\* The lower the better
ReportedLoad(n) ==
    400 * beat[n].queue + 3 * beat[n].gpu + beat[n].cpu + MemoryUsed(n)
LoadScore(n) == ReportedLoad(n) + 100 * dampener[n]

Selectable(m) ==
    {n \in Member : m \in payload[n].models /\ beat[n] # Absent /\ beat[n].online}

\* min() keeps the first of equals
Selected(m) ==
    CHOOSE n \in Selectable(m) : \A x \in Selectable(m) \ {n} :
        \/ LoadScore(n) < LoadScore(x)
        \/ LoadScore(n) = LoadScore(x) /\ Position(n) < Position(x)

\* increment_dampener
Damped(n) == [dampener EXCEPT ![n] = @ + 1]

SelectNode(m) ==
    /\ Selectable(m) # {}
    /\ LET n == Selected(m) IN
       /\ dampener[n] < MaxLoad
       /\ dampener' = Damped(n)
       /\ chosen' = [chosen EXCEPT ![n] = @ + 1]
       /\ picks' = Grown(picks, {m}, n)
    /\ tasks' = Idle
    /\ plan' = NoPlan
    /\ UNCHANGED <<registry, depth, seen, canary, charged, orphaned, events>>

-----------------------------------------------------------------------------
(***************************************************************************)
(* CapabilityMatchmaker and SchedulingEngine.schedule_task                 *)
(***************************************************************************)

\* A heartbeat's figure wins over the registered one
FreeMemory(n) == IF beat[n] # Absent THEN beat[n].free ELSE payload[n].free

\* filter_nodes.  A backend requirement rules every node out: no telemetry
\* frame carries a backend type.
EligibleQuarantineIgnored(m, need) ==
    {n \in Member : m \in payload[n].models \cup {AnyModel} /\ FreeMemory(n) >= need}
Eligible(m, need) ==
    {n \in Member \ quarantined :
        m \in payload[n].models \cup {AnyModel} /\ FreeMemory(n) >= need}

\* What score_nodes takes for the queue and the CPU of a node
QueueDepth(n) ==
    IF depth[n] # Missing THEN depth[n] ELSE IF beat[n] # Absent THEN beat[n].queue ELSE 0
CpuLoad(n) ==
    IF seen[n] # Missing THEN seen[n] ELSE IF beat[n] # Absent THEN beat[n].cpu ELSE 0

\* The higher the better; no node reports a reliability other than 1
FitnessIgnoresQueue(n) == 200 - CpuLoad(n)
Fitness(n) == 200 - 30 * QueueDepth(n) - CpuLoad(n)

\* A stable sort, descending
RanksBefore(x, y) ==
    \/ Fitness(x) > Fitness(y)
    \/ Fitness(x) = Fitness(y) /\ Position(x) < Position(y)

Ranked(nodes) ==
    [i \in 1..Cardinality(nodes) |->
        CHOOSE n \in nodes : Cardinality({x \in nodes : RanksBefore(x, n)}) = i - 1]

\* The tracked depth starts at 0, whatever the heartbeat said
DepthPlusOne(n) == IF depth[n] = Missing THEN 1 ELSE depth[n] + 1

ScheduleTask(m, need) ==
    /\ Eligible(m, need) # {}
    /\ LET n == Ranked(Eligible(m, need))[1] IN
       /\ DepthPlusOne(n) <= MaxLoad
       /\ depth' = [depth EXCEPT ![n] = DepthPlusOne(n)]
       /\ charged' = [charged EXCEPT ![n] = @ + 1]
       /\ tasks' = Grown(tasks, {<<m, need>>}, n)
    /\ picks' = Idle
    /\ plan' = NoPlan
    /\ UNCHANGED <<registry, dampener, seen, canary, orphaned, chosen, events>>

-----------------------------------------------------------------------------
(***************************************************************************)
(* SchedulingEngine: pipelines.  Memory is counted in half gigabytes, the  *)
(* default a layer is taken to need.                                       *)
(***************************************************************************)

DefaultPerLayer == 1

\* Layers each ranked node can hold; nodes that can hold none drop out, which
\* leaves the others in their order
Capacity(n, layers, per) == IF per > 0 THEN FreeMemory(n) \div per ELSE layers

Hosts(m, layers, per) ==
    Ranked({n \in Eligible(m, 0) : Capacity(n, layers, per) > 0})

\* total_cluster_capacity
Total(caps) ==
    LET sum[i \in 0..Len(caps)] == IF i = 0 THEN 0 ELSE sum[i - 1] + caps[i]
    IN  sum[Len(caps)]

Lesser(a, b) == IF a < b THEN a ELSE b

\* Fill each host to its capacity until no layer remains
Remaining(layers, caps) ==
    LET left[i \in 0..Len(caps)] == IF i = 0 THEN layers
                                    ELSE left[i - 1] - Lesser(left[i - 1], caps[i])
    IN  left

Greedy(layers, caps) ==
    LET left == Remaining(layers, caps)
        used == Cardinality({i \in 1..Len(caps) : left[i - 1] > 0})
    IN  [i \in 1..used |-> Lesser(left[i - 1], caps[i])]

\* Spread the layers evenly over the number of stages asked for
Even(layers, stages) ==
    [i \in 1..stages |-> layers \div stages + (IF i <= layers % stages THEN 1 ELSE 0)]

\* current_layer before each stage
StartsOverlap(counts, from) ==
    LET start[i \in DOMAIN counts] == IF i = 1 THEN from ELSE start[i - 1] + counts[i - 1] - 1
    IN  start
Starts(counts, from) ==
    LET start[i \in DOMAIN counts] == IF i = 1 THEN from ELSE start[i - 1] + counts[i - 1]
    IN  start

\* Consecutive layer ranges of the given sizes, the first starting at from
Stages(hosts, counts, caps, from) ==
    LET start == Starts(counts, from)
    IN  [i \in DOMAIN counts |-> [node |-> hosts[i], first |-> start[i],
                                  last |-> start[i] + counts[i] - 1, room |-> caps[i]]]

\* Every node that got a stage is charged one task and one dampener step
Charge(nodes) ==
    /\ \A n \in nodes : DepthPlusOne(n) <= MaxLoad /\ dampener[n] < MaxLoad
    /\ depth' = [n \in Node |-> IF n \in nodes THEN DepthPlusOne(n) ELSE depth[n]]
    /\ dampener' = [n \in Node |-> IF n \in nodes THEN dampener[n] + 1 ELSE dampener[n]]

Counted(count, nodes) == [n \in Node |-> IF n \in nodes THEN count[n] + 1 ELSE count[n]]

\* The stages before the first that got no layer
Built(stages) ==
    [i \in {i \in DOMAIN stages : \A j \in 1..i : stages[j].first <= stages[j].last}
        |-> stages[i]]

NodesOf(stages) == {stages[i].node : i \in DOMAIN stages}

\* The checks of schedule_pipeline that come before any stage is built
Placeable(hosts, caps, layers, stages) ==
    /\ Len(hosts) > 0
    /\ Total(caps) >= layers
    /\ stages > 0 => /\ Len(hosts) >= stages
                     /\ \A i \in 1..stages : Even(layers, stages)[i] <= caps[i]

\* schedule_pipeline.  Asked for more stages than there are layers it gives some
\* stage none, and that stage's LayerRange raises after the earlier stages were
\* charged.
SchedulePipeline(m, layers, per, stages) ==
    LET hosts == Hosts(m, layers, per)
        caps == [i \in DOMAIN hosts |-> Capacity(hosts[i], layers, per)]
        counts == IF stages > 0 THEN Even(layers, stages) ELSE Greedy(layers, caps)
        built == Built(Stages(hosts, counts, caps, 0))
        whole == DOMAIN built = DOMAIN counts
    IN  /\ Event
        /\ Placeable(hosts, caps, layers, stages)
        /\ Charge(NodesOf(built))
        /\ chosen' = Counted(chosen, NodesOf(built))
        /\ IF whole
           THEN /\ plan' = [split |-> FALSE, layers |-> layers, around |-> {},
                            stages |-> built]
                /\ charged' = Counted(charged, NodesOf(built))
                /\ UNCHANGED orphaned
           ELSE /\ plan' = NoPlan
                /\ orphaned' = Counted(orphaned, NodesOf(built))
                /\ UNCHANGED charged
        /\ NoBurst
        /\ UNCHANGED <<registry, seen, canary>>

\* The embedding runs on the client as layer 0 and the head as the layer after
\* the last; the layers between are spread greedily
SplitStages(middle, layers) ==
    <<[node |-> Client, first |-> 0, last |-> 0, room |-> 1]>>
        \o middle
        \o <<[node |-> Client, first |-> layers, last |-> layers, room |-> 1]>>

\* The checks at the end of schedule_split_inference_pipeline
SplitChecked(stages, layers) ==
    /\ stages[2].first = 1
    /\ \A i \in 2..Len(stages) - 2 : stages[i].last + 1 = stages[i + 1].first
    /\ stages[Len(stages) - 1].last = layers - 1

\* A layer said to need no memory counts as unsaid here
ScheduleSplit(m, layers, asked) ==
    LET per == IF asked = 0 THEN DefaultPerLayer ELSE asked
        hosts == Hosts(m, layers - 1, per)
        caps == [i \in DOMAIN hosts |-> Capacity(hosts[i], layers - 1, per)]
        middle == Stages(hosts, Greedy(layers - 1, caps), caps, 1)
        stages == SplitStages(middle, layers)
        remote == NodesOf(middle)
    IN  /\ Event
        /\ layers >= 2
        /\ Placeable(hosts, caps, layers - 1, 0)
        /\ Charge(remote)
        /\ chosen' = Counted(chosen, remote)
        /\ IF SplitChecked(stages, layers)
           THEN /\ plan' = [split |-> TRUE, layers |-> layers, around |-> {},
                            stages |-> stages]
                /\ charged' = Counted(charged, remote)
                /\ UNCHANGED orphaned
           ELSE /\ plan' = NoPlan
                /\ orphaned' = Counted(orphaned, remote)
                /\ UNCHANGED charged
        /\ NoBurst
        /\ UNCHANGED <<registry, seen, canary>>

\* restitch_pipeline_on_eviction: the first other node of the fleet takes the
\* failed node's stages; nothing is charged and no capacity is looked at
RestitchedStage(stage, failed, spare) ==
    IF stage.node = failed THEN [stage EXCEPT !.node = spare] ELSE stage

Spare(failed) ==
    CHOOSE n \in Member \ {failed} : \A x \in Member \ {failed} : Position(n) <= Position(x)

Restitch(failed) ==
    /\ plan # NoPlan /\ failed \in NodesOf(plan.stages) \ {Client}
    /\ Member \ {failed} # {}
    /\ plan' = [plan EXCEPT
                  !.around = {failed},
                  !.stages = [i \in DOMAIN plan.stages |->
                      RestitchedStage(plan.stages[i], failed, Spare(failed))]]
    /\ NoBurst
    /\ UNCHANGED <<registry, load, canary, ledger, events>>

-----------------------------------------------------------------------------
Init ==
    /\ fleet = <<>>
    /\ payload = [n \in Node |-> Absent]
    /\ beat = [n \in Node |-> Absent]
    /\ dampener = Nothing
    /\ depth = [n \in Node |-> Missing]
    /\ seen = [n \in Node |-> Missing]
    /\ failing = Nothing /\ quarantined = {}
    /\ plan = NoPlan /\ events = 0
    /\ charged = Nothing /\ orphaned = Nothing /\ chosen = Nothing
    /\ picks = Idle /\ tasks = Idle
    /\ outcomes = [n \in Node |-> <<>>]

Next ==
    \/ \E n \in Node :
        \/ \E p \in Payload : Register(n, p)
        \/ Unregister(n)
        \/ \E models \in SUBSET Model : SetAvailableModels(n, models)
        \/ \E b \in Beat : UpdateHeartbeat(n, b)
        \/ \E c \in Cpu : MapTelemetry(n, c)
        \/ \E passed \in BOOLEAN : RecordCanary(n, passed)
        \/ Restitch(n)
    \/ \E m \in Model : SelectNode(m)
    \/ \E m \in Model \cup {AnyModel} :
        \/ \E need \in Needs : ScheduleTask(m, need)
        \/ \E layers \in Layers, per \in PerLayer :
            \/ \E stages \in StageCounts : SchedulePipeline(m, layers, per, stages)
            \/ ScheduleSplit(m, layers, per)

Spec == Init /\ [][Next]_vars

-----------------------------------------------------------------------------
(***************************************************************************)
(* Properties                                                              *)
(***************************************************************************)

\* The queue depth score_nodes ranks a node by is the number of tasks
\* and stages given to it since its telemetry was last replaced, plus the stages
\* of pipelines that failed while being built: nothing is inherited from an
\* earlier registration under the same id, and nothing is counted twice.
LoadMatchesAssignments ==
    \A n \in Node : QueueDepth(n) = charged[n] + orphaned[n]

\* The dampener prevents the herd effect: during a burst of select_node calls
\* for one model, weighing what each node reported and a tenth for every choice
\* of it since, no chosen node is more than that tenth worse than another node
\* that could have been chosen.
BurstSpreads ==
    LET Weight(n) == ReportedLoad(n) + 100 * chosen[n]
    IN  \A m \in Model : picks.for = {m} =>
            \A a, b \in Selectable(m) :
                picks.of[a] > 0 => Weight(a) - 100 <= Weight(b)

\* The same of schedule_task, where the tracked queue depth does the spreading:
\* no node of a burst is worse by more than the last task it was given.
TasksSpread ==
    LET Weight(n) == 30 * (charged[n] + orphaned[n]) + CpuLoad(n)
    IN  \A m \in Model \cup {AnyModel}, need \in Needs : tasks.for = {<<m, need>>} =>
            \A a, b \in Eligible(m, need) :
                tasks.of[a] > 0 => Weight(a) - 30 <= Weight(b)

Covers(p) ==
    LET end == IF p.split THEN p.layers ELSE p.layers - 1
        On(i) == p.stages[i].first..p.stages[i].last
        remote == {i \in DOMAIN p.stages : p.stages[i].node # Client}
    IN  /\ \A l \in 0..end :
               \E i \in DOMAIN p.stages :
                   \A j \in DOMAIN p.stages : l \in On(j) <=> j = i
        /\ \A i \in DOMAIN p.stages : On(i) # {} /\ On(i) \subseteq 0..end
        /\ p.around \cap NodesOf(p.stages) = {}
        /\ p.around = {} =>
               /\ \A i \in remote : Cardinality(On(i)) <= p.stages[i].room
               /\ Cardinality(NodesOf(p.stages) \ {Client}) = Cardinality(remote)

\* A plan the engine returns, restitched or not, puts every layer on exactly one
\* stage (and no other layer on any), as PipelineConfig requires; a restitched plan has
\* none on the node it was restitched around, and until then no node has more
\* layers than it had room for, or two stages.
PlanCoversLayers == plan # NoPlan => Covers(plan)

\* A node is quarantined exactly while its latest replies, as many as it takes,
\* all failed, whatever registrations and departures happened in between.
QuarantineEarned ==
    \A n \in Node :
        n \in quarantined <=>
            /\ Len(outcomes[n]) >= Failures
            /\ \A i \in 0..Failures - 1 : ~outcomes[n][Len(outcomes[n]) - i]

\* No task and no pipeline stage is given to a node that is quarantined or gone.
OnlyTrustedCharged ==
    [][\A n \in Node : charged'[n] > charged[n] => n \in Member \ quarantined]_vars
=============================================================================

------------------------------ MODULE NodeAgent ------------------------------
(***************************************************************************)
(* One host agent (node.runtime.Runtime) and the record the Scheduler      *)
(* keeps of it, over an unreliable HTTP connection.                        *)
(*                                                                         *)
(* The agent is five coroutines that share its fields and interleave at    *)
(* their awaits: start(), stop() and the heartbeat, registration-retry and *)
(* model-refresh loops.  A request is sent in one step, served by the      *)
(* Scheduler in another and its answer consumed in a third; in between it  *)
(* may be lost, its answer may be lost, or it may be given up on and still *)
(* be served later (the client's timeout is 5 s).                          *)
(*                                                                         *)
(* A catalogue stands for the sorted model names _model_names compares.    *)
(***************************************************************************)
EXTENDS Naturals

CONSTANTS
    Catalogue,    \* model lists Ollama may report
    Nothing,      \* the empty model list, in Catalogue
    Absent,       \* no record, no request, no node_info
    Faulty,       \* operations whose requests the network may fail
    MaxFaults,    \* requests that fail or outlive their task, records the Scheduler
                  \* drops on its own and changes of Ollama's models, together
    EarlierRecord,\* TRUE: a record of an earlier process may exist
    MaxStops,     \* times the control API may stop the runtime
    Overlap       \* TRUE: start and stop may arrive inside each other

ASSUME AgentAssumption ==
    /\ Nothing \in Catalogue
    /\ Absent \notin Catalogue
    /\ Faulty \subseteq {"register", "put", "beat", "delete"}
    /\ {MaxFaults, MaxStops} \subseteq Nat
    /\ {EarlierRecord, Overlap} \subseteq BOOLEAN

VARIABLES
    running,     \* is_running
    status,      \* registration_status
    info,        \* node_info.available_models, or Absent
    advertised,  \* advertised_models
    synced,      \* catalogue_synced
    mesh,        \* Zenoh session, telemetry emitter and mesh server are up
    at,          \* where each coroutine is
    call,        \* the request each coroutine awaits, or Absent
    record,      \* the Scheduler's catalogue for this node, or Absent
    late,        \* requests given up on that are still under way
    ollama,      \* what Ollama serves now
    halted,      \* history: stop() has returned and start() was not called since
    overtaken,   \* history: a 404 heartbeat landed inside the retry's push
    crossed,     \* history: which of start() and stop() was called inside the other
    spent        \* how much of each bound is used

agent == <<running, status, info, advertised, synced, mesh>>
history == <<halted, overtaken, crossed>>
vars == <<agent, at, call, record, late, ollama, history, spent>>

Coroutine == {"start", "stop", "heartbeat", "retry", "refresh"}
Loop == {"heartbeat", "retry", "refresh"}
Bounded == {"faults", "stops"}
Limit == [b \in Bounded |-> IF b = "faults" THEN MaxFaults ELSE MaxStops]

Spend(b) == spent[b] < Limit[b] /\ spent' = [spent EXCEPT ![b] = @ + 1]

Fails(co) == call[co].req.op \in Faulty /\ Spend("faults")

-----------------------------------------------------------------------------
(***************************************************************************)
(* The Scheduler's handlers, as this agent sees them                       *)
(***************************************************************************)

\* register_node creates, update_node_models replaces, unregister_node removes
RecordAfter(req) ==
    CASE req.op = "register" -> IF record = Absent THEN req.models ELSE record
      [] req.op = "put"      -> IF record = Absent THEN Absent ELSE req.models
      [] req.op = "beat"     -> record
      [] req.op = "delete"   -> Absent

AnswerTo(req) ==
    IF req.op = "register" THEN IF record = Absent THEN "ok" ELSE "conflict"
                           ELSE IF record = Absent THEN "missing" ELSE "ok"

Serve(co) ==
    /\ call[co] # Absent /\ call[co].answer = "none"
    /\ record' = RecordAfter(call[co].req)
    /\ call' = [call EXCEPT ![co].answer = AnswerTo(call[co].req)]
    /\ UNCHANGED <<agent, at, late, ollama, history, spent>>

\* httpx.RequestError: the request never arrived, ...
Lose(co) ==
    /\ call[co] # Absent /\ call[co].answer = "none"
    /\ Fails(co)
    /\ call' = [call EXCEPT ![co].answer = "error"]
    /\ UNCHANGED <<agent, at, record, late, ollama, history>>

\* ... or it was served and its answer did not come back in time, ...
Unheard(co) ==
    /\ call[co] # Absent /\ call[co].answer \notin {"none", "error"}
    /\ Fails(co)
    /\ call' = [call EXCEPT ![co].answer = "error"]
    /\ UNCHANGED <<agent, at, record, late, ollama, history>>

\* ... or it timed out first and is served later.
GiveUp(co) ==
    /\ call[co] # Absent /\ call[co].answer = "none"
    /\ Fails(co)
    /\ late' = late \cup {call[co].req}
    /\ call' = [call EXCEPT ![co].answer = "error"]
    /\ UNCHANGED <<agent, at, record, ollama, history>>

ServeLate(req) ==
    /\ req \in late
    /\ record' = RecordAfter(req)
    /\ late' = late \ {req}
    /\ UNCHANGED <<agent, at, call, ollama, history, spent>>

\* A stale-sweep eviction, or a restart that lost the registry
Forget ==
    /\ record # Absent
    /\ Spend("faults")
    /\ record' = Absent
    /\ UNCHANGED <<agent, at, call, late, ollama, history>>

OllamaChanges(models) ==
    /\ models # ollama
    /\ Spend("faults")
    /\ ollama' = models
    /\ UNCHANGED <<agent, at, call, record, late, history>>

-----------------------------------------------------------------------------
Sent(op, models) == [req |-> [op |-> op, models |-> models], answer |-> "none"]

Answered(co, a) == call[co] # Absent /\ call[co].answer = a

\* _arm_registration_retry: start the retry loop unless one is running
RetryNotArmed == at["retry"]
RetryArmed == IF at["retry"] = "off" THEN "ready" ELSE at["retry"]

(***************************************************************************)
(* start()                                                                 *)
(***************************************************************************)

\* is_running is all that control_node and start() look at, so a start is also
\* accepted while stop() awaits its DELETE.  The model follows one generation of
\* loops: a start that would create a second one beside the first is left out.
StartCalled ==
    /\ ~running
    /\ at["start"] = "off"
    /\ at["stop"] = "off" \/ (Overlap /\ at["stop"] = "leaving")
    /\ \A l \in Loop : at[l] = "off"
    /\ running' = TRUE
    /\ status' = "starting"
    /\ at' = [at EXCEPT !["start"] = "ready"]
    /\ halted' = FALSE
    /\ overtaken' = FALSE
    /\ crossed' = IF at["stop"] = "off" THEN crossed \ {"start in stop"}
                                      ELSE crossed \cup {"start in stop"}
    /\ UNCHANGED <<info, advertised, synced, mesh, call, record, late, ollama, spent>>

\* Model discovery returns (an unreachable Ollama advertises nothing) and the
\* first registration is sent.
StartRegisters(models) ==
    /\ at["start"] = "ready"
    /\ models \in {ollama, Nothing}
    /\ info' = models
    /\ at' = [at EXCEPT !["start"] = "registering"]
    /\ call' = [call EXCEPT !["start"] = Sent("register", models)]
    /\ UNCHANGED <<running, status, advertised, synced, mesh, record, late, ollama,
                   history, spent>>

\* Everything after the registration attempt: mesh side, then the two loops
StartFinishes(retry) ==
    /\ mesh' \in BOOLEAN
    /\ at' = [at EXCEPT !["start"] = "off", !["heartbeat"] = "ready",
                        !["refresh"] = "ready", !["retry"] = retry]
    /\ call' = [call EXCEPT !["start"] = Absent]
    /\ UNCHANGED <<running, info, record, late, ollama, history, spent>>

StartRegistered ==
    /\ at["start"] = "registering" /\ Answered("start", "ok")
    /\ status' = "registered"
    /\ advertised' = info
    /\ synced' = TRUE
    /\ StartFinishes(at["retry"])

StartFailed ==
    /\ at["start"] = "registering" /\ Answered("start", "error")
    /\ status' = "pending"
    /\ UNCHANGED <<advertised, synced>>
    /\ StartFinishes(RetryArmed)

\* 409: an earlier process's record has to be corrected
Conflict(co) ==
    /\ at[co] = "registering" /\ Answered(co, "conflict")
    /\ status' = "registered"
    /\ at' = [at EXCEPT ![co] = "pushing"]
    /\ call' = [call EXCEPT ![co] = Sent("put", info)]
    /\ UNCHANGED <<running, info, advertised, synced, mesh, record, late, ollama,
                   history, spent>>

\* _publish_model_catalogue records the catalogue only if the push landed
AdvertisedAfter(co) == IF Answered(co, "ok") THEN call[co].req.models ELSE advertised
SyncedAfter(co) == synced \/ Answered(co, "ok")

PushSettled(co) ==
    /\ at[co] = "pushing" /\ call[co].answer # "none"
    /\ advertised' = AdvertisedAfter(co)
    /\ synced' = SyncedAfter(co)

StartPushed ==
    /\ PushSettled("start")
    /\ UNCHANGED status
    /\ StartFinishes(at["retry"])

-----------------------------------------------------------------------------
(***************************************************************************)
(* _heartbeat_loop                                                         *)
(***************************************************************************)

\* Only a registered node heartbeats; otherwise the loop sleeps on.
Beat ==
    /\ at["heartbeat"] = "ready" /\ running /\ status = "registered"
    /\ at' = [at EXCEPT !["heartbeat"] = "beating"]
    /\ call' = [call EXCEPT !["heartbeat"] = Sent("beat", Nothing)]
    /\ UNCHANGED <<agent, record, late, ollama, history, spent>>

\* 404: the Scheduler has forgotten this node
BeatMissing ==
    /\ at["heartbeat"] = "beating" /\ Answered("heartbeat", "missing")
    /\ status' = "pending"
    /\ at' = [at EXCEPT !["heartbeat"] = "ready", !["retry"] = RetryArmed]
    /\ call' = [call EXCEPT !["heartbeat"] = Absent]
    /\ overtaken' = (overtaken \/ at["retry"] = "pushing")
    /\ UNCHANGED <<running, info, advertised, synced, mesh, record, late, ollama,
                   halted, crossed, spent>>

\* Any other outcome is only logged
BeatOver ==
    /\ at["heartbeat"] = "beating" /\ call["heartbeat"].answer \in {"ok", "error"}
    /\ at' = [at EXCEPT !["heartbeat"] = "ready"]
    /\ call' = [call EXCEPT !["heartbeat"] = Absent]
    /\ UNCHANGED <<agent, record, late, ollama, history, spent>>

-----------------------------------------------------------------------------
(***************************************************************************)
(* _registration_retry_loop                                                *)
(***************************************************************************)

\* Awake from the backoff, the loop tries once more without looking at the
\* status again; it re-sends the payload measured at startup.
Retry ==
    /\ at["retry"] = "ready" /\ running
    /\ at' = [at EXCEPT !["retry"] = "registering"]
    /\ call' = [call EXCEPT !["retry"] = Sent("register", info)]
    /\ UNCHANGED <<agent, record, late, ollama, history, spent>>

RetryRegistered ==
    /\ at["retry"] = "registering" /\ Answered("retry", "ok")
    /\ status' = "registered"
    /\ advertised' = info
    /\ synced' = TRUE
    /\ at' = [at EXCEPT !["retry"] = "off"]
    /\ call' = [call EXCEPT !["retry"] = Absent]
    /\ UNCHANGED <<running, info, mesh, record, late, ollama, history, spent>>

\* The attempt failed: back to the head of the loop, which leaves it if
\* the status says registered or the agent was stopped
RetryGivesUp == "off"
RetryContinues == IF running /\ status # "registered" THEN "ready" ELSE "off"

RetryFailed ==
    /\ at["retry"] = "registering" /\ Answered("retry", "error")
    /\ at' = [at EXCEPT !["retry"] = RetryContinues]
    /\ call' = [call EXCEPT !["retry"] = Absent]
    /\ UNCHANGED <<agent, record, late, ollama, history, spent>>

\* After the 409 push the loop returns, whatever the status is by then
RetryPushed ==
    /\ PushSettled("retry")
    /\ at' = [at EXCEPT !["retry"] = "off"]
    /\ call' = [call EXCEPT !["retry"] = Absent]
    /\ UNCHANGED <<running, status, info, mesh, record, late, ollama, history, spent>>

-----------------------------------------------------------------------------
(***************************************************************************)
(* _model_refresh_loop and _refresh_model_catalogue                        *)
(***************************************************************************)

\* The difference check; an unreachable Ollama keeps the old catalogue
NeedsPush == ~(synced /\ ollama = advertised)

Refresh ==
    /\ at["refresh"] = "ready" /\ running /\ status = "registered"
    /\ NeedsPush
    /\ at' = [at EXCEPT !["refresh"] = "pushing"]
    /\ call' = [call EXCEPT !["refresh"] = Sent("put", ollama)]
    /\ UNCHANGED <<agent, record, late, ollama, history, spent>>

RefreshPushed ==
    /\ PushSettled("refresh")
    /\ at' = [at EXCEPT !["refresh"] = "ready"]
    /\ call' = [call EXCEPT !["refresh"] = Absent]
    /\ UNCHANGED <<running, status, info, mesh, record, late, ollama, history, spent>>

-----------------------------------------------------------------------------
(***************************************************************************)
(* stop(), and loops that notice they should end                           *)
(***************************************************************************)

LoopEnds(l) ==
    /\ at[l] = "ready" /\ ~running
    /\ at' = [at EXCEPT ![l] = "off"]
    /\ UNCHANGED <<agent, call, record, late, ollama, history, spent>>

StopCalled ==
    /\ running
    /\ Spend("stops")
    /\ at["stop"] = "off" /\ (Overlap \/ at["start"] = "off")
    /\ running' = FALSE
    /\ status' = "stopping"
    /\ at' = [at EXCEPT !["stop"] = "draining"]
    /\ crossed' = IF at["start"] = "off" THEN crossed ELSE crossed \cup {"stop in start"}
    /\ UNCHANGED <<info, advertised, synced, mesh, call, record, late, ollama, halted,
                   overtaken>>

\* In-flight mesh answers are awaited, then the tasks are cancelled, the mesh
\* side closed and the DELETE sent.  A request whose task is cancelled may
\* still be served.
CancelledAllButRetry == {"heartbeat", "refresh"}
CancelledLoops == Loop

StopCancels(abandoned) ==
    /\ at["stop"] = "draining"
    /\ abandoned \subseteq {l \in CancelledLoops : call[l] # Absent /\ call[l].answer = "none"}
    /\ late' = late \cup {call[l].req : l \in abandoned}
    /\ mesh' = FALSE
    /\ at' = [co \in Coroutine |-> CASE co \in CancelledLoops -> "off"
                                     [] co = "stop" -> "leaving"
                                     [] OTHER -> at[co]]
    /\ call' = [co \in Coroutine |-> CASE co \in CancelledLoops -> Absent
                                       [] co = "stop" -> Sent("delete", Nothing)
                                       [] OTHER -> call[co]]
    /\ IF abandoned = {} THEN UNCHANGED spent ELSE Spend("faults")
    /\ UNCHANGED <<running, status, info, advertised, synced, record, ollama, history>>

\* Errors of the DELETE are suppressed
StopReturns ==
    /\ at["stop"] = "leaving" /\ call["stop"].answer # "none"
    /\ status' = "unregistered"
    /\ at' = [at EXCEPT !["stop"] = "off"]
    /\ call' = [call EXCEPT !["stop"] = Absent]
    /\ halted' = ~running
    /\ UNCHANGED <<running, info, advertised, synced, mesh, record, late, ollama,
                   overtaken, crossed, spent>>

-----------------------------------------------------------------------------
Init ==
    /\ running = FALSE /\ status = "not_started" /\ info = Absent
    /\ advertised = Nothing /\ synced = FALSE /\ mesh = FALSE
    /\ at = [co \in Coroutine |-> "off"]
    /\ call = [co \in Coroutine |-> Absent]
    /\ record \in IF EarlierRecord THEN Catalogue \cup {Absent} ELSE {Absent}
    /\ late = {}
    /\ ollama \in Catalogue
    /\ halted = FALSE /\ overtaken = FALSE /\ crossed = {}
    /\ spent = [b \in Bounded |-> 0]

StartStep ==
    \/ StartCalled
    \/ \E m \in Catalogue : StartRegisters(m)
    \/ StartRegistered \/ StartFailed \/ StartPushed
    \/ Conflict("start")

HeartbeatStep == Beat \/ BeatMissing \/ BeatOver

RetryStep == Retry \/ RetryRegistered \/ RetryFailed \/ RetryPushed \/ Conflict("retry")

RefreshStep == Refresh \/ RefreshPushed

StopStep ==
    \/ \E abandoned \in SUBSET Loop : StopCancels(abandoned)
    \/ StopReturns
    \/ \E l \in Loop : LoopEnds(l)

Environment ==
    \/ \E co \in Coroutine : Lose(co) \/ Unheard(co) \/ GiveUp(co)
    \/ Forget
    \/ \E m \in Catalogue : OllamaChanges(m)

Next ==
    \/ StartStep \/ HeartbeatStep \/ RetryStep \/ RefreshStep \/ StopStep
    \/ StopCalled
    \/ \E co \in Coroutine : Serve(co)
    \/ \E req \in late : ServeLate(req)
    \/ Environment

Spec == Init /\ [][Next]_vars

\* Every coroutine whose sleep or request is over is resumed by the event loop,
\* and every request is served or fails (the client's timeout).  Registration
\* needs this of three coroutines only ...
Registering == {"start", "heartbeat", "retry"}

RecoveryFairness ==
    /\ WF_vars(StartStep) /\ WF_vars(HeartbeatStep) /\ WF_vars(RetryStep)
    /\ \A co \in Registering : WF_vars(Serve(co))

RecoverySpec == Spec /\ RecoveryFairness

\* ... the others have it too, and a request given up on does not stay on the
\* wire for ever.
Fairness ==
    /\ RecoveryFairness
    /\ WF_vars(RefreshStep) /\ WF_vars(StopStep)
    /\ \A co \in Coroutine \ Registering : WF_vars(Serve(co))
    /\ WF_vars(\E req \in late : ServeLate(req))

FairSpec == Spec /\ Fairness

-----------------------------------------------------------------------------
\* A running node that is pending has its retry loop, however answers are lost,
\* requests arrive late and start() and stop() cross, with one exception: the 404
\* heartbeat that lands inside the retry loop's own catalogue push.
PendingIsRetried ==
    running /\ status = "pending" /\ at["start"] = "off" /\ ~overtaken
        => at["retry"] # "off"

\* Once stop() has returned, and until start() is called again, no loop runs and
\* nothing of the mesh side is left open.
StopLeavesNothingRunning ==
    halted => ~mesh /\ \A l \in Loop : at[l] = "off"

\* The same for every history in which stop() never came inside start(): a start()
\* inside stop()'s DELETE leaves nothing behind that the next stop() does not end.
CleanStop == "stop in start" \notin crossed => StopLeavesNothingRunning

\* A running node that the Scheduler has no record of gets one again.
RegistrationRecovers == (running /\ record = Absent) ~> (record # Absent \/ ~running)

\* While the node is registered its record comes to be what Ollama serves: the
\* refresh loop sees every difference and repeats every push that failed.
CatalogueConverges ==
    (running /\ status = "registered")
        ~> (record = ollama \/ ~running \/ status # "registered")

\* A record is regained whatever is lost, late, forgotten or restarted, unless the
\* 404 came inside the retry's push or start() came inside stop().
Strandable == overtaken \/ "start in stop" \in crossed

RecoversUnlessRaced ==
    (running /\ record = Absent) ~> (record # Absent \/ ~running \/ Strandable)
=============================================================================

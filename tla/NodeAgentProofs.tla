--------------------------- MODULE NodeAgentProofs ---------------------------
(***************************************************************************)
(* Proofs about NodeAgent, for any catalogues, faults, stops and           *)
(* interleavings: a pending node is being retried, and a stop that did not *)
(* come inside a start leaves nothing running.                             *)
(***************************************************************************)
EXTENDS NodeAgent, TLAPS

Place == {"off", "ready", "registering", "pushing", "beating", "draining", "leaving"}

\* What both proofs need of the coroutines: a start() that is under way has the
\* agent to itself, and cancelling is only ever done to a stopped agent.
CoroutineInv ==
    /\ at \in [Coroutine -> Place]
    /\ at["stop"] = "draining" => ~running
    /\ at["start"] # "off" => \A l \in Loop : at[l] = "off"

\* The inductive strengthening of PendingIsRetried.  start() never leaves the
\* status pending without arming the loop, and inside the loop's push the status
\* is pending only if a heartbeat made it so.
RetryInv ==
    /\ CoroutineInv
    /\ at["start"] # "off" => status # "pending"
    /\ at["retry"] = "pushing" /\ status = "pending" => overtaken
    /\ PendingIsRetried

\* The inductive strengthening of CleanStop, for histories in which no stop()
\* came inside a start(): then a stopped agent has no start() under way, and
\* from the cancelling on nothing of it runs.
StopInv ==
    /\ CoroutineInv
    /\ halted => ~running
    /\ "stop in start" \notin crossed =>
          /\ ~running => at["start"] = "off"
          /\ ~running /\ (halted \/ at["stop"] = "leaving") =>
                ~mesh /\ \A l \in Loop : at[l] = "off"

\* The requests under way, the record and Ollama move without the coroutines.
Elsewhere ==
    \/ \E co \in Coroutine : Serve(co) \/ Lose(co) \/ Unheard(co) \/ GiveUp(co)
    \/ \E req \in late : ServeLate(req)
    \/ Forget
    \/ \E m \in Catalogue : OllamaChanges(m)
    \/ UNCHANGED vars

LEMMA ElsewhereKeeps == Elsewhere => UNCHANGED <<agent, at, history>>
  BY DEF Elsewhere, Serve, Lose, Unheard, GiveUp, ServeLate, Forget, OllamaChanges, vars

LEMMA StepParts ==
    ASSUME [Next]_vars
    PROVE  \/ StartStep \/ HeartbeatStep \/ RetryStep \/ RefreshStep \/ StopStep
           \/ StopCalled \/ Elsewhere
  BY DEF Next, Environment, Elsewhere

\* Every step keeps what is known of the coroutines.
LEMMA CoroutineStep == CoroutineInv /\ [Next]_vars => CoroutineInv'
<1> SUFFICES ASSUME CoroutineInv, [Next]_vars PROVE CoroutineInv' OBVIOUS
<1> USE DEF CoroutineInv, Place, Coroutine, Loop, agent
<1>1. CASE StartStep
  <2>1. CASE StartCalled BY <2>1 DEF StartCalled
  <2>2. ASSUME NEW m \in Catalogue, StartRegisters(m) PROVE CoroutineInv'
    BY <2>2 DEF StartRegisters
  <2>3. CASE StartRegistered BY <2>3 DEF StartRegistered, StartFinishes
  <2>4. CASE StartFailed BY <2>4 DEF StartFailed, StartFinishes, RetryArmed
  <2>5. CASE StartPushed BY <2>5 DEF StartPushed, PushSettled, StartFinishes
  <2>6. CASE Conflict("start") BY <2>6 DEF Conflict
  <2> QED BY <1>1, <2>1, <2>2, <2>3, <2>4, <2>5, <2>6 DEF StartStep
<1>2. CASE HeartbeatStep
  BY <1>2 DEF HeartbeatStep, Beat, BeatMissing, BeatOver, RetryArmed
<1>3. CASE RetryStep
  BY <1>3 DEF RetryStep, Retry, RetryRegistered, RetryFailed, RetryContinues, RetryPushed,
              PushSettled, Conflict
<1>4. CASE RefreshStep BY <1>4 DEF RefreshStep, Refresh, RefreshPushed, PushSettled
<1>5. CASE StopStep
  <2>1. ASSUME NEW abandoned, StopCancels(abandoned) PROVE CoroutineInv'
    BY <2>1 DEF StopCancels, CancelledLoops
  <2>2. CASE StopReturns BY <2>2 DEF StopReturns
  <2>3. ASSUME NEW l \in Loop, LoopEnds(l) PROVE CoroutineInv' BY <2>3 DEF LoopEnds
  <2> QED BY <1>5, <2>1, <2>2, <2>3 DEF StopStep
<1>6. CASE StopCalled BY <1>6 DEF StopCalled
<1>7. CASE Elsewhere BY <1>7, ElsewhereKeeps
<1> QED BY <1>1, <1>2, <1>3, <1>4, <1>5, <1>6, <1>7, StepParts

LEMMA RetryStepKeeps == RetryInv /\ [Next]_vars => RetryInv'
<1> SUFFICES ASSUME RetryInv, [Next]_vars PROVE RetryInv' OBVIOUS
<1>0. CoroutineInv' BY CoroutineStep DEF RetryInv
<1> USE <1>0 DEF RetryInv, CoroutineInv, PendingIsRetried, Place, Coroutine, Loop, agent, history
<1>1. CASE StartStep
  <2>1. CASE StartCalled BY <2>1 DEF StartCalled
  <2>2. ASSUME NEW m \in Catalogue, StartRegisters(m) PROVE RetryInv'
    BY <2>2 DEF StartRegisters
  <2>3. CASE StartRegistered BY <2>3 DEF StartRegistered, StartFinishes
  <2>4. CASE StartFailed BY <2>4 DEF StartFailed, StartFinishes, RetryArmed
  <2>5. CASE StartPushed BY <2>5 DEF StartPushed, PushSettled, StartFinishes
  <2>6. CASE Conflict("start") BY <2>6 DEF Conflict
  <2> QED BY <1>1, <2>1, <2>2, <2>3, <2>4, <2>5, <2>6 DEF StartStep
<1>2. CASE HeartbeatStep
  <2>1. CASE Beat BY <2>1 DEF Beat
  <2>2. CASE BeatMissing BY <2>2 DEF BeatMissing, RetryArmed
  <2>3. CASE BeatOver BY <2>3 DEF BeatOver
  <2> QED BY <1>2, <2>1, <2>2, <2>3 DEF HeartbeatStep
<1>3. CASE RetryStep
  <2>1. CASE Retry BY <2>1 DEF Retry
  <2>2. CASE RetryRegistered BY <2>2 DEF RetryRegistered
  <2>3. CASE RetryFailed BY <2>3 DEF RetryFailed, RetryContinues
  <2>4. CASE RetryPushed BY <2>4 DEF RetryPushed, PushSettled
  <2>5. CASE Conflict("retry") BY <2>5 DEF Conflict
  <2> QED BY <1>3, <2>1, <2>2, <2>3, <2>4, <2>5 DEF RetryStep
<1>4. CASE RefreshStep BY <1>4 DEF RefreshStep, Refresh, RefreshPushed, PushSettled
<1>5. CASE StopStep
  <2>1. ASSUME NEW abandoned, StopCancels(abandoned) PROVE RetryInv'
    BY <2>1 DEF StopCancels, CancelledLoops
  <2>2. CASE StopReturns BY <2>2 DEF StopReturns
  <2>3. ASSUME NEW l \in Loop, LoopEnds(l) PROVE RetryInv' BY <2>3 DEF LoopEnds
  <2> QED BY <1>5, <2>1, <2>2, <2>3 DEF StopStep
<1>6. CASE StopCalled BY <1>6 DEF StopCalled
<1>7. CASE Elsewhere BY <1>7, ElsewhereKeeps
<1> QED BY <1>1, <1>2, <1>3, <1>4, <1>5, <1>6, <1>7, StepParts

\* A running node whose status is pending has its retry loop, unless a 404
\* heartbeat landed inside that loop's own push (Runtime._registration_retry_loop
\* returns after the push without looking at the status again).
THEOREM PendingNodesRetry == Spec => []PendingIsRetried
<1>1. Init => RetryInv
  BY DEF Init, RetryInv, CoroutineInv, PendingIsRetried, Place, Coroutine, Loop
<1>2. RetryInv => PendingIsRetried BY DEF RetryInv
<1> QED BY <1>1, <1>2, RetryStepKeeps, PTL DEF Spec

LEMMA StopStepKeeps == StopInv /\ [Next]_vars => StopInv'
<1> SUFFICES ASSUME StopInv, [Next]_vars PROVE StopInv' OBVIOUS
<1>0. CoroutineInv' BY CoroutineStep DEF StopInv
<1> USE <1>0 DEF StopInv, CoroutineInv, Place, Coroutine, Loop, agent, history
<1>1. CASE StartStep
  <2>1. CASE StartCalled BY <2>1 DEF StartCalled
  <2>2. ASSUME NEW m \in Catalogue, StartRegisters(m) PROVE StopInv'
    BY <2>2 DEF StartRegisters
  <2>3. CASE StartRegistered BY <2>3 DEF StartRegistered, StartFinishes
  <2>4. CASE StartFailed BY <2>4 DEF StartFailed, StartFinishes, RetryArmed
  <2>5. CASE StartPushed BY <2>5 DEF StartPushed, PushSettled, StartFinishes
  <2>6. CASE Conflict("start") BY <2>6 DEF Conflict
  <2> QED BY <1>1, <2>1, <2>2, <2>3, <2>4, <2>5, <2>6 DEF StartStep
<1>2. CASE HeartbeatStep
  <2>1. CASE Beat BY <2>1 DEF Beat
  <2>2. CASE BeatMissing BY <2>2 DEF BeatMissing, RetryArmed
  <2>3. CASE BeatOver BY <2>3 DEF BeatOver
  <2> QED BY <1>2, <2>1, <2>2, <2>3 DEF HeartbeatStep
<1>3. CASE RetryStep
  <2>1. CASE Retry BY <2>1 DEF Retry
  <2>2. CASE RetryRegistered BY <2>2 DEF RetryRegistered
  <2>3. CASE RetryFailed BY <2>3 DEF RetryFailed, RetryContinues
  <2>4. CASE RetryPushed BY <2>4 DEF RetryPushed, PushSettled
  <2>5. CASE Conflict("retry") BY <2>5 DEF Conflict
  <2> QED BY <1>3, <2>1, <2>2, <2>3, <2>4, <2>5 DEF RetryStep
<1>4. CASE RefreshStep
  <2>1. CASE Refresh BY <2>1 DEF Refresh
  <2>2. CASE RefreshPushed BY <2>2 DEF RefreshPushed, PushSettled
  <2> QED BY <1>4, <2>1, <2>2 DEF RefreshStep
<1>5. CASE StopStep
  <2>1. ASSUME NEW abandoned, StopCancels(abandoned) PROVE StopInv'
    BY <2>1 DEF StopCancels, CancelledLoops
  <2>2. CASE StopReturns BY <2>2 DEF StopReturns
  <2>3. ASSUME NEW l \in Loop, LoopEnds(l) PROVE StopInv' BY <2>3 DEF LoopEnds
  <2> QED BY <1>5, <2>1, <2>2, <2>3 DEF StopStep
<1>6. CASE StopCalled
  <2>1. /\ ~halted /\ UNCHANGED halted /\ at'["start"] = at["start"]
        /\ at'["stop"] = "draining" /\ running' = FALSE
        /\ "stop in start" \notin crossed' => at["start"] = "off"
    BY <1>6 DEF StopCalled
  <2> QED BY <2>1
<1>7. CASE Elsewhere
  <2>1. UNCHANGED <<running, mesh, at, halted, crossed>> BY <1>7, ElsewhereKeeps
  <2> QED BY <2>1
<1> QED BY <1>1, <1>2, <1>3, <1>4, <1>5, <1>6, <1>7, StepParts

\* Once Runtime.stop() has returned no loop runs and the mesh side is closed, in
\* every history without a stop() inside a start(), a start() inside a stop()
\* included.
THEOREM StopsAreClean == Spec => []CleanStop
<1>1. Init => StopInv
  BY DEF Init, StopInv, CoroutineInv, Place, Coroutine, Loop
<1>2. StopInv => CleanStop
  BY DEF StopInv, CleanStop, StopLeavesNothingRunning
<1> QED BY <1>1, <1>2, StopStepKeeps, PTL DEF Spec
=============================================================================

------------------------------ MODULE MeshServer ------------------------------
(***************************************************************************)
(* How a node tells a fresh mesh inference query from a repeated one:      *)
(* verify_request and the bounded NonceCache of pi_shared.mesh_protocol,   *)
(* as the node's ZenohInferenceServer uses them.                           *)
(*                                                                         *)
(* The Scheduler builds a request once, with its own clock.  The mesh may  *)
(* deliver copies of it at any later time, any number of times, whole or   *)
(* damaged; a query is verified and its nonce claimed without suspending,  *)
(* in one step of the node's event loop.  Restarting the runtime makes a   *)
(* new server with an empty cache.                                         *)
(***************************************************************************)
EXTENDS Integers, Sequences, FiniteSets, SequencesExt

CONSTANTS
    Request,     \* requests, each with its own nonce
    None,
    Skew,        \* MAX_CLOCK_SKEW_SECONDS
    NonceCapacity, \* NONCE_CACHE_SIZE
    Drift,       \* how far the Scheduler's clock may be from the node's
    MaxClock,    \* bound on time
    MaxRestarts  \* bound on restarts of the server

VARIABLES
    clock,       \* the node's clock
    stamp,       \* the timestamp a request was built with, or None
    seen,        \* _seen: nonces in the order they were claimed
    serving,     \* the queryable is declared
    answered,    \* history: how often this server ran a request, up to 2
    claimed,     \* history: nonces this server ever claimed
    restarts

serverVars == <<clock, stamp, seen, serving, answered, claimed, restarts>>

Copy == {"whole", "malformed", "misaddressed", "altered"}

\* build_request
Build(r, ts) ==
    /\ stamp[r] = None
    /\ ts \in (clock - Drift)..(clock + Drift)
    /\ stamp' = [stamp EXCEPT ![r] = ts]
    /\ UNCHANGED <<clock, seen, serving, answered, claimed, restarts>>

-----------------------------------------------------------------------------
(***************************************************************************)
(* NonceCache.claim                                                        *)
(***************************************************************************)

\* min over _seen: the first of the entries with the smallest timestamp
Newest ==
    CHOOSE i \in DOMAIN seen :
        \A j \in DOMAIN seen : stamp[seen[j]] <= stamp[seen[i]]
Oldest ==
    CHOOSE i \in DOMAIN seen :
        \A j \in DOMAIN seen : /\ stamp[seen[i]] <= stamp[seen[j]]
                               /\ stamp[seen[i]] = stamp[seen[j]] => i <= j

Evicted == IF Len(seen) >= NonceCapacity THEN RemoveAt(seen, Oldest) ELSE seen

Unused(r) == r \notin Range(seen)

-----------------------------------------------------------------------------
(***************************************************************************)
(* verify_request, in the order of its checks                              *)
(***************************************************************************)

Fresh(r) == clock - stamp[r] \in (-Skew)..Skew

\* Only a copy whose signature verifies reaches the cache.
ClaimsUnsigned(r, copy) == copy \in {"whole", "altered"} /\ Fresh(r)
Claims(r, copy) == copy = "whole" /\ Fresh(r)

\* The query is run ...
Serve(r, copy) ==
    /\ serving /\ stamp[r] # None
    /\ Claims(r, copy) /\ Unused(r)
    /\ seen' = Append(Evicted, r)
    /\ claimed' = claimed \cup {r}
    /\ answered' = [answered EXCEPT ![r] = IF copy # "whole" THEN @
                                           ELSE IF @ = 2 THEN 2 ELSE @ + 1]
    /\ UNCHANGED <<clock, stamp, serving, restarts>>

\* ... or refused: malformed, addressed elsewhere, stale, wrongly signed, or used.
Refuse(r, copy) ==
    /\ serving /\ stamp[r] # None
    /\ ~(Claims(r, copy) /\ Unused(r))
    /\ UNCHANGED serverVars

-----------------------------------------------------------------------------
Stop ==
    /\ serving
    /\ restarts < MaxRestarts
    /\ serving' = FALSE
    /\ UNCHANGED <<clock, stamp, seen, answered, claimed, restarts>>

\* Runtime.start makes a new ZenohInferenceServer.
Restart ==
    /\ ~serving
    /\ serving' = TRUE
    /\ seen' = <<>>
    /\ claimed' = {}
    /\ answered' = [r \in Request |-> 0]
    /\ restarts' = restarts + 1
    /\ UNCHANGED <<clock, stamp>>

Tick ==
    /\ clock < MaxClock
    /\ clock' = clock + 1
    /\ UNCHANGED <<stamp, seen, serving, answered, claimed, restarts>>

Init ==
    /\ clock = 0
    /\ stamp = [r \in Request |-> None]
    /\ seen = <<>>
    /\ serving = TRUE
    /\ answered = [r \in Request |-> 0]
    /\ claimed = {}
    /\ restarts = 0

Next ==
    \/ \E r \in Request : \E ts \in (clock - Drift)..(clock + Drift) : Build(r, ts)
    \/ \E r \in Request, copy \in Copy : Serve(r, copy) \/ Refuse(r, copy)
    \/ Stop \/ Restart \/ Tick

-----------------------------------------------------------------------------
\* One server runs a request twice only if it claimed at least as many others as
\* the cache holds with timestamps within two freshness windows of it: entries too
\* old to be repeated make room first, so the cache protects every request unless
\* that much genuine traffic arrives.
RepeatNeedsFlood ==
    \A r \in Request : answered[r] > 1 =>
        Cardinality({q \in claimed \ {r} :
                        stamp[q] - stamp[r] \in (-2 * Skew)..(2 * Skew)}) >= NonceCapacity

\* Every nonce in the cache was spent by running its request: a damaged copy never
\* uses up the nonce of the request it was made from.
NonceSpentByService == \A i \in DOMAIN seen : answered[seen[i]] > 0
=============================================================================

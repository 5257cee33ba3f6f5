----------------------------- MODULE RateLimiter -----------------------------
(***************************************************************************)
(* scheduler.core.rate_limiter.TokenBucketLimiter: lazily created buckets, *)
(* refilled only when their tenant asks, and dropped by a sweep that runs  *)
(* every SweepEvery acquisitions.  acquire holds a lock and awaits nothing *)
(* under it: one action.                                                   *)
(*                                                                         *)
(* The bucket map is known (its keys), tokens and last (zero for tenants   *)
(* that are not keys).  Units are those of TokenBucket.                    *)
(***************************************************************************)
EXTENDS Integers

CONSTANTS
    Tenant, NoTenant, Capacity, Cost, MaxTime,
    IdleEviction,  \* idle_eviction_seconds, in ticks
    SweepEvery     \* _SWEEP_INTERVAL_ACQUISITIONS

ASSUME LimiterAssumption ==
    /\ Capacity \in Nat /\ Cost \in Nat \ {0} /\ MaxTime \in Nat
    /\ NoTenant \notin Tenant
    /\ IdleEviction \in Nat \ {0} /\ SweepEvery \in Nat \ {0}

VARIABLES
    now,         \* time.time()
    known,       \* keys of buckets and of last_updated
    tokens,      \* buckets
    last,        \* last_updated
    sinceSweep,  \* _acquisitions_since_sweep
    paid,        \* history: what each tenant's granted requests have cost
    answer       \* the latest verdict and whom it went to

vars == <<now, known, tokens, last, sinceSweep, paid, answer>>

Capped(x) == IF x < Capacity THEN x ELSE Capacity

\* The refill both acquire and the sweep compute
Projected(t) == Capped(tokens[t] + (now - last[t]))

\* _evict_idle
IdleDepleted == {t \in known : now - last[t] >= IdleEviction}
IdleUnprojected == {t \in known : now - last[t] >= IdleEviction /\ tokens[t] >= Capacity}
Idle == {t \in known : now - last[t] >= IdleEviction /\ Projected(t) >= Capacity}

SweepDue == sinceSweep + 1 >= SweepEvery

Dropped == IF SweepDue THEN Idle ELSE {}

\* The bucket of the asking tenant once created and refilled
RefilledFromEmpty(t) == IF t \in known \ Dropped THEN Projected(t) ELSE 0
Refilled(t) == IF t \in known \ Dropped THEN Projected(t) ELSE Capacity

Init ==
    /\ now = 0
    /\ known = {}
    /\ tokens = [t \in Tenant |-> 0]
    /\ last = [t \in Tenant |-> 0]
    /\ sinceSweep = 0
    /\ paid = [t \in Tenant |-> 0]
    /\ answer = [tenant |-> NoTenant, granted |-> FALSE]

Tick ==
    /\ now < MaxTime
    /\ now' = now + 1
    /\ UNCHANGED <<known, tokens, last, sinceSweep, paid, answer>>

Acquire(t) ==
    LET granted == Refilled(t) >= Cost
    IN  /\ sinceSweep' = IF SweepDue THEN 0 ELSE sinceSweep + 1
        /\ known' = (known \ Dropped) \cup {t}
        /\ tokens' = [u \in Tenant |->
                         IF u = t THEN IF granted THEN Refilled(t) - Cost ELSE Refilled(t)
                                  ELSE IF u \in Dropped THEN 0 ELSE tokens[u]]
        /\ last' = [u \in Tenant |->
                         IF u = t THEN now ELSE IF u \in Dropped THEN 0 ELSE last[u]]
        /\ paid' = IF granted THEN [paid EXCEPT ![t] = @ + Cost] ELSE paid
        /\ answer' = [tenant |-> t, granted |-> granted]
        /\ UNCHANGED now

Next == Tick \/ \E t \in Tenant : Acquire(t)

Spec == Init /\ [][Next]_vars

-----------------------------------------------------------------------------
(***************************************************************************)
(* Properties                                                              *)
(***************************************************************************)

\* What the bucket of each tenant would hold had it never been dropped
Level == [t \in Tenant |-> IF t \in known THEN Projected(t) ELSE Capacity]

\* No tenant is ever granted more than the burst capacity plus what time has
\* refilled, however the sweep drops and acquire re-creates its bucket.
WithinRate == \A t \in Tenant : paid[t] + Level[t] <= Capacity + now

Bucket == INSTANCE TokenBucket WITH level <- Level

\* Dropping idle buckets is invisible: every verdict is the one a limiter that
\* keeps every bucket for ever would give ("removing it is indistinguishable
\* from keeping it", _evict_idle).
Eviction == Bucket!Spec

\* A sweep keeps only buckets touched within the idle time or the time a bucket
\* takes to fill, whichever is longer: the map is bounded by recent traffic.
SweepBoundsAge ==
    [][sinceSweep' = 0 /\ sinceSweep' # sinceSweep
          => \A t \in known' : \/ now' - last'[t] < IdleEviction
                               \/ now' - last'[t] < Capacity]_vars
=============================================================================

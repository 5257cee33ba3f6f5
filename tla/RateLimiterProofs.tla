-------------------------- MODULE RateLimiterProofs --------------------------
(***************************************************************************)
(* Dropping idle buckets is invisible to every tenant, for any set of      *)
(* tenants, capacity, price, idle time and sweep interval: RateLimiter     *)
(* implements TokenBucket.                                                 *)
(***************************************************************************)
EXTENDS RateLimiter, TLAPS

\* The types the proofs rest on: no bucket is overdrawn or overfull, and none was
\* touched in the future.
Shape ==
    /\ now \in Nat
    /\ known \subseteq Tenant
    /\ tokens \in [Tenant -> 0..Capacity]
    /\ last \in [Tenant -> Nat]
    /\ \A t \in Tenant : last[t] <= now
    /\ paid \in [Tenant -> Nat]
    /\ sinceSweep \in Nat

\* What a tenant's bucket holds is an amount between nothing and Capacity.
LEMMA ProjectedRange ==
    ASSUME Shape, NEW t \in Tenant
    PROVE  Projected(t) \in 0..Capacity /\ Level[t] \in 0..Capacity
  BY LimiterAssumption DEF Shape, Projected, Capped, Level

\* The bucket acquire works on is what the never-evicting limiter would hold: a
\* dropped bucket was full, and a new one is created full.
LEMMA RefilledIsLevel ==
    ASSUME Shape, NEW t \in Tenant
    PROVE  Refilled(t) = Level[t]
  <1>1. CASE t \in Dropped
    <2>1. t \in known /\ Projected(t) >= Capacity BY <1>1 DEF Dropped, Idle
    <2>2. Projected(t) = Capacity
      BY <2>1, ProjectedRange, LimiterAssumption
    <2> QED BY <1>1, <2>1, <2>2 DEF Refilled, Level
  <1>2. CASE t \notin Dropped BY <1>2 DEF Refilled, Level
  <1> QED BY <1>1, <1>2

\* A request moves the level of its own tenant only.
LEMMA AcquireLevel ==
    ASSUME Shape, NEW t \in Tenant, Acquire(t)
    PROVE  Level' = [Level EXCEPT ![t] = IF Level[t] >= Cost THEN @ - Cost ELSE @]
  <1> DEFINE kept == IF Level[t] >= Cost THEN Level[t] - Cost ELSE Level[t]
  <1>1. Refilled(t) = Level[t] BY RefilledIsLevel
  <1>2. /\ tokens'[t] = kept /\ last'[t] = now /\ t \in known' /\ now' = now
    BY <1>1 DEF Acquire, Shape
  <1>3. kept \in 0..Capacity /\ kept <= Capacity
    BY ProjectedRange, LimiterAssumption
  <1>4. Level'[t] = kept
    <2>1. Level'[t] = Capped(tokens'[t] + (now' - last'[t]))
      BY <1>2 DEF Level, Projected, Capped
    <2>2. tokens'[t] + (now' - last'[t]) = kept
      BY <1>2, <1>3, LimiterAssumption DEF Shape
    <2> QED BY <2>1, <2>2, <1>3, LimiterAssumption DEF Capped
  <1>5. ASSUME NEW u \in Tenant, u # t PROVE Level'[u] = Level[u]
    <2>1. CASE u \in Dropped
      <3>1. u \in known /\ Projected(u) >= Capacity BY <2>1 DEF Dropped, Idle
      <3>2. u \notin known' BY <2>1, <1>5 DEF Acquire
      <3>3. Projected(u) = Capacity BY <3>1, ProjectedRange, LimiterAssumption
      <3> QED BY <3>1, <3>2, <3>3 DEF Level
    <2>2. CASE u \notin Dropped
      <3>1. tokens'[u] = tokens[u] /\ last'[u] = last[u] /\ now' = now
        BY <1>5, <2>2 DEF Acquire, Shape
      <3>2. u \in known' <=> u \in known BY <1>5, <2>2 DEF Acquire
      <3> QED BY <3>1, <3>2 DEF Level, Projected
    <2> QED BY <2>1, <2>2
  <1> QED
    <2>1. Level' = [u \in Tenant |-> Level'[u]] BY DEF Level
    <2> QED BY <2>1, <1>4, <1>5 DEF Level

\* As time passes every bucket gains one unit, up to its capacity.
LEMMA TickLevel ==
    ASSUME Shape, Tick
    PROVE  Level' = [t \in Tenant |-> Capped(Level[t] + 1)]
  <1>1. ASSUME NEW t \in Tenant PROVE Level'[t] = Capped(Level[t] + 1)
    BY <1>1, LimiterAssumption DEF Shape, Tick, Level, Projected, Capped
  <1> QED BY <1>1 DEF Level

\* Every step keeps buckets within bounds.
LEMMA ShapeStep == Shape /\ [Next]_vars => Shape'
  <1> SUFFICES ASSUME Shape, [Next]_vars PROVE Shape' OBVIOUS
  <1>1. CASE Tick BY <1>1 DEF Tick, Shape
  <1>2. ASSUME NEW t \in Tenant, Acquire(t) PROVE Shape'
    <2>1. Refilled(t) \in 0..Capacity BY RefilledIsLevel, ProjectedRange
    <2>2. (IF Refilled(t) >= Cost THEN Refilled(t) - Cost ELSE Refilled(t)) \in 0..Capacity
      BY <2>1, LimiterAssumption
    <2>3. tokens' \in [Tenant -> 0..Capacity]
      BY <1>2, <2>2, LimiterAssumption DEF Acquire, Shape
    <2>4. last' \in [Tenant -> Nat] /\ \A u \in Tenant : last'[u] <= now'
      BY <1>2 DEF Acquire, Shape
    <2>5. known' \subseteq Tenant /\ now' \in Nat BY <1>2 DEF Acquire, Shape
    <2>6. paid' \in [Tenant -> Nat] BY <1>2, LimiterAssumption DEF Acquire, Shape
    <2>7. sinceSweep' \in Nat BY <1>2 DEF Acquire, Shape
    <2> QED BY <2>3, <2>4, <2>5, <2>6, <2>7 DEF Shape
  <1>3. CASE UNCHANGED vars BY <1>3 DEF vars, Shape
  <1> QED BY <1>1, <1>2, <1>3 DEF Next

LEMMA InitShape == Init => Shape
  BY LimiterAssumption DEF Init, Shape

\* No tenant gets more than the burst capacity plus the refill of the time that
\* has passed (TokenBucketLimiter.acquire).
THEOREM RateRespected == Spec => []WithinRate
  <1>1. Init => WithinRate
    <2> SUFFICES ASSUME Init, NEW t \in Tenant PROVE paid[t] + Level[t] <= Capacity + now
      BY DEF WithinRate
    <2>1. paid[t] = 0 /\ Level[t] = Capacity /\ now = 0 BY DEF Init, Level
    <2> QED BY <2>1, LimiterAssumption
  <1>2. Shape /\ WithinRate /\ [Next]_vars => WithinRate'
    <2> SUFFICES ASSUME Shape, WithinRate, [Next]_vars PROVE WithinRate' OBVIOUS
    <2>1. CASE Tick
      BY <2>1, TickLevel, ProjectedRange, LimiterAssumption DEF WithinRate, Shape, Capped, Tick
    <2>2. ASSUME NEW t \in Tenant, Acquire(t) PROVE WithinRate'
      <3>1. Level' = [Level EXCEPT ![t] = IF Level[t] >= Cost THEN @ - Cost ELSE @]
        BY <2>2, AcquireLevel
      <3>2. paid' = IF Level[t] >= Cost THEN [paid EXCEPT ![t] = @ + Cost] ELSE paid
        BY <2>2, RefilledIsLevel DEF Acquire
      <3>3. Level \in [Tenant -> 0..Capacity] BY ProjectedRange DEF Level
      <3> QED BY <2>2, <3>1, <3>2, <3>3, LimiterAssumption DEF WithinRate, Shape, Acquire
    <2>3. CASE UNCHANGED vars
      BY <2>3 DEF vars, WithinRate, Level, Projected
    <2> QED BY <2>1, <2>2, <2>3 DEF Next
  <1> QED BY <1>1, <1>2, InitShape, ShapeStep, PTL DEF Spec

\* The limiter that drops idle buckets gives every verdict the limiter that
\* keeps them all would give (TokenBucketLimiter._evict_idle).
THEOREM EvictionInvisible == Spec => Eviction
  <1>1. Init => Bucket!Init
    BY DEF Init, Bucket!Init, Level
  <1>2. Shape /\ [Next]_vars => [Bucket!Next]_(Bucket!vars)
    <2> SUFFICES ASSUME Shape, [Next]_vars PROVE [Bucket!Next]_(Bucket!vars) OBVIOUS
    <2>1. CASE Tick
      <3>1. Level' = [t \in Tenant |-> Bucket!Capped(Level[t] + 1)]
        BY <2>1, TickLevel DEF Capped, Bucket!Capped
      <3> QED BY <2>1, <3>1 DEF Tick, Bucket!Tick, Bucket!Next
    <2>2. ASSUME NEW t \in Tenant, Acquire(t) PROVE Bucket!Next
      <3>1. Level' = [Level EXCEPT ![t] = IF Level[t] >= Cost THEN @ - Cost ELSE @]
        BY <2>2, AcquireLevel
      <3>2. Refilled(t) = Level[t] /\ Level[t] \in Int /\ Cost \in Int
        BY RefilledIsLevel, ProjectedRange, LimiterAssumption
      <3>3. CASE Level[t] >= Cost
        <4>1. Bucket!Grant(t) BY <2>2, <3>1, <3>2, <3>3 DEF Acquire, Bucket!Grant
        <4> QED BY <4>1 DEF Bucket!Next
      <3>4. CASE Level[t] < Cost
        <4> DEFINE granted == Level[t] >= Cost
        <4>1. ~granted BY <3>2, <3>4
        <4>2. Level' = [Level EXCEPT ![t] = IF granted THEN @ - Cost ELSE @] BY <3>1
        <4>3. paid' = (IF granted THEN [paid EXCEPT ![t] = @ + Cost] ELSE paid)
              /\ answer' = [tenant |-> t, granted |-> granted] /\ now' = now
          BY <2>2, <3>2 DEF Acquire
        <4> HIDE DEF granted
        <4>4. granted = FALSE BY <4>1 DEF granted
        <4>5. Level' = Level BY <4>2, <4>4 DEF Level
        <4>6. paid' = paid /\ answer' = [tenant |-> t, granted |-> FALSE] BY <4>3, <4>4
        <4>7. Bucket!Deny(t) BY <4>3, <4>5, <4>6, <3>4 DEF Bucket!Deny
        <4> QED BY <4>7 DEF Bucket!Next
      <3> QED BY <3>2, <3>3, <3>4
    <2>3. CASE UNCHANGED vars
      BY <2>3 DEF vars, Bucket!vars, Level, Projected
    <2> QED BY <2>1, <2>2, <2>3 DEF Next
  <1> QED BY <1>1, <1>2, InitShape, ShapeStep, PTL DEF Spec, Eviction, Bucket!Spec

\* What a sweep keeps was touched within the idle time or the time a bucket takes to
\* fill (_evict_idle), whatever the interval between sweeps.
THEOREM SweptMapIsRecent == Spec => SweepBoundsAge
  <1>1. ASSUME Shape, [Next]_vars, sinceSweep' = 0, sinceSweep' # sinceSweep, NEW u \in known'
        PROVE  now' - last'[u] < IdleEviction \/ now' - last'[u] < Capacity
    <2>1. PICK t \in Tenant : Acquire(t) BY <1>1 DEF Next, Tick, vars
    <2>2. SweepDue BY <1>1, <2>1 DEF Acquire, Shape
    <2>3. CASE u = t
      <3>1. now' - last'[u] = 0 BY <1>1, <2>1, <2>3 DEF Acquire, Shape
      <3> QED BY <3>1, LimiterAssumption
    <2>4. CASE u # t
      <3>1. u \in known \ Idle BY <1>1, <2>1, <2>2, <2>4 DEF Acquire, Dropped
      <3>2. u \in Tenant BY <1>1, <3>1 DEF Shape
      <3>3. now' = now /\ last'[u] = last[u]
        BY <2>1, <2>2, <2>4, <3>1, <3>2 DEF Acquire, Dropped
      <3>4. ~(now - last[u] >= IdleEviction) \/ ~(Projected(u) >= Capacity) BY <3>1 DEF Idle
      <3>5. now \in Nat /\ last[u] \in Nat /\ tokens[u] \in 0..Capacity BY <1>1, <3>2 DEF Shape
      <3>6. ~(Projected(u) >= Capacity) => now - last[u] < Capacity
        BY <3>5, LimiterAssumption DEF Projected, Capped
      <3> QED BY <3>3, <3>4, <3>5, <3>6, LimiterAssumption
    <2> QED BY <2>3, <2>4
  <1>2. Shape /\ [Next]_vars =>
            (sinceSweep' = 0 /\ sinceSweep' # sinceSweep
                => \A t \in known' : \/ now' - last'[t] < IdleEviction
                                     \/ now' - last'[t] < Capacity)
    BY <1>1
  <1> QED BY <1>2, InitShape, ShapeStep, PTL DEF Spec, SweepBoundsAge
=============================================================================

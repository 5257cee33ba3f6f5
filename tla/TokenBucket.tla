----------------------------- MODULE TokenBucket -----------------------------
(***************************************************************************)
(* What the rate limiter promises: every tenant has a bucket, full from    *)
(* the start and for ever kept, that refills as time passes and pays for   *)
(* each granted request.                                                   *)
(*                                                                         *)
(* Amounts are counted in what one bucket gains in one tick, so a token is *)
(* worth Cost of them (rate_limit_refill_rate = 1/Cost tokens a tick).     *)
(***************************************************************************)
EXTENDS Integers

CONSTANTS
    Tenant,    \* tenants that may ask
    NoTenant,  \* nobody has asked yet
    Capacity,  \* rate_limit_capacity, in units
    Cost,      \* one token, in units
    MaxTime    \* bound on the clock

VARIABLES
    now,     \* the clock
    level,   \* what each bucket holds now
    paid,    \* what each tenant's granted requests have cost
    answer   \* the latest verdict and whom it went to

vars == <<now, level, paid, answer>>

Capped(x) == IF x < Capacity THEN x ELSE Capacity

Init ==
    /\ now = 0
    /\ level = [t \in Tenant |-> Capacity]
    /\ paid = [t \in Tenant |-> 0]
    /\ answer = [tenant |-> NoTenant, granted |-> FALSE]

Tick ==
    /\ now < MaxTime
    /\ now' = now + 1
    /\ level' = [t \in Tenant |-> Capped(level[t] + 1)]
    /\ UNCHANGED <<paid, answer>>

Grant(t) ==
    /\ level[t] >= Cost
    /\ level' = [level EXCEPT ![t] = @ - Cost]
    /\ paid' = [paid EXCEPT ![t] = @ + Cost]
    /\ answer' = [tenant |-> t, granted |-> TRUE]
    /\ UNCHANGED now

Deny(t) ==
    /\ level[t] < Cost
    /\ answer' = [tenant |-> t, granted |-> FALSE]
    /\ UNCHANGED <<now, level, paid>>

Next == Tick \/ \E t \in Tenant : Grant(t) \/ Deny(t)

Spec == Init /\ [][Next]_vars
=============================================================================

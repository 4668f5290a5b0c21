------------------------------ MODULE RateLimit ------------------------------
(* The fixed-window rate limiter of the control API (rate-limit.js): one    *)
(* bucket for each key, a client's address and a path, in the memory of the *)
(* API process. Time is that of Date.now(), taken not to run backwards.     *)
EXTENDS Integers, FiniteSets

CONSTANTS
    Keys,              \* the keys of requests
    WindowMs,          \* config.rateLimitWindowMs
    Max,               \* config.rateLimitMax
    MaxBuckets,        \* MAX_BUCKETS
    CleanupIntervalMs, \* CLEANUP_INTERVAL_MS
    MaxTime            \* bound: how far the clock goes

ASSUME RateLimitAssumption ==
    /\ WindowMs \in Nat \ {0}
    /\ Max \in Nat
    /\ MaxBuckets \in Nat
    /\ CleanupIntervalMs \in Nat

VARIABLES
    now,          \* Date.now()
    buckets,      \* the window of each key, NoBucket: none
    lastCleanup,  \* when expired windows were last dropped
    admitted      \* history: the requests this process let through

rateVars == <<now, buckets, lastCleanup, admitted>>

NoBucket == [windowStart |-> 0, count |-> 0]

RateInit ==
    /\ now = 0
    /\ buckets = [k \in Keys |-> NoBucket]
    /\ lastCleanup = 0
    /\ admitted = {}

Tick ==
    /\ now < MaxTime
    /\ now' = now + 1
    /\ UNCHANGED <<buckets, lastCleanup, admitted>>

\* cleanup: now and then, the windows that ended a window ago are dropped.
CleanupDue == now - lastCleanup >= CleanupIntervalMs

CleanedUp ==
    [k \in Keys |->
        IF CleanupDue /\ now - buckets[k].windowStart >= 2 * WindowMs
        THEN NoBucket ELSE buckets[k]]

\* check, from its first line on: b are the buckets after the cleanup.
TableFull(b, k) ==
    /\ b[k] = NoBucket
    /\ Cardinality({j \in Keys : b[j] # NoBucket}) >= MaxBuckets

NewWindow(b, k) == b[k] = NoBucket \/ now - b[k].windowStart >= WindowMs

Counted(b, k) ==
    IF NewWindow(b, k) THEN [windowStart |-> now, count |-> 1]
    ELSE [b[k] EXCEPT !.count = @ + 1]

\* Faulty variant: the quota is compared after it was used up.
AllowedOneMore(b, k) ==
    /\ ~TableFull(b, k)
    /\ NewWindow(b, k) \/ b[k].count <= Max

\* A new window lets its first request through whatever the quota is.
Allowed(b, k) ==
    /\ ~TableFull(b, k)
    /\ NewWindow(b, k) \/ b[k].count < Max

Check(k, allowed) ==
    LET b == CleanedUp IN
    /\ allowed = Allowed(b, k)
    /\ lastCleanup' = IF CleanupDue THEN now ELSE lastCleanup
    /\ IF allowed
       THEN /\ buckets' = [b EXCEPT ![k] = Counted(b, k)]
            /\ admitted' = admitted \cup
                 {[key |-> k, at |-> now, windowStart |-> Counted(b, k).windowStart,
                   count |-> Counted(b, k).count]}
       ELSE buckets' = b /\ UNCHANGED admitted
    /\ UNCHANGED now

\* The process is started anew.
Restart ==
    /\ buckets' = [k \in Keys |-> NoBucket]
    /\ lastCleanup' = now
    /\ admitted' = {}
    /\ UNCHANGED now

----------------------------------------------------------------------------
(* Properties.                                                              *)

RateTypeOK ==
    /\ now \in Nat
    /\ buckets \in [Keys -> [windowStart : Nat, count : Nat]]
    /\ lastCleanup \in Nat
    /\ admitted \subseteq [key : Keys, at : Nat, windowStart : Nat, count : Nat]

Quota == IF Max = 0 THEN 1 ELSE Max

AdmittedFrom(k, t) == {a \in admitted : a.key = k /\ t <= a.at /\ a.at < t + WindowMs}

\* Any stretch of time as long as the window, wherever it begins, lets at most two
\* quotas of one key through: the windows are fixed, but no cleanup, no full table
\* and no restarted window gives a key a third one.
QuotaBound ==
    \A a \in admitted : Cardinality(AdmittedFrom(a.key, a.at)) <= 2 * Quota
=============================================================================

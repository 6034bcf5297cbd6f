----------------------------- MODULE TokenBucket -----------------------------
(***************************************************************************)
(* The rate limiter: TokenBucketRateLimiter.evaluate over                  *)
(* InMemoryBucketStore (rate_limit/token_bucket.py, rate_limit/store.py).  *)
(* Buckets are created full on first use, refilled only when a request     *)
(* comes, and removed when they have been idle.                            *)
(*                                                                         *)
(* Every key has one policy.  Time is counted in ticks of the monotonic    *)
(* clock and the tokens of a bucket in the amount one tick refills, so     *)
(* numbers are exact and EPSILON is zero.  consume() never suspends while  *)
(* it holds the bucket's lock, so an evaluation is one step and sees the   *)
(* clock it read.                                                          *)
(***************************************************************************)
EXTENDS Naturals, FiniteSets

CONSTANTS
    Keys,      \* bucket keys: a user, a user's expensive calls, a client
    Capacity,  \* policy.capacity of each key, in ticks of refill
    Cost,      \* policy.request_cost of each key
    TTL,       \* rate_limit_bucket_ttl_seconds, in ticks
    Interval,  \* cleanup_interval
    Scan,      \* cleanup_scan
    Second,    \* ticks in a second
    MaxTime    \* bound: the last value of the clock

\* The policy values are positive; nothing is said of how they relate: a
\* bucket may be removed before it is full again, and a request may cost more
\* than a bucket holds.
ASSUME PolicyAssumption ==
    /\ Capacity \in [Keys -> Nat \ {0}]
    /\ Cost \in [Keys -> Nat \ {0}]
    /\ Interval \in Nat \ {0}
    /\ Scan \in Nat \ {0}
    /\ Second \in Nat \ {0}
    /\ TTL \in Nat /\ MaxTime \in Nat

VARIABLES
    buckets,   \* _states, a dictionary of BucketState
    now,       \* the monotonic clock
    accesses,  \* _access_count modulo cleanup_interval
    decision,  \* the last decision
    since,     \* history: the time an observer began to count
    granted,   \* history: tokens granted in each bucket since then
    removed,   \* history: how often each bucket was removed since then
    due        \* history: when the last denial promised success, or 0

vars == <<buckets, now, accesses, decision, since, granted, removed, due>>

BucketState == [tokens : Nat, refilled : Nat, seen : Nat]

NoDecision == [key |-> {}, outcome |-> "none", retry |-> 0]

Decisions == [key : SUBSET Keys, outcome : {"none", "allowed", "denied"},
              retry : Nat]

Least(a, b) == IF a <= b THEN a ELSE b

\* The tokens of k after the refill up to now.
Available(k) ==
    IF k \in DOMAIN buckets
    THEN Least(Capacity[k],
               buckets[k].tokens + (now - buckets[k].refilled))
    ELSE Capacity[k]

\* Mutant: a request is granted on one token of credit.
AllowedOnCredit(k) == Available(k) + 1 >= Cost[k]

Allowed(k) == Available(k) >= Cost[k]

Remaining(k) == IF Allowed(k) THEN Available(k) - Cost[k] ELSE Available(k)

\* Mutant: the wait is rounded down.
RetryAfterRoundedDown(wait, retry) ==
    retry <= wait /\ wait < retry + Second /\ retry % Second = 0

\* The wait rounded up to whole seconds.
RetryAfter(wait, retry) ==
    wait <= retry /\ retry < wait + Second /\ retry % Second = 0

\* Mutant: a denial moves the refill time and drops what was refilled.
UpdatedWithoutRefill(k) ==
    [x \in DOMAIN buckets \cup {k} |->
        IF x # k THEN buckets[x]
        ELSE [tokens |-> IF Allowed(k) \/ k \notin DOMAIN buckets
                         THEN Remaining(k) ELSE buckets[k].tokens,
              refilled |-> now, seen |-> now]]

\* The clock never runs backwards, so max(now, ...) is now.
Updated(k) ==
    [x \in DOMAIN buckets \cup {k} |->
        IF x = k THEN [tokens |-> Remaining(k), refilled |-> now, seen |-> now]
        ELSE buckets[x]]

\* Mutant: the age is compared with the wrong limit.
IdleTooEarly(d) == {k \in DOMAIN d : now - d[k].seen > TTL \div 2}

Idle(d) == {k \in DOMAIN d : now - d[k].seen > TTL}

\* cleanup() looks at the first buckets of the dictionary; which ones those
\* are depends on the order they were created in.
Scanned(d) ==
    IF Cardinality(DOMAIN d) <= Scan THEN {DOMAIN d}
    ELSE {ks \in SUBSET DOMAIN d : Cardinality(ks) = Scan}

Without(d, gone) == [k \in DOMAIN d \ gone |-> d[k]]

\* Refill, decide, write back; every Interval-th access cleans up.
Evaluate(k) ==
    /\ accesses' = (accesses + 1) % Interval
    /\ IF accesses' = 0
       THEN \E ks \in Scanned(Updated(k)) :
               buckets' = Without(Updated(k), ks \cap Idle(Updated(k)))
       ELSE buckets' = Updated(k)
    /\ removed' = [x \in Keys |->
                     IF x \in DOMAIN Updated(k) \ DOMAIN buckets'
                     THEN removed[x] + 1 ELSE removed[x]]
    /\ IF Allowed(k)
       THEN /\ decision' = [key |-> {k}, outcome |-> "allowed", retry |-> 0]
            /\ granted' = [granted EXCEPT ![k] = @ + Cost[k]]
            /\ due' = [due EXCEPT ![k] = 0]
       ELSE /\ \E retry \in 0 .. Cost[k] + Second :
                  /\ RetryAfter(Cost[k] - Available(k), retry)
                  /\ decision' = [key |-> {k}, outcome |-> "denied",
                                  retry |-> retry]
                  /\ due' = [due EXCEPT ![k] = now + retry]
            /\ UNCHANGED granted
    /\ UNCHANGED <<now, since>>

Tick ==
    /\ now < MaxTime
    /\ now' = now + 1
    /\ decision' = NoDecision
    /\ UNCHANGED <<buckets, accesses, since, granted, removed, due>>

\* An observer starts to count; the limiter takes no part in it.
Observe ==
    /\ since' = now
    /\ granted' = [k \in Keys |-> 0] /\ removed' = [k \in Keys |-> 0]
    /\ UNCHANGED <<buckets, now, accesses, decision, due>>

Init ==
    /\ buckets = [k \in {} |-> NoDecision]
    /\ now = 0
    /\ accesses = 0
    /\ decision = NoDecision
    /\ since = 0
    /\ granted = [k \in Keys |-> 0] /\ removed = [k \in Keys |-> 0]
    /\ due = [k \in Keys |-> 0]

Next == (\E k \in Keys : Evaluate(k)) \/ Tick \/ Observe

Spec == Init /\ [][Next]_vars

-----------------------------------------------------------------------------
(* What the limiter guarantees.                                            *)

\* Every variable has its type.  A bucket holds between none and a full
\* load: _validate_state never finds a state it must refuse.
TypeOK ==
    /\ DOMAIN buckets \subseteq Keys
    /\ \A k \in DOMAIN buckets : /\ buckets[k] \in BucketState
                                 /\ buckets[k].tokens <= Capacity[k]
                                 /\ buckets[k].refilled <= now
                                 /\ buckets[k].seen = buckets[k].refilled
    /\ now \in Nat
    /\ accesses \in 0 .. Interval - 1
    /\ decision \in Decisions
    /\ since \in 0 .. now
    /\ granted \in [Keys -> Nat] /\ removed \in [Keys -> Nat]
    /\ due \in [Keys -> Nat]

\* What a bucket gains when it is removed: after the time to live it may
\* lack this much, and it comes back full.  Nothing, if the time to live is
\* enough to fill it.
Gain(k) == IF Capacity[k] > TTL + 1 THEN Capacity[k] - (TTL + 1) ELSE 0

\* In no interval is more granted than one full bucket, the refill of the
\* interval, and what the bucket gained each time it was removed, which is at
\* most once in a time to live.
NoOvergrant ==
    \A k \in Keys :
        /\ granted[k] <= Capacity[k] + (now - since) + removed[k] * Gain(k)
        /\ removed[k] > 0 => (removed[k] - 1) * (TTL + 1) <= now - since

\* A client that waits as long as Retry-After says finds the tokens it was
\* missing, or a full bucket where even that does not pay for the request.
RetryIsEnough ==
    \A k \in Keys : due[k] # 0 /\ now >= due[k] =>
        Allowed(k) \/ Available(k) = Capacity[k]

\* Lazy refill and removal of idle buckets cannot be told from a bucket that
\* is refilled all the time, and filled up at times once it holds more than
\* the time to live refills: nobody is denied or allowed for their sake.
Bucket == INSTANCE EagerBucket WITH
    level <- [k \in Keys |-> Available(k)],
    verdict <- [key |-> decision.key, outcome |-> decision.outcome]

DecidesAsEagerBucket == Bucket!Spec
=============================================================================

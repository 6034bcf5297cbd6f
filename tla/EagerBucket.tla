----------------------------- MODULE EagerBucket -----------------------------
(***************************************************************************)
(* The token bucket a rate limit stands for: every bucket is always there, *)
(* every tick of the clock adds one token to each bucket that is not full, *)
(* and a request takes its cost or is denied.  When a request comes, other *)
(* buckets may be filled up, but only those that hold more than what the   *)
(* time to live refills: none at all if that is enough to fill them.       *)
(***************************************************************************)
EXTENDS Naturals

CONSTANTS Keys, Capacity, Cost, TTL

VARIABLES level,   \* tokens in each bucket
          verdict  \* the last decision: which bucket, allowed or denied

vars == <<level, verdict>>

Idle == [key |-> {}, outcome |-> "none"]

Init == level = [k \in Keys |-> Capacity[k]] /\ verdict = Idle

Tick ==
    /\ level' = [k \in Keys |-> IF level[k] < Capacity[k] THEN level[k] + 1
                                ELSE level[k]]
    /\ verdict' = Idle

\* The bucket of k holds what is left, the others as much as before.
Leaves(k, left) ==
    \E full \in SUBSET {x \in Keys \ {k} : level[x] > TTL} :
        level' = [x \in Keys |-> IF x = k THEN left
                                ELSE IF x \in full THEN Capacity[x]
                                ELSE level[x]]

Allow(k) ==
    /\ level[k] >= Cost[k]
    /\ Leaves(k, level[k] - Cost[k])
    /\ verdict' = [key |-> {k}, outcome |-> "allowed"]

Deny(k) ==
    /\ level[k] < Cost[k]
    /\ Leaves(k, level[k])
    /\ verdict' = [key |-> {k}, outcome |-> "denied"]

Next == Tick \/ \E k \in Keys : Allow(k) \/ Deny(k)

Spec == Init /\ [][Next]_vars
=============================================================================

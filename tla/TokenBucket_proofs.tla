-------------------------- MODULE TokenBucket_proofs --------------------------
(***************************************************************************)
(* Proofs about TokenBucket: its types, the bound on what is granted, the  *)
(* sufficiency of Retry-After, and the implementation of EagerBucket.      *)
(* They hold for all settings: nothing relates a capacity to the time to   *)
(* live or to a cost.  The argument is one fact about a step,              *)
(* EvaluateLevels: a decision changes the tokens available to others only  *)
(* by removing buckets, and a bucket that may be removed lacks no more     *)
(* than its Gain.                                                          *)
(***************************************************************************)
EXTENDS TokenBucket, TLAPS

-----------------------------------------------------------------------------
(* The tokens available.                                                   *)

LEMMA AvailableRange ==
    ASSUME TypeOK, NEW k \in Keys
    PROVE  /\ Available(k) \in Nat /\ Available(k) <= Capacity[k]
           /\ Remaining(k) \in Nat /\ Remaining(k) <= Available(k)
           /\ Allowed(k) => Remaining(k) + Cost[k] = Available(k)
           /\ ~Allowed(k) => Remaining(k) = Available(k)
<1>1. Capacity[k] \in Nat /\ Cost[k] \in Nat
  BY PolicyAssumption
<1>2. Available(k) \in Nat /\ Available(k) <= Capacity[k]
  <2>1. CASE k \in DOMAIN buckets
    <3>1. /\ buckets[k].tokens \in Nat /\ buckets[k].refilled \in Nat
          /\ buckets[k].refilled <= now /\ now \in Nat
      BY <2>1 DEF TypeOK, BucketState
    <3>2. now - buckets[k].refilled \in Nat
      BY <3>1
    <3> QED BY <1>1, <2>1, <3>1, <3>2 DEF Available, Least
  <2>2. CASE k \notin DOMAIN buckets
    BY <1>1, <2>2 DEF Available
  <2> QED BY <2>1, <2>2
<1> QED BY <1>1, <1>2 DEF Remaining, Allowed

\* Every decision leaves the buckets of Updated(k) but some idle ones.
LEMMA EvaluateBuckets ==
    ASSUME NEW k \in Keys, Evaluate(k)
    PROVE  \E gone \in SUBSET Idle(Updated(k)) :
              buckets' = Without(Updated(k), gone)
<1>1. CASE accesses' = 0
  <2>1. PICK ks \in Scanned(Updated(k)) :
           buckets' = Without(Updated(k), ks \cap Idle(Updated(k)))
    BY <1>1 DEF Evaluate
  <2> QED BY <2>1
<1>2. CASE accesses' # 0
  <2>1. buckets' = Updated(k)
    BY <1>2 DEF Evaluate
  <2>2. Updated(k) = Without(Updated(k), {})
    BY DEF Without, Updated
  <2> QED BY <2>1, <2>2
<1> QED BY <1>1, <1>2

\* An idle bucket is full or holds what the time to live refills, and is
\* never the one the decision was about.
LEMMA IdleHolds ==
    ASSUME TypeOK, NEW k \in Keys, NEW x \in Idle(Updated(k))
    PROVE  /\ x # k /\ x \in DOMAIN buckets /\ x \in Keys
           /\ TTL + 1 <= now - buckets[x].seen
           /\ Available(x) = Capacity[x] \/ Available(x) > TTL
<1>1. x \in DOMAIN buckets \cup {k} /\ now - Updated(k)[x].seen > TTL
  BY DEF Idle, Updated
<1>2. now \in Nat /\ TTL \in Nat
  BY PolicyAssumption DEF TypeOK
<1>3. x # k
  <2> SUFFICES ASSUME x = k PROVE FALSE
    OBVIOUS
  <2>1. Updated(k)[x].seen = now
    BY DEF Updated
  <2> QED BY <1>1, <1>2, <2>1
<1>4. x \in DOMAIN buckets /\ Updated(k)[x] = buckets[x]
  BY <1>1, <1>3 DEF Updated
<1>5. /\ x \in Keys /\ buckets[x].tokens \in Nat
      /\ buckets[x].refilled \in Nat /\ buckets[x].refilled <= now
      /\ buckets[x].seen = buckets[x].refilled
  BY <1>4 DEF TypeOK, BucketState
<1>6. Capacity[x] \in Nat
  BY <1>5, PolicyAssumption
<1>7. now - buckets[x].refilled \in Nat /\ now - buckets[x].refilled > TTL
  BY <1>1, <1>2, <1>4, <1>5
<1>8. Available(x) = Capacity[x] \/ Available(x) > TTL
  BY <1>2, <1>4, <1>5, <1>6, <1>7 DEF Available, Least
<1>9. TTL + 1 <= now - buckets[x].seen
  BY <1>2, <1>5, <1>7
<1> QED BY <1>3, <1>4, <1>5, <1>8, <1>9

\* What the decision for k makes of the tokens available when the buckets in
\* gone are removed.
LevelAfter(x, k, gone) == IF x = k THEN Remaining(k)
                          ELSE IF x \in gone THEN Capacity[x]
                          ELSE Available(x)

LEMMA EvaluateLevels ==
    ASSUME TypeOK, NEW k \in Keys, Evaluate(k)
    PROVE  \E gone \in SUBSET Idle(Updated(k)) :
             /\ DOMAIN buckets' = (DOMAIN buckets \cup {k}) \ gone
             /\ \A x \in DOMAIN buckets' : buckets'[x] = Updated(k)[x]
             /\ \A x \in Keys : Available(x)' = LevelAfter(x, k, gone)
             /\ \A x \in Keys : removed'[x] = IF x \in gone THEN removed[x] + 1
                                              ELSE removed[x]
<1>1. PICK gone \in SUBSET Idle(Updated(k)) :
         buckets' = Without(Updated(k), gone)
  BY EvaluateBuckets
<1>2. now' = now /\ now \in Nat
  BY DEF Evaluate, TypeOK
<1>3. /\ DOMAIN Updated(k) = DOMAIN buckets \cup {k}
      /\ DOMAIN buckets' = (DOMAIN buckets \cup {k}) \ gone
      /\ \A x \in DOMAIN buckets' : buckets'[x] = Updated(k)[x]
  BY <1>1 DEF Without, Updated
<1>4. \A x \in Keys : removed'[x] = IF x \in gone THEN removed[x] + 1
                                     ELSE removed[x]
  <2>1. gone \subseteq DOMAIN Updated(k)
    BY DEF Idle
  <2>2. \A x : x \in DOMAIN Updated(k) \ DOMAIN buckets' <=> x \in gone
    BY <1>3, <2>1
  <2> QED BY <2>2 DEF Evaluate
<1>5. ASSUME NEW x \in Keys PROVE Available(x)' = LevelAfter(x, k, gone)
  <2>1. /\ Available(x) \in Nat /\ Available(x) <= Capacity[x]
        /\ Remaining(x) \in Nat /\ Remaining(x) <= Available(x)
        /\ Capacity[x] \in Nat
    BY AvailableRange, PolicyAssumption
  <2>2. CASE x = k
    <3>1. k \notin gone
      BY IdleHolds
    <3>2. k \in DOMAIN buckets'
      BY <1>3, <3>1
    <3>3. buckets'[k] = [tokens |-> Remaining(k), refilled |-> now, seen |-> now]
      BY <1>3, <3>2 DEF Updated
    <3>4. Available(k)' = Least(Capacity[k],
                              buckets'[k].tokens + (now' - buckets'[k].refilled))
      BY <3>2 DEF Available
    <3>5. buckets'[k].tokens = Remaining(k) /\ buckets'[k].refilled = now
      BY <3>3
    <3>6. Remaining(k) + (now - now) = Remaining(k) /\ Remaining(k) <= Capacity[k]
      BY <1>2, <2>1, <2>2
    <3>7. Available(k)' = Least(Capacity[k], Remaining(k))
      BY <1>2, <3>4, <3>5, <3>6
    <3>8. Available(k)' = Remaining(k)
      BY <2>1, <2>2, <3>6, <3>7 DEF Least
    <3> QED BY <2>2, <3>8 DEF LevelAfter
  <2>3. CASE x # k /\ x \in gone
    <3>1. Available(x)' = Capacity[x]
      BY <1>3, <2>3 DEF Available
    <3> QED BY <2>3, <3>1 DEF LevelAfter
  <2>4. CASE x # k /\ x \notin gone
    <3>1. x \in DOMAIN buckets' <=> x \in DOMAIN buckets
      BY <1>3, <2>4
    <3>2. x \in DOMAIN buckets => buckets'[x] = buckets[x]
      BY <1>3, <2>4, <3>1 DEF Updated
    <3>3. Available(x)' = Available(x)
      BY <1>2, <3>1, <3>2 DEF Available
    <3> QED BY <2>4, <3>3 DEF LevelAfter
  <2> QED BY <2>2, <2>3, <2>4
<1> QED BY <1>3, <1>4, <1>5

\* A tick adds one token where there is room.
LEMMA TickLevels ==
    ASSUME TypeOK, Tick, NEW x \in Keys
    PROVE  Available(x)' = IF Available(x) < Capacity[x]
                           THEN Available(x) + 1 ELSE Available(x)
<1>1. /\ buckets' = buckets /\ now' = now + 1 /\ now \in Nat
      /\ Capacity[x] \in Nat
  BY PolicyAssumption DEF Tick, TypeOK
<1>2. CASE x \notin DOMAIN buckets
  BY <1>1, <1>2 DEF Available
<1>3. CASE x \in DOMAIN buckets
  <2>1. /\ buckets[x].tokens \in Nat /\ buckets[x].refilled \in Nat
        /\ buckets[x].refilled <= now
    BY <1>3 DEF TypeOK, BucketState
  <2>2. Available(x) = Least(Capacity[x],
                             buckets[x].tokens + (now - buckets[x].refilled))
    BY <1>3 DEF Available
  <2>3. Available(x)' = Least(Capacity[x],
                          buckets'[x].tokens + (now' - buckets'[x].refilled))
    BY <1>1, <1>3 DEF Available
  <2>4. /\ Available(x)' = Least(Capacity[x],
                          buckets[x].tokens + (now' - buckets[x].refilled))
        /\ now' - buckets[x].refilled = (now - buckets[x].refilled) + 1
    BY <1>1, <2>1, <2>3
  <2> QED BY <1>1, <2>1, <2>2, <2>4 DEF Least
<1> QED BY <1>2, <1>3

LEMMA ObserveLevels ==
    ASSUME UNCHANGED <<buckets, now>>, NEW x \in Keys
    PROVE  Available(x)' = Available(x)
BY DEF Available

-----------------------------------------------------------------------------
(* Types.                                                                  *)

LEMMA UpdatedType ==
    ASSUME TypeOK, NEW k \in Keys, NEW x \in DOMAIN buckets \cup {k}
    PROVE  /\ x \in Keys /\ Updated(k)[x] \in BucketState
           /\ Updated(k)[x].tokens <= Capacity[x]
           /\ Updated(k)[x].refilled <= now
           /\ Updated(k)[x].seen = Updated(k)[x].refilled
<1>1. CASE x = k
  <2>1. Updated(k)[x] = [tokens |-> Remaining(k), refilled |-> now, seen |-> now]
    BY <1>1 DEF Updated
  <2>2. /\ Remaining(k) \in Nat /\ Remaining(k) <= Available(k)
        /\ Available(k) \in Nat /\ Available(k) <= Capacity[k]
        /\ Capacity[k] \in Nat /\ now \in Nat
    BY AvailableRange, PolicyAssumption DEF TypeOK
  <2> QED BY <1>1, <2>1, <2>2 DEF BucketState
<1>2. CASE x # k
  BY <1>2 DEF Updated, TypeOK
<1> QED BY <1>1, <1>2

LEMMA EvaluateBucketType ==
    ASSUME TypeOK, NEW k \in Keys, Evaluate(k)
    PROVE  /\ DOMAIN buckets' \subseteq Keys
           /\ \A x \in DOMAIN buckets' :
                 /\ buckets'[x] \in BucketState
                 /\ buckets'[x].tokens <= Capacity[x]
                 /\ buckets'[x].refilled <= now
                 /\ buckets'[x].seen = buckets'[x].refilled
<1>1. PICK gone \in SUBSET Idle(Updated(k)) :
         buckets' = Without(Updated(k), gone)
  BY EvaluateBuckets
<1>2. \A x \in DOMAIN buckets' :
         x \in DOMAIN buckets \cup {k} /\ buckets'[x] = Updated(k)[x]
  BY <1>1 DEF Without, Updated
<1> QED BY <1>2, UpdatedType

LEMMA EvaluateDecision ==
    ASSUME TypeOK, NEW k \in Keys, Evaluate(k)
    PROVE  /\ accesses' \in 0 .. Interval - 1
           /\ decision' \in Decisions
           /\ granted' \in [Keys -> Nat] /\ due' \in [Keys -> Nat]
           /\ removed' \in [Keys -> Nat]
<1>0. removed' \in [Keys -> Nat]
  <2>1. \A x \in Keys : removed[x] + 1 \in Nat /\ removed[x] \in Nat
    BY DEF TypeOK
  <2> QED BY <2>1 DEF Evaluate
<1>1. accesses' \in 0 .. Interval - 1
  <2>1. accesses + 1 \in Nat /\ Interval \in Nat \ {0}
    BY PolicyAssumption DEF TypeOK
  <2>2. (accesses + 1) % Interval \in 0 .. Interval - 1
    BY <2>1
  <2> QED BY <2>2 DEF Evaluate
<1>2. Cost[k] \in Nat /\ Second \in Nat /\ now \in Nat
      /\ granted \in [Keys -> Nat] /\ due \in [Keys -> Nat]
  BY PolicyAssumption DEF TypeOK
<1>3. CASE Allowed(k)
  <2>1. /\ decision' = [key |-> {k}, outcome |-> "allowed", retry |-> 0]
        /\ granted' = [granted EXCEPT ![k] = @ + Cost[k]]
        /\ due' = [due EXCEPT ![k] = 0]
    BY <1>3 DEF Evaluate
  <2>2. decision' \in Decisions
    BY <2>1 DEF Decisions
  <2>3. granted[k] + Cost[k] \in Nat
    BY <1>2
  <2> QED BY <1>0, <1>1, <1>2, <2>1, <2>2, <2>3
<1>4. CASE ~Allowed(k)
  <2>1. PICK retry \in 0 .. Cost[k] + Second :
           /\ decision' = [key |-> {k}, outcome |-> "denied", retry |-> retry]
           /\ due' = [due EXCEPT ![k] = now + retry]
    BY <1>4 DEF Evaluate
  <2>2. retry \in Nat /\ now + retry \in Nat
    BY <1>2
  <2>3. decision' \in Decisions
    BY <2>1, <2>2 DEF Decisions
  <2>4. granted' = granted
    BY <1>4 DEF Evaluate
  <2> QED BY <1>0, <1>1, <1>2, <2>1, <2>2, <2>3, <2>4
<1> QED BY <1>3, <1>4

\* Every variable keeps its type; a bucket is never overdrawn and never holds
\* more than its capacity, so _validate_state has nothing to refuse.
THEOREM LimiterTypeCorrect == Spec => []TypeOK
<1>1. Init => TypeOK
  <2> SUFFICES ASSUME Init PROVE TypeOK
    OBVIOUS
  <2>1. Interval \in Nat \ {0}
    BY PolicyAssumption
  <2> QED BY <2>1 DEF Init, TypeOK, NoDecision, Decisions
<1>2. TypeOK /\ [Next]_vars => TypeOK'
  <2> SUFFICES ASSUME TypeOK, [Next]_vars PROVE TypeOK'
    OBVIOUS
  <2>1. ASSUME NEW k \in Keys, Evaluate(k) PROVE TypeOK'
    <3>1. now' = now /\ since' = since
      BY <2>1 DEF Evaluate
    <3> QED BY <2>1, <3>1, EvaluateBucketType, EvaluateDecision DEF TypeOK
  <2>2. CASE Tick
    <3>1. /\ buckets' = buckets /\ now' = now + 1 /\ accesses' = accesses
          /\ decision' = NoDecision /\ since' = since /\ granted' = granted
          /\ due' = due /\ removed' = removed
      BY <2>2 DEF Tick
    <3>2. NoDecision \in Decisions
      BY DEF NoDecision, Decisions
    <3>3. now' \in Nat /\ since' \in 0 .. now'
      BY <3>1 DEF TypeOK
    <3>4. \A k \in DOMAIN buckets' : buckets'[k].refilled <= now'
      BY <3>1 DEF TypeOK, BucketState
    <3> QED BY <3>1, <3>2, <3>3, <3>4 DEF TypeOK
  <2>3. CASE Observe
    BY <2>3 DEF Observe, TypeOK
  <2>4. CASE UNCHANGED vars
    BY <2>4 DEF vars, TypeOK
  <2> QED BY <2>1, <2>2, <2>3, <2>4 DEF Next
<1> QED BY <1>1, <1>2, PTL DEF Spec

-----------------------------------------------------------------------------
(* What is granted.                                                        *)

\* What was granted and what is still there was there when the observer
\* began, was refilled since, or came with a new bucket.  Between two removals
\* of a bucket it was used, and then left alone for a time to live.
GrantInv ==
    \A k \in Keys :
        /\ granted[k] + Available(k)
             <= Capacity[k] + (now - since) + removed[k] * Gain(k)
        /\ removed[k] > 0 =>
             /\ (removed[k] - 1) * (TTL + 1) <= now - since
             /\ k \in DOMAIN buckets =>
                  /\ since <= buckets[k].seen
                  /\ (removed[k] - 1) * (TTL + 1) <= buckets[k].seen - since

LEMMA Products ==
    ASSUME NEW a \in Nat, NEW b \in Nat
    PROVE  a * b \in Nat /\ (a + 1) * b = a * b + b /\ 0 * b = 0
OBVIOUS

\* The facts about one bucket that every step uses.
LEMMA Granted ==
    ASSUME TypeOK, GrantInv, NEW x \in Keys
    PROVE  /\ granted[x] \in Nat /\ Available(x) \in Nat /\ Capacity[x] \in Nat
           /\ Available(x) <= Capacity[x] /\ Gain(x) \in Nat
           /\ now \in Nat /\ since \in Nat /\ since <= now /\ TTL \in Nat
           /\ removed[x] \in Nat /\ removed[x] * Gain(x) \in Nat
           /\ x \in DOMAIN buckets =>
                 buckets[x].seen \in Nat /\ buckets[x].seen <= now
           /\ granted[x] + Available(x)
                 <= Capacity[x] + (now - since) + removed[x] * Gain(x)
<1>1. /\ granted[x] \in Nat /\ Available(x) \in Nat /\ Capacity[x] \in Nat
      /\ Available(x) <= Capacity[x]
      /\ now \in Nat /\ since \in Nat /\ since <= now /\ TTL \in Nat
      /\ removed[x] \in Nat
      /\ x \in DOMAIN buckets => buckets[x].seen \in Nat /\ buckets[x].seen <= now
  BY AvailableRange, PolicyAssumption DEF TypeOK, BucketState
<1>2. Gain(x) \in Nat
  BY <1>1 DEF Gain
<1>3. removed[x] * Gain(x) \in Nat
  BY <1>1, <1>2, Products
<1> QED BY <1>1, <1>2, <1>3 DEF GrantInv

\* A decision keeps the account of a bucket: its own, one it removes, and one
\* it leaves alone.
LEMMA DecisionKeepsAccount ==
    ASSUME TypeOK, GrantInv, NEW k \in Keys, Evaluate(k), NEW x \in Keys
    PROVE  /\ granted'[x] + Available(x)'
                <= Capacity[x] + (now' - since') + removed'[x] * Gain(x)
           /\ removed'[x] > 0 =>
                /\ (removed'[x] - 1) * (TTL + 1) <= now' - since'
                /\ x \in DOMAIN buckets' =>
                     /\ since' <= buckets'[x].seen
                     /\ (removed'[x] - 1) * (TTL + 1) <= buckets'[x].seen - since'
<1>1. PICK gone \in SUBSET Idle(Updated(k)) :
         /\ DOMAIN buckets' = (DOMAIN buckets \cup {k}) \ gone
         /\ \A y \in DOMAIN buckets' : buckets'[y] = Updated(k)[y]
         /\ \A y \in Keys : Available(y)' = LevelAfter(y, k, gone)
         /\ \A y \in Keys : removed'[y] = IF y \in gone THEN removed[y] + 1
                                           ELSE removed[y]
  BY EvaluateLevels
<1>2. now' = now /\ since' = since
  BY DEF Evaluate
<1>3. /\ Remaining(k) \in Nat /\ Available(k) \in Nat /\ Cost[k] \in Nat
      /\ Allowed(k) => Remaining(k) + Cost[k] = Available(k)
      /\ ~Allowed(k) => Remaining(k) = Available(k)
  BY AvailableRange, PolicyAssumption
<1>4. granted'[x] = IF x = k /\ Allowed(k) THEN granted[x] + Cost[k]
                    ELSE granted[x]
  BY DEF Evaluate, TypeOK
<1>5. CASE x = k
  <2>1. k \notin gone
    BY <1>1, IdleHolds
  <2>2. /\ removed'[k] = removed[k] /\ Available(k)' = Remaining(k)
        /\ buckets'[k] = Updated(k)[k]
    BY <1>1, <2>1 DEF LevelAfter
  <2>3. buckets'[k].seen = now
    BY <2>2 DEF Updated
  <2>4. granted'[k] + Available(k)' = granted[k] + Available(k)
    BY <1>3, <1>4, <1>5, <2>2, Granted
  <2>5. removed[k] > 0 => (removed[k] - 1) * (TTL + 1) <= now - since
    BY DEF GrantInv
  <2> QED BY <1>2, <1>5, <2>2, <2>3, <2>4, <2>5, Granted
<1>6. CASE x # k /\ x \in gone
  <2>1. /\ x \in DOMAIN buckets /\ TTL + 1 <= now - buckets[x].seen
        /\ Available(x) = Capacity[x] \/ Available(x) > TTL
    BY <1>1, <1>6, IdleHolds
  <2>2. /\ removed'[x] = removed[x] + 1 /\ Available(x)' = Capacity[x]
        /\ x \notin DOMAIN buckets' /\ granted'[x] = granted[x]
    BY <1>1, <1>4, <1>6 DEF LevelAfter
  <2>3. Capacity[x] <= Available(x) + Gain(x)
    BY <2>1, Granted DEF Gain
  <2>4. removed'[x] * Gain(x) = removed[x] * Gain(x) + Gain(x)
    BY <2>2, Granted, Products
  <2>5. granted'[x] + Available(x)'
           <= Capacity[x] + (now' - since') + removed'[x] * Gain(x)
    BY <1>2, <2>2, <2>3, <2>4, Granted
  <2>6. removed[x] * (TTL + 1) <= now - since
    <3>1. CASE removed[x] = 0
      BY <3>1, Granted, Products
    <3>2. CASE removed[x] # 0
      <4>1. /\ since <= buckets[x].seen
            /\ (removed[x] - 1) * (TTL + 1) <= buckets[x].seen - since
        BY <2>1, <3>2, Granted DEF GrantInv
      <4>2. removed[x] - 1 \in Nat /\ TTL + 1 \in Nat
            /\ (removed[x] - 1) + 1 = removed[x]
        BY <3>2, Granted
      <4>3. /\ (removed[x] - 1) * (TTL + 1) \in Nat
            /\ removed[x] * (TTL + 1) = (removed[x] - 1) * (TTL + 1) + (TTL + 1)
        BY <4>2, Products
      <4>4. buckets[x].seen \in Nat /\ now \in Nat /\ since \in Nat /\ TTL \in Nat
        BY <2>1, Granted
      <4> DEFINE p == (removed[x] - 1) * (TTL + 1)
                 q == removed[x] * (TTL + 1)
      <4>5. p \in Nat /\ q = p + (TTL + 1) /\ p <= buckets[x].seen - since
        BY <4>1, <4>3
      <4> HIDE DEF p, q
      <4>6. q <= now - since
        BY <2>1, <4>4, <4>5
      <4> QED BY <4>6 DEF q
    <3> QED BY <3>1, <3>2
  <2>7. removed'[x] - 1 = removed[x]
    BY <2>2, Granted
  <2> QED BY <1>2, <2>2, <2>5, <2>6, <2>7
<1>7. CASE x # k /\ x \notin gone
  <2>1. /\ removed'[x] = removed[x] /\ Available(x)' = Available(x)
        /\ granted'[x] = granted[x]
        /\ x \in DOMAIN buckets' => x \in DOMAIN buckets /\ buckets'[x] = buckets[x]
    BY <1>1, <1>4, <1>7 DEF LevelAfter, Updated
  <2> QED BY <1>2, <2>1 DEF GrantInv
<1> QED BY <1>5, <1>6, <1>7

\* In no interval is more granted than one full bucket, the refill of the
\* interval and what removed buckets gained, for all settings.
THEOREM NeverOvergrants == Spec => []NoOvergrant
<1>1. Init => GrantInv
  <2> SUFFICES ASSUME Init, NEW k \in Keys
               PROVE  /\ granted[k] + Available(k)
                           <= Capacity[k] + (now - since) + removed[k] * Gain(k)
                      /\ ~ removed[k] > 0
    BY DEF GrantInv
  <2>1. /\ Available(k) = Capacity[k] /\ Capacity[k] \in Nat
        /\ TTL \in Nat /\ Gain(k) \in Nat
    BY PolicyAssumption DEF Init, Available, Gain
  <2>2. granted[k] = 0 /\ removed[k] = 0 /\ now = 0 /\ since = 0
    BY DEF Init
  <2>3. removed[k] * Gain(k) = 0
    BY <2>1, <2>2, Products
  <2> QED BY <2>1, <2>2, <2>3
<1>2. TypeOK /\ TypeOK' /\ GrantInv /\ [Next]_vars => GrantInv'
  <2> SUFFICES ASSUME TypeOK, TypeOK', GrantInv, [Next]_vars, NEW x \in Keys
               PROVE  /\ granted'[x] + Available(x)'
                           <= Capacity[x] + (now' - since') + removed'[x] * Gain(x)
                      /\ removed'[x] > 0 =>
                           /\ (removed'[x] - 1) * (TTL + 1) <= now' - since'
                           /\ x \in DOMAIN buckets' =>
                                /\ since' <= buckets'[x].seen
                                /\ (removed'[x] - 1) * (TTL + 1)
                                      <= buckets'[x].seen - since'
    BY DEF GrantInv, Gain
  <2>1. CASE \E k \in Keys : Evaluate(k)
    BY <2>1, DecisionKeepsAccount
  <2>2. CASE Tick
    <3>1. Available(x)' <= Available(x) + 1 /\ Available(x)' \in Nat
      BY <2>2, Granted, TickLevels
    <3>2. /\ now' = now + 1 /\ since' = since /\ granted' = granted
          /\ removed' = removed /\ buckets' = buckets
      BY <2>2 DEF Tick
    <3>3. granted'[x] + Available(x)'
             <= Capacity[x] + (now' - since') + removed'[x] * Gain(x)
      BY <3>1, <3>2, Granted
    <3>4. removed[x] > 0 => (removed[x] - 1) * (TTL + 1) <= now - since
      BY DEF GrantInv
    <3>5. removed[x] > 0 => (removed[x] - 1) * (TTL + 1) \in Nat
      <4>1. TTL + 1 \in Nat /\ (removed[x] > 0 => removed[x] - 1 \in Nat)
        BY Granted
      <4> QED BY <4>1, Products
    <3>6. removed[x] > 0 => (removed[x] - 1) * (TTL + 1) <= now' - since'
      BY <3>2, <3>4, <3>5, Granted
    <3>7. removed[x] > 0 /\ x \in DOMAIN buckets =>
             /\ since <= buckets[x].seen
             /\ (removed[x] - 1) * (TTL + 1) <= buckets[x].seen - since
      BY DEF GrantInv
    <3> QED BY <3>2, <3>3, <3>6, <3>7
  <2>3. CASE Observe
    <3>1. /\ now' = now /\ since' = now /\ granted'[x] = 0 /\ removed'[x] = 0
          /\ UNCHANGED <<buckets, now>>
      BY <2>3 DEF Observe
    <3>2. Available(x)' = Available(x)
      BY <3>1, ObserveLevels
    <3>3. removed'[x] * Gain(x) = 0
      BY <3>1, Granted, Products
    <3> QED BY <3>1, <3>2, <3>3, Granted
  <2>4. CASE UNCHANGED vars
    <3>1. /\ UNCHANGED <<buckets, now>> /\ granted' = granted /\ since' = since
          /\ removed' = removed
      BY <2>4 DEF vars
    <3>2. Available(x)' = Available(x)
      BY <3>1, ObserveLevels
    <3> QED BY <3>1, <3>2 DEF GrantInv
  <2> QED BY <2>1, <2>2, <2>3, <2>4 DEF Next
<1>3. TypeOK /\ GrantInv => NoOvergrant
  <2> SUFFICES ASSUME TypeOK, GrantInv, NEW k \in Keys
               PROVE  /\ granted[k]
                           <= Capacity[k] + (now - since) + removed[k] * Gain(k)
                      /\ removed[k] > 0 =>
                           (removed[k] - 1) * (TTL + 1) <= now - since
    BY DEF NoOvergrant
  <2>1. granted[k] <= Capacity[k] + (now - since) + removed[k] * Gain(k)
    BY Granted
  <2>2. removed[k] > 0 => (removed[k] - 1) * (TTL + 1) <= now - since
    BY DEF GrantInv
  <2> QED BY <2>1, <2>2
<1> QED BY <1>1, <1>2, <1>3, LimiterTypeCorrect, PTL DEF Spec

-----------------------------------------------------------------------------
(* The wait a denial promises.                                             *)

\* The most a bucket can have towards the cost of a request.
Need(k) == Least(Cost[k], Capacity[k])

\* At the promised time, or later, the tokens will be there.
WaitInv ==
    \A k \in Keys :
        /\ due[k] # 0 /\ now < due[k] =>
              Need(k) <= Available(k) + (due[k] - now)
        /\ due[k] # 0 /\ due[k] <= now => Need(k) <= Available(k)

\* What is needed and what is there, as numbers.
LEMMA Needed ==
    ASSUME TypeOK, NEW x \in Keys
    PROVE  /\ Available(x) \in Nat /\ Capacity[x] \in Nat /\ Cost[x] \in Nat
           /\ Available(x) <= Capacity[x]
           /\ Need(x) \in Nat /\ Need(x) <= Cost[x] /\ Need(x) <= Capacity[x]
           /\ now \in Nat /\ due[x] \in Nat
<1>1. /\ Available(x) \in Nat /\ Capacity[x] \in Nat /\ Cost[x] \in Nat
      /\ Available(x) <= Capacity[x] /\ now \in Nat /\ due[x] \in Nat
  BY AvailableRange, PolicyAssumption DEF TypeOK
<1> QED BY <1>1 DEF Need, Least

\* A client that waited as long as the last denial said finds the tokens it
\* was missing or a full bucket, whatever was removed meanwhile.
THEOREM WaitingIsEnough == Spec => []RetryIsEnough
<1>1. Init => WaitInv
  BY DEF Init, WaitInv
<1>2. TypeOK /\ TypeOK' /\ WaitInv /\ [Next]_vars => WaitInv'
  <2> SUFFICES ASSUME TypeOK, TypeOK', WaitInv, [Next]_vars, NEW x \in Keys
               PROVE  /\ due'[x] # 0 /\ now' < due'[x] =>
                            Need(x) <= Available(x)' + (due'[x] - now')
                      /\ due'[x] # 0 /\ due'[x] <= now' =>
                            Need(x) <= Available(x)'
    BY DEF WaitInv, Need, Least
  <2>1. /\ due[x] # 0 /\ now < due[x] =>
              Need(x) <= Available(x) + (due[x] - now)
        /\ due[x] # 0 /\ due[x] <= now => Need(x) <= Available(x)
    BY DEF WaitInv
  <2>2. ASSUME NEW k \in Keys, Evaluate(k)
        PROVE  /\ due'[x] # 0 /\ now' < due'[x] =>
                     Need(x) <= Available(x)' + (due'[x] - now')
               /\ due'[x] # 0 /\ due'[x] <= now' => Need(x) <= Available(x)'
    <3>1. now' = now
      BY <2>2 DEF Evaluate
    <3>2. PICK gone \in SUBSET Idle(Updated(k)) :
             Available(x)' = LevelAfter(x, k, gone)
      BY <2>2, EvaluateLevels
    <3>3. CASE x # k
      <4>1. due'[x] = due[x]
        BY <2>2, <3>3 DEF Evaluate, TypeOK
      <4>2. Available(x)' \in Nat /\ Available(x) <= Available(x)'
        BY <3>2, <3>3, Needed DEF LevelAfter
      <4> QED BY <2>1, <3>1, <4>1, <4>2, Needed
    <3>4. CASE x = k /\ Allowed(k)
      <4>1. due' = [due EXCEPT ![k] = 0]
        BY <2>2, <3>4 DEF Evaluate
      <4>2. due'[x] = 0
        BY <3>4, <4>1 DEF TypeOK
      <4> QED BY <4>2
    <3>5. CASE x = k /\ ~Allowed(k)
      <4>1. PICK retry \in 0 .. Cost[k] + Second :
               /\ RetryAfter(Cost[k] - Available(k), retry)
               /\ due' = [due EXCEPT ![k] = now + retry]
        BY <2>2, <3>5 DEF Evaluate
      <4>2. due'[x] = now + retry
        BY <3>5, <4>1 DEF TypeOK
      <4>3. retry \in Nat /\ Cost[x] - Available(x) <= retry
        BY <3>5, <4>1, Needed, PolicyAssumption DEF RetryAfter
      <4>4. Available(x)' = Available(x)
        BY <3>2, <3>5, AvailableRange DEF LevelAfter
      <4>5. Need(x) <= Available(x) + retry
        BY <4>3, Needed
      <4>6. now < now + retry => (now + retry) - now = retry
        BY <4>3, Needed
      <4>7. now + retry <= now => retry = 0
        BY <4>3, Needed
      <4> QED BY <3>1, <4>2, <4>3, <4>4, <4>5, <4>6, <4>7, Needed
    <3> QED BY <3>3, <3>4, <3>5
  <2>3. CASE Tick
    <3>1. Available(x)' = IF Available(x) < Capacity[x]
                          THEN Available(x) + 1 ELSE Available(x)
      BY <2>3, TickLevels
    <3>2. now' = now + 1 /\ due' = due
      BY <2>3 DEF Tick
    <3> QED BY <2>1, <3>1, <3>2, Needed
  <2>4. CASE Observe \/ UNCHANGED vars
    <3>1. UNCHANGED <<buckets, now>> /\ due' = due /\ now' = now
      BY <2>4 DEF Observe, vars
    <3>2. Available(x)' = Available(x)
      BY <3>1, ObserveLevels
    <3> QED BY <2>1, <3>1, <3>2
  <2> QED BY <2>2, <2>3, <2>4 DEF Next
<1>3. TypeOK /\ WaitInv => RetryIsEnough
  <2> SUFFICES ASSUME TypeOK, WaitInv, NEW k \in Keys,
                      due[k] # 0, now >= due[k]
               PROVE  Available(k) >= Cost[k] \/ Available(k) = Capacity[k]
    BY DEF RetryIsEnough, Allowed
  <2>1. due[k] <= now
    BY Needed
  <2>2. Need(k) <= Available(k)
    BY <2>1 DEF WaitInv
  <2>3. Need(k) = Cost[k] \/ Need(k) = Capacity[k]
    BY DEF Need, Least
  <2> QED BY <2>2, <2>3, Needed
<1> QED BY <1>1, <1>2, <1>3, LimiterTypeCorrect, PTL DEF Spec

-----------------------------------------------------------------------------
(* The eager bucket.                                                       *)

\* A decision fills up, among the buckets of others, only some that hold more
\* than the time to live refills.
LEMMA DecisionLeaves ==
    ASSUME TypeOK, NEW k \in Keys, Evaluate(k)
    PROVE  Bucket!Leaves(k, Remaining(k))
<1> DEFINE Level == [x \in Keys |-> Available(x)]
<1>1. PICK gone \in SUBSET Idle(Updated(k)) :
         \A x \in Keys : Available(x)' = LevelAfter(x, k, gone)
  BY EvaluateLevels
<1> DEFINE full == {x \in gone : Available(x) > TTL}
<1>2. \A x \in gone : /\ x \in Keys /\ x # k
                      /\ Available(x) = Capacity[x] \/ Available(x) > TTL
  BY IdleHolds
<1>3. full \in SUBSET {x \in Keys \ {k} : Level[x] > TTL}
  BY <1>2
<1>4. \A x \in Keys : Available(x)' = IF x = k THEN Remaining(k)
                                      ELSE IF x \in full THEN Capacity[x]
                                      ELSE Level[x]
  BY <1>1, <1>2 DEF LevelAfter
<1>5. Level' = [x \in Keys |-> IF x = k THEN Remaining(k)
                               ELSE IF x \in full THEN Capacity[x]
                               ELSE Level[x]]
  BY <1>4
<1> HIDE DEF full
<1> QED BY <1>3, <1>5 DEF Bucket!Leaves

\* For all settings the limiter implements EagerBucket: lazy refill changes
\* no decision, and the removal of idle buckets only those about buckets that
\* hold more than the time to live refills, never against the client.
THEOREM ImplementsEagerBucket == Spec => DecidesAsEagerBucket
<1> DEFINE Level == [k \in Keys |-> Available(k)]
           Verdict == [key |-> decision.key, outcome |-> decision.outcome]
<1>1. Init => Bucket!Init
  <2> SUFFICES ASSUME Init PROVE Bucket!Init
    OBVIOUS
  <2>1. \A k \in Keys : Available(k) = Capacity[k]
    BY DEF Init, Available
  <2>2. Level = [k \in Keys |-> Capacity[k]]
    BY <2>1
  <2>3. Verdict = Bucket!Idle
    BY DEF Init, NoDecision, Bucket!Idle
  <2> QED BY <2>2, <2>3 DEF Bucket!Init
<1>2. TypeOK /\ TypeOK' /\ [Next]_vars => [Bucket!Next]_(Bucket!vars)
  <2> SUFFICES ASSUME TypeOK, TypeOK', [Next]_vars
               PROVE  Bucket!Next \/ (Level' = Level /\ Verdict' = Verdict)
    BY DEF Bucket!vars
  <2>1. ASSUME NEW k \in Keys, Evaluate(k) PROVE Bucket!Next
    <3>1. Bucket!Leaves(k, Remaining(k))
      BY <2>1, DecisionLeaves
    <3>2. CASE Allowed(k)
      <4>1. Verdict' = [key |-> {k}, outcome |-> "allowed"]
        <5>1. decision' = [key |-> {k}, outcome |-> "allowed", retry |-> 0]
          BY <2>1, <3>2 DEF Evaluate
        <5> QED BY <5>1
      <4>2. Level[k] >= Cost[k]
        BY <3>2 DEF Allowed
      <4>3. Remaining(k) = Level[k] - Cost[k]
        BY <3>2 DEF Remaining
      <4>4. Bucket!Leaves(k, Level[k] - Cost[k])
        BY <3>1, <4>3
      <4>5. Bucket!Allow(k)
        BY <4>1, <4>2, <4>4 DEF Bucket!Allow
      <4> QED BY <4>5 DEF Bucket!Next
    <3>3. CASE ~Allowed(k)
      <4>1. Verdict' = [key |-> {k}, outcome |-> "denied"]
        <5>1. \E retry \in 0 .. Cost[k] + Second :
                 decision' = [key |-> {k}, outcome |-> "denied",
                              retry |-> retry]
          BY <2>1, <3>3 DEF Evaluate
        <5> QED BY <5>1
      <4>2. Level[k] < Cost[k]
        <5>1. Available(k) \in Nat /\ Cost[k] \in Nat
          BY AvailableRange, PolicyAssumption
        <5> QED BY <3>3, <5>1 DEF Allowed
      <4>3. Remaining(k) = Level[k]
        BY <3>3 DEF Remaining
      <4>4. Bucket!Leaves(k, Level[k])
        BY <3>1, <4>3
      <4>5. Bucket!Deny(k)
        BY <4>1, <4>2, <4>4 DEF Bucket!Deny
      <4> QED BY <4>5 DEF Bucket!Next
    <3> QED BY <3>2, <3>3
  <2>2. CASE Tick
    <3>1. \A x \in Keys :
             Available(x)' = IF Available(x) < Capacity[x]
                             THEN Available(x) + 1 ELSE Available(x)
      BY <2>2, TickLevels
    <3>2. Level' = [x \in Keys |-> IF Level[x] < Capacity[x]
                                   THEN Level[x] + 1 ELSE Level[x]]
      BY <3>1
    <3>3. Verdict' = Bucket!Idle
      BY <2>2 DEF Tick, NoDecision, Bucket!Idle
    <3> QED BY <3>2, <3>3 DEF Bucket!Next, Bucket!Tick
  <2>3. CASE Observe \/ UNCHANGED vars
    <3>1. UNCHANGED <<buckets, now>> /\ decision' = decision
      BY <2>3 DEF Observe, vars
    <3>2. \A x \in Keys : Available(x)' = Available(x)
      BY <3>1, ObserveLevels
    <3> QED BY <3>1, <3>2
  <2> QED BY <2>1, <2>2, <2>3 DEF Next
<1> QED BY <1>1, <1>2, LimiterTypeCorrect, PTL
        DEF Spec, DecidesAsEagerBucket, Bucket!Spec
=============================================================================

---------------------------- MODULE MCTokenBucket ----------------------------
(***************************************************************************)
(* Instance of TokenBucket for TLC: a user's ordinary and expensive calls, *)
(* and a login.  The settings allow all three: an ordinary bucket is full  *)
(* again before it may be removed, an expensive one is not, and a login    *)
(* costs more than its bucket holds.                                       *)
(***************************************************************************)
EXTENDS TokenBucket

CONSTANTS standard, expensive, login

MCKeys == {standard, expensive, login}
MCCapacity == [k \in MCKeys |->
    CASE k = standard -> 1 [] k = expensive -> 4 [] k = login -> 1]
MCCost == [k \in MCKeys |->
    CASE k = standard -> 1 [] k = expensive -> 3 [] k = login -> 2]
=============================================================================

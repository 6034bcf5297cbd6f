SPECIFICATION Spec
CONSTANTS
    standard = standard
    expensive = expensive
    login = login
    Keys <- MCKeys
    Capacity <- MCCapacity
    Cost <- MCCost
    TTL = 2
    Interval = 2
    Scan = 1
    Second = 2
    MaxTime = 6
INVARIANTS
    TypeOK
    NoOvergrant
    RetryIsEnough
PROPERTIES
    DecidesAsEagerBucket

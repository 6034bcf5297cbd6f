SPECIFICATION Spec

CONSTANTS
    brief = brief
    long = long
    huge = huge
    SessionIds = {s1, s2, s3}
    Owners = {o1, o2}
    RequestIds = {q1, q2, q3}
    Contents = {brief, long, huge}
    CharactersOf <- MCCharactersOf
    ReferencesOf <- MCReferencesOf
    MaxSessions = 2
    MaxTurns = 2
    MaxCharacters = 4
    MaxReferences = 3
    TTL = 2
    ScanLimit = 1
    MaxTime = 3
    MaxWrites = 3

SYMMETRY MCSymmetry
VIEW MCView

INVARIANTS
    TypeOK
    WithinLimits
    NewestTurnsKept

PROPERTIES
    OwnLiveTurnsRead
    RemembersConversations
    LiveSessionsSurvive

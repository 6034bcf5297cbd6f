CONSTANTS
    c1 = c1
    c2 = c2
    c3 = c3
    viewer = viewer
    Absent = Absent
    Corpus <- MCCorpus
    Queries <- MCQueries
    MaxBuilds = 2
    MaxFaults = 1
    MaxRetries = 1
    AllowPartial = TRUE

SPECIFICATION Spec

INVARIANTS
    BuildsSurvive
    IndexedMeansStored
    EvidenceIsCurrent
    EvidenceIsPermitted

PROPERTIES
    EverySearchEnds

CHECK_DEADLOCK FALSE

CONSTANTS
    Evidence = {"E1", "E2"}
    Unknown = "E9"
    MaxRepairs = 2
    MaxCitations = 2
    MaxLlmCalls = 3

SPECIFICATION Spec

INVARIANTS
    SpendsWithinAllowance
    ReportsItsCalls

PROPERTIES
    AnswersAreAttributed

CHECK_DEADLOCK FALSE

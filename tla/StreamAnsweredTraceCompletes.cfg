SPECIFICATION Spec
CONSTANTS
    MaxNodes = 3
    MaxEvents = 6
INVARIANTS
    AnsweredTraceCompletes

SPECIFICATION FairChat

CONSTANTS
    MaxNodes = 2
    MaxEvents = 4
    MaxTurns = 2

INVARIANTS
    NoAnswerLost
    NothingSkipped
    OneConversation

PROPERTIES
    KeepsContract
    EveryStreamCloses
    EveryPromptIsSettled

CHECK_DEADLOCK FALSE

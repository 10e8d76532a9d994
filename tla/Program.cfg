SPECIFICATION Spec
CONSTANTS
    Review = TRUE
    Pending = 2
INVARIANTS
    CliFollowsSession
    TextReplyFits
    TypingEnds
    NothingLeftRunning
PROPERTIES
    CliTurnReachesUser
    ShutdownEnds
CHECK_DEADLOCK FALSE

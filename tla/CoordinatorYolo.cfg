SPECIFICATION EventsSpec
CONSTANTS
    None = None
    Reaper = reaper
    Main = main
    Sessions = {s1}
    Sandboxes = {b1, b2}
    Workers = {w1, w2}
    Callers = {t1}
    Fire = FALSE
    Review = TRUE
    MaxActive = 1
    Stoppable = {s1}
    Shutdown = FALSE
    IdleTimeout = TRUE
    Crashes = TRUE
    StoreFaults = {"nofiles"}
INVARIANTS
    ReplyAnswersPrompt
    MemoryMatchesDisk
PROPERTIES
    StopIsFinal
    SessionsAreWorkers

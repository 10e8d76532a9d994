SPECIFICATION Spec
CONSTANTS
    None = None
    Reaper = reaper
    Main = main
    Sessions = {s1, s2}
    Sandboxes = {b1, b2, b3}
    Workers = {w1, w2}
    Callers = {t1}
    Fire = FALSE
    Review = FALSE
    MaxActive = 2
    Stoppable = {}
    Shutdown = FALSE
    IdleTimeout = TRUE
    Crashes = TRUE
    StoreFaults = {}
SYMMETRY Symmetry
INVARIANTS
    OneWorkerPerSession
    PromptAnswerable
    ReaperSparesActiveTasks

SPECIFICATION Spec
CONSTANTS
    None = None
    Reaper = reaper
    Main = main
    Sessions = {s1, s2}
    Sandboxes = {b1, b2}
    Workers = {w1}
    Callers = {t1}
    Fire = TRUE
    Review = FALSE
    MaxActive = 1
    Stoppable = {s1}
    Shutdown = TRUE
    IdleTimeout = TRUE
    Crashes = TRUE
    StoreFaults = {}
SYMMETRY Symmetry
INVARIANTS
    TypeOK
    CapacityRespected
    StoppingHasStopper
    NoRunningOrphan
    NoLeakedSandbox

SPECIFICATION FairSpec
CONSTANTS
    None = None
    Reaper = reaper
    Main = main
    Sessions = {s1}
    Sandboxes = {b1, b2}
    Workers = {w1}
    Callers = {t1}
    Fire = TRUE
    Review = FALSE
    MaxActive = 1
    Stoppable = {s1}
    Shutdown = FALSE
    IdleTimeout = TRUE
    Crashes = TRUE
    StoreFaults = {"nosave"}
PROPERTIES
    StoppingEnds
    TaskSettles
    StopReachesWorker

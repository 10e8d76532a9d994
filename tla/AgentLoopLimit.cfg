SPECIFICATION MCSpec
CONSTANTS
    None = None
    r1 = r1
    r2 = r2
    r3 = r3
    r4 = r4
    Ids <- FourIds
    MaxIterations = 2
    ChildIterations = 1
    MaxChildren = 0
    Attempts = 3
    Backlog = 2
    Review = FALSE
INVARIANT
    PromptAwaited

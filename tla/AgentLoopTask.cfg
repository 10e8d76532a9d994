SPECIFICATION MCSpec
CONSTANTS
    None = None
    r1 = r1
    r2 = r2
    r3 = r3
    r4 = r4
    Ids <- FourIds
    MaxIterations = 3
    ChildIterations = 2
    MaxChildren = 1
    Attempts = 3
    Backlog = 2
    Review = TRUE
INVARIANTS
    TypeOK
    TaskAnswered
    ReplyMeetsPrompt
    ApprovedPlan
    ChildrenSilent
PROPERTIES
    OwnAnswer
    IsSession

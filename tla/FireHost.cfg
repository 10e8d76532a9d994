SPECIFICATION MCSpec
CONSTANTS
    None = None
    b1 = b1
    b2 = b2
    b3 = b3
    s1 = s1
    s2 = s2
    Sandboxes = {b1, b2, b3}
    Sessions = {s1, s2}
    SessionOf <- SharedSession
    Cids = {c1, c2}
    Subnets = 2
    Retries = 2
    Signals = {b1}
    Kills = {b1, b3}
SYMMETRY Symmetry
INVARIANTS
    TypeOK
    GuestIsolated
    GuestsDistinct
    AnswersPass
    NothingRuns
    NoRuleLeftUnlessSignalled
    LeasesHeldUnlessKilled

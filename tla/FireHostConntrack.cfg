SPECIFICATION MCSpec
CONSTANTS
    None = None
    b1 = b1
    b2 = b2
    b3 = b3
    s1 = s1
    s2 = s2
    Sandboxes = {b1}
    Sessions = {s1, s2}
    SessionOf <- OneSession
    Cids = {c1}
    Subnets = 2
    Retries = 1
    Signals = {}
    Kills = {}
INVARIANTS
    ConntrackRemoved

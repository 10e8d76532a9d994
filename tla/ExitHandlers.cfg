SPECIFICATION Spec
CONSTANTS
    Sandboxes = {s1, s2}
    Python = Python
    None = None
CHECK_DEADLOCK FALSE
PROPERTY IdleInterruptEnds

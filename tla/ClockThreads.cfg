SPECIFICATION Spec
CONSTANTS
    Threads = {t1, t2}
    MaxNow = 4
    MaxDepth = 2
    None = None
INVARIANTS
    PinReleased
    LoneConsistent
PROPERTY LoneAdvance

SPECIFICATION Spec
CONSTANTS
    Threads = {t1}
    MaxNow = 3
    MaxDepth = 1
    None = None
INVARIANT FrozenReportStill

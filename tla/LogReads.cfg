SPECIFICATION Spec
CONSTANTS
    Sizes = {1, 2, 7}
    Pieces = {1, 3}
    Cap = 6
    Asks = {0, 1, 5}
    Tries = 3
    MaxLines = 6
    None = None
CHECK_DEADLOCK FALSE
INVARIANTS
    OlderMarked
    WholeLines
    NewestKept

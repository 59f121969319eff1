SPECIFICATION Spec
CONSTANTS
    Threads = {t1}
    Handlers = {h1}
    Events = {e1, e2}
    MaxCycles = 2
    MaxTimeouts = 0
    MaxLosses = 0
SYMMETRY Interchangeable
INVARIANT LinearHistory
CHECK_DEADLOCK FALSE

SPECIFICATION FairSpec
CONSTANTS
    Threads = {t1}
    Handlers = {h1, h2}
    Events = {e1, e2}
    MaxCycles = 2
    MaxTimeouts = 0
    MaxLosses = 1
INVARIANTS LinearPerProcess
PROPERTIES KeepsHistory AppliedIsReported PublishedIsApplied
CHECK_DEADLOCK FALSE

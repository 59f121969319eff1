SPECIFICATION Spec
CONSTANTS
    Threads = {t1, t2}
    Handlers = {h1, h2}
    Stages = 1
    MaxTimeouts = 1
    MaxLosses = 0
    MaxRestarts = 1
    MaxRefusals = 1
SYMMETRY Interchangeable
INVARIANT CancelReachesWorkflow
PROPERTIES FirstOutcomeStands RecoveryHeals
CHECK_DEADLOCK FALSE

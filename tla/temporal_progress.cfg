SPECIFICATION FairSpec
CONSTANTS
    Threads = {t1}
    Handlers = {h1}
    Stages = 1
    MaxTimeouts = 1
    MaxLosses = 1
    MaxRestarts = 1
    MaxRefusals = 0
PROPERTY WorkflowSettles
CHECK_DEADLOCK FALSE

SPECIFICATION FairSpec
CONSTANTS
    NumJobs = 2
    Workers = {w1, w2}
    Handlers = {h1}
    QueueSize = 1
    Stages = 1
    MaxRestarts = 1
    MaxFaults = 0
PROPERTIES EveryJobSettles CancelEnds

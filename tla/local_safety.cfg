SPECIFICATION Spec
CONSTANTS
    NumJobs = 2
    Workers = {w1, w2}
    Handlers = {h1, h2}
    QueueSize = 1
    Stages = 1
    MaxRestarts = 1
    MaxFaults = 1
SYMMETRY Threads
INVARIANTS TypeOK OnePlace NoJobLost
PROPERTY Implements

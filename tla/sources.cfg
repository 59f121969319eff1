SPECIFICATION Spec
CONSTANTS
    Threads = {t1, t2}
    NumSources = 3
    Facts = {f1}
    MaxAttempts = 2
    MaxTimeouts = 1
    MaxLosses = 2
    MaxTroubles = 2
    Files = {"f"}
    Serves <- WhatTheyServe
    Norm <- Normalized2
    FileText <- TextOf
SYMMETRY Interchangeable
INVARIANTS Unrepeated NoSourceSkipped TablesProfiled
CHECK_DEADLOCK FALSE

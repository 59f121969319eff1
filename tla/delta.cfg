SPECIFICATION Spec
CONSTANTS
    Threads = {t1, t2}
    MaxTimeouts = 1
    MaxLosses = 2
    NumSources = 2
    Known = 1
    Watchable = {1}
    Pasts <- ThePasts
    Values = {"old", "new"}
    Says <- WhatTheySay
    Baseline = "old"
    Claims <- TheClaims
    Conclusions <- TheConclusions
    Mode = "safe"
    MaxSections = 3
    MaxLlm = 2
    MaxEvents = 3
    Attempts = 2
    MaxCycles = 1
    MaxTroubles = 2
    Overlap = FALSE
SYMMETRY Interchangeable
INVARIANTS ChangeKept AllExamined AllReported BudgetKept
PROPERTY AloneOnlyIfHarmless
CHECK_DEADLOCK FALSE

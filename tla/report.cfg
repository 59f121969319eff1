SPECIFICATION FairSpec
CONSTANTS
    Threads = {t1, t2}
    Claims = {c1, c2}
    AutoRetry = TRUE
    MaxRounds = 3
    MaxTimeouts = 1
    MaxLosses = 2
INVARIANT OutcomesAgree
PROPERTIES PublishedStays EndsEventually
CHECK_DEADLOCK FALSE

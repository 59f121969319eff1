SPECIFICATION FairSpec
CONSTANTS
    Threads = {t1, t2}
    Attempts <- MaximumAttempts
    MaxTroubles = 2
    Plans <- SomePlans
    Options <- PdfOrBoth
INVARIANTS OneAnalysis SentOnce ToldTheTruth
PROPERTIES Settled
CHECK_DEADLOCK FALSE

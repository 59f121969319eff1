SPECIFICATION FairSpec
CONSTANTS
    Workers = {w1, w2}
    QueueSize = 2
    Choices = {"monitor"}
    Scripts <- Dialogues
    MaxTroubles = 2
INVARIANTS OneJobPerMessage OneActiveDraft MonitoringNotForgotten AsConfirmed
PROPERTIES EndedDraftsStay Answered
CHECK_DEADLOCK FALSE

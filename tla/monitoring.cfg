SPECIFICATION Spec
CONSTANTS
    DefaultZone = "Asia/Shanghai"
    MinMinutes = 30
    Handlers = {h1}
    Requests <- TwoRequests
    Saved <- EveryDay
    Compared <- AllRequests
    Threshold = 2
    Attempts = 2
    MaxCommands = 2
    MaxCycles = 2
    MaxTroubles = 2
    MaxEvents = 3
INVARIANTS StoresAgree CountsFailures RunRowsEnd ConversionsAgree
PROPERTY RepairAgrees
CHECK_DEADLOCK FALSE

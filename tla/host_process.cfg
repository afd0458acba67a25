CONSTANTS
    queue = queue
    state = state
    Procs = {1, 2, 3}
    NoProc = 0
    Unwritten = 99
    Files = {queue, state}
    Pairs <- MCPairs
    Limit = 2
    Healthy = 2
    Budgets <- MCBudgets

SPECIFICATION FairSpec
CHECK_DEADLOCK FALSE

INVARIANTS
    LoopIsAlone
    UpgradeKeepsRecords
    AlertsAreRationed
    OneSummaryADay
PROPERTIES
    ConfigCatchesUp

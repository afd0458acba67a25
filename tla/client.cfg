CONSTANTS
    j1 = j1
    j2 = j2
    c1 = c1
    c2 = c2
    Jobs = {j1, j2}
    Workers = {w1}
    NoWorker = none
    MaxTracked = 1
    Clients = {c1, c2}
    NoClient = nobody
    Watcher = c2
    Submissions <- MCSubmissions
    MaxEnqueue = 1
    MaxInfo = 2
    MaxRounds = 2
    Budgets <- MCBudgets

SPECIFICATION FairSpec
CHECK_DEADLOCK FALSE

INVARIANTS
    TypeOK
    AnswersWereTrue
    SubmittedIsTracked
    LedgerIsTrue
    NeverSubmittedTwice
    OwnPayload
    CompletedLogIsWhole
PROPERTIES
    LiveNeverEvicted
    FinishedIsShown

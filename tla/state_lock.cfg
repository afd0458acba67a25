SPECIFICATION FairSpec
CONSTANTS
    d = d
    r = r
    t1 = t1
    t2 = t2
    t3 = t3
    Procs <- MCProcs
    Threads <- MCThreads
    ProcOf <- MCProcOf
    Degraded <- MCDegraded
    NoThread = NoThread
    NoProc = NoProc
    MaxDepth = 2
    MaxWork = 3
INVARIANTS
    TypeOK
    MutualExclusion
    NoLostUpdate
    CopyIsFresh
PROPERTIES
    AtomicUpdates
    WaiterGetsIn
CHECK_DEADLOCK FALSE

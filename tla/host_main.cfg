SPECIFICATION FairSpec
CONSTANTS
    h1 = h1
    h2 = h2
    b = b
    u = u
    m = m
    gpu = gpu
    cpu = cpu
    NoHost = NoHost
    NoJob = NoJob
    Hosts <- MCHosts
    Jobs <- MCJobs
    Queues = {gpu, cpu}
    QueueOf <- MCQueueOf
    QueueHosts <- MCQueueHosts
    Prio <- MCPrio
    Preempt <- MCPreempt
    Pinned <- MCPinned
    Payload <- MCPayload
    HostRank <- MCRank
    MaxSubmitFailures = 2
    MaxFailedRecords = 3
    Faults = {"crash", "reboot", "down", "kill", "kill_timeout",
              "fetch", "scratch", "command_dies"}
    MaxFaults = 1
    Ops = {"qdel", "clear", "stop", "enable_host", "requeue_deferred", "drop_deferred"}
    MaxOps = 1
INVARIANTS
    TypeOK
    NoJobLost
    OnePlace
    RunsAreExclusive
    RecordedIsOver
    StatusIsThisAttempts
    DeletedStaysDeleted
PROPERTIES
    PayloadPresent
    PreemptsOnlyWeaker
    ImplementsLifecycle
    ImplementsView
    EverySubmittedSettles

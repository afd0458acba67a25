SPECIFICATION Spec
CONSTANTS
    h1 = h1
    h2 = h2
    b = b
    u = u
    m = m
    gpu = gpu
    cpu = cpu
    NoHost = NoHost
    NoJob = NoJob
    Hosts <- MCHosts
    Jobs <- MCJobs
    Queues = {gpu, cpu}
    QueueOf <- MCQueueOf
    QueueHosts <- MCQueueHosts
    Prio <- MCPrio
    Preempt <- MCPreempt
    Pinned <- MCPinned
    Payload <- MCPayload
    HostRank <- MCRank
    MaxSubmitFailures = 2
    MaxFailedRecords = 3
    Faults = {"launch"}
    MaxFaults = 1
    Ops = {}
    MaxOps = 0
INVARIANT
    StatusIsThisAttempts

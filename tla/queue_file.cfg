SPECIFICATION Spec
CONSTANTS
    h1 = h1
    h2 = h2
    gpu = gpu
    cpu = cpu
    batch = batch
    Hosts = {h1, h2}
    NoHost = NoHost
    Queues = {gpu, cpu}
    Jobs <- MCJobs
    QueueOf <- MCQueueOf
    QueueHosts <- MCQueueHosts
    Tokens <- MCTokens
    Arrays = {batch}
    NoArray = NoArray
    ArrayOf <- MCArrayOf
    Prios = {0, 1}
    MaxQueue = 4
INVARIANTS
    TypeOK
    ScanKeepsPromise
    DeletesExactlyTheSelection
    SelectorsArePrecise

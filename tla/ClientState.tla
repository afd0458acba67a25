----------------------------- MODULE ClientState ----------------------------
(***************************************************************************)
(* One client machine and the queue host it talks to: the ledger, the log  *)
(* cache, the awsqe-client commands in progress, each a process of its     *)
(* own, and the host as HostView shows it.  JobLookup and Client give the  *)
(* steps; ClientSystem composes them.                                      *)
(***************************************************************************)
EXTENDS Ledger, SequencesExt

CONSTANTS
    Clients,        \* processes that run one command after another
    NoClient,
    Submissions,    \* the lists of jobs one submit command may be about
    MaxEnqueue,     \* MAX_ENQUEUE_BATCH
    MaxInfo,        \* MAX_JOB_INFO_BATCH
    MaxRounds,      \* _MAX_BATCH_ROUNDS
    Budgets         \* bound: how often each command and each fault happens

Kinds == {"submit", "batch", "jobs", "info", "qdel", "forget", "fetch",
          "give_up", "refuse", "write_fails", "die",
          "launch", "operate", "crash", "evict", "recycle", "old_host", "watched"}

ASSUME ClientAssumption ==
    /\ NoClient \notin Clients
    /\ Submissions \subseteq Seq(Jobs)
    /\ \A s \in Submissions : \A i, k \in DOMAIN s : s[i] = s[k] => i = k
    /\ MaxEnqueue \in Nat \ {0} /\ MaxInfo \in Nat \ {0}
    /\ MaxRounds \in Nat \ {0}
    /\ Budgets \subseteq [Kinds -> Nat]

VARIABLES
    (* the queue host and the workers *)
    view,        \* HostView: which file holds each job
    runs,        \* each job's latest launch: its number and worker
    lastFail,    \* the launch its newest failure record is about
    logs,        \* logs[<<w, j>>]: the launch whose output j's log on w holds
    (* the client machine *)
    ledger,      \* jobs.json
    lock,        \* who holds jobs.json.lock
    cache,       \* cached logs: which launch, and whether it was over
    (* the commands in progress *)
    cl,          \* control state of each process
    ans,         \* what the host has told each so far
    box,         \* the ledger as read under the lock
    late,        \* requests the host still carries out for nobody
    oldHost,     \* the queue host predates the batch methods
    (* bookkeeping that no code keeps *)
    seen,        \* where each job asked about was during the lookup
    minted,      \* ids that submit commands have made
    posted,      \* how often each was sent to the host
    told,        \* jobs reported as "Submitted"
    removed,     \* jobs a qdel of this client took off the queue
    failedOnce,  \* jobs that ever had a failure record
    excused,     \* records forgotten, evicted or not written
    appended,    \* records appended to the ledger so far
    refetched,   \* jobs whose log was fetched twice over, see StartFetch
    budget

H == INSTANCE HostView

hostVars   == <<view, runs, lastFail, logs>>
clientVars == <<ledger, lock, cache>>
procVars   == <<cl, ans, box, late>>
ghostVars  == <<minted, posted, told, removed, failedOnce, excused, appended,
               refetched>>
vars == <<hostVars, clientVars, procVars, oldHost, seen, ghostVars, budget>>

Run == [n : Nat, host : Place]
NoRun == [n |-> 0, host |-> NoWorker]

\* A cached log; n = 0: no file.
Copy == [n : Nat, whole : BOOLEAN]
NoCopy == [n |-> 0, whole |-> TRUE]

Requests == [op : {"enqueue", "qdel"}, jobs : SUBSET Jobs]

Commands == {"none", "submit", "jobs", "info", "qdel", "forget", "fetch"}

\* Where a command is.  post, call, reply: a request to be sent, on its way,
\* answered; read_*: the host's lookup; copy, copying: scp; lock, write: the ledger's
\* read-modify-write; tidy: cached logs to be deleted.
Steps == {"idle", "post", "call", "reply", "read_queue", "read_running",
          "read_completed", "read_failed", "copy", "copying", "lock", "write", "tidy"}

\* line: jobs still to be enqueued; ready: those whose payload is uploaded;
\* results: ids the host answered; asks: ids still to be looked up; sent: the
\* ids of the request on its way; snap: the record a fetch works from;
\* got: the launch whose log it copies.
Control == [cmd : Commands, pc : Steps, line : Seq(Jobs), ready : Seq(Jobs),
            results : Seq(Jobs), asks : SUBSET Jobs, sent : SUBSET Jobs,
            rounds : Nat, snap : [Jobs -> Entry], got : Nat]

Empty == [j \in Jobs |-> NoEntry(j)]
Silence == [j \in Jobs |-> Unasked]

Idle == [cmd |-> "none", pc |-> "idle", line |-> <<>>, ready |-> <<>>,
         results |-> <<>>, asks |-> {}, sent |-> {}, rounds |-> 0,
         snap |-> Empty, got |-> 0]

Sightings == {"queued", "running", "neither"}
Sighting(v) == CASE v.at = "queue" -> "queued"
                 [] v.at = "running" -> "running"
                 [] OTHER -> "neither"

HostOK ==
    /\ view \in [Jobs -> H!View]
    /\ runs \in [Jobs -> Run]
    /\ lastFail \in [Jobs -> Run]
    /\ logs \in [Workers \X Jobs -> Nat]

MachineOK ==
    /\ ledger \in [Jobs -> Entry]
    /\ lock \in Clients \cup {NoClient}
    /\ cache \in [Jobs -> Copy]

CommandsOK ==
    /\ cl \in [Clients -> Control]
    /\ ans \in [Clients -> [Jobs -> Answer]]
    /\ box \in [Clients -> [Jobs -> Entry]]
    /\ late \in SUBSET Requests
    /\ oldHost \in BOOLEAN

GhostsOK ==
    /\ seen \in [Clients -> [Jobs -> SUBSET Sightings]]
    /\ minted \in SUBSET Jobs
    /\ posted \in [Jobs -> Nat]
    /\ told \in SUBSET Jobs
    /\ removed \in SUBSET Jobs
    /\ failedOnce \in SUBSET Jobs
    /\ excused \in SUBSET Jobs
    /\ appended \in Nat
    /\ refetched \in SUBSET Jobs
    /\ budget \in [Kinds -> Nat]

TypeOK == HostOK /\ MachineOK /\ CommandsOK /\ GhostsOK

Init ==
    /\ H!Init
    /\ runs = [j \in Jobs |-> NoRun]
    /\ lastFail = [j \in Jobs |-> NoRun]
    /\ logs = [x \in Workers \X Jobs |-> 0]
    /\ ledger = Empty
    /\ lock = NoClient
    /\ cache = [j \in Jobs |-> NoCopy]
    /\ cl = [c \in Clients |-> Idle]
    /\ ans = [c \in Clients |-> Silence]
    /\ box = [c \in Clients |-> Empty]
    /\ late = {}
    /\ seen = [c \in Clients |-> [j \in Jobs |-> {}]]
    /\ minted = {}
    /\ posted = [j \in Jobs |-> 0]
    /\ told = {}
    /\ removed = {}
    /\ failedOnce = {}
    /\ excused = {}
    /\ appended = 0
    /\ refetched = {}
    /\ budget \in Budgets
    /\ oldHost = (budget["old_host"] > 0)

\* A command is run or a fault happens.
Spend(kind) ==
    /\ budget[kind] > 0
    /\ budget' = [budget EXCEPT ![kind] = @ - 1]

=============================================================================

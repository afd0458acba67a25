------------------------------ MODULE HostState -----------------------------
(***************************************************************************)
(* The state the queue host's processes share: the JSON files under        *)
(* ~/.awsqe/host, what the worker hosts hold, the monitor daemon's memory, *)
(* and the host-side commands in progress.  The modules Worker, HostOps    *)
(* and Monitor give the steps; HostSystem composes them.                   *)
(*                                                                         *)
(* One action is one read-modify-write under the state lock (StateLock     *)
(* shows that these are atomic), or one SSH round trip.                    *)
(***************************************************************************)
EXTENDS QueueOps

CONSTANTS
    NoJob,
    Prio, Preempt, Pinned,   \* what each job was submitted with
    Payload,                 \* "none", "local", "s3", or "missing" (the local
                             \* path is gone), "huge" (no scratch holds it)
    HostRank,                \* order of the host names
    MaxSubmitFailures,       \* AWSQUEUEENGINE_MAX_SUBMIT_FAILURES
    MaxFailedRecords,        \* MAX_FAILED_RECORDS
    Faults,                  \* the kinds of fault that may happen
    MaxFaults,               \* bound: how many do
    Ops,                     \* the operator commands that may be run
    MaxOps                   \* bound: how many are

ASSUME HostStateAssumption ==
    /\ NoJob \notin Jobs
    /\ Prio \in [Jobs -> Nat]
    /\ Preempt \in [Jobs -> BOOLEAN]
    /\ Pinned \in [Jobs -> SUBSET Hosts]
    /\ Payload \in [Jobs -> {"none", "local", "s3", "missing", "huge"}]
    /\ HostRank \in [Hosts -> Nat]
    /\ MaxSubmitFailures \in Nat \ {0}
    /\ MaxFailedRecords \in Nat \ {0}
    /\ MaxFaults \in Nat
    /\ MaxOps \in Nat

VARIABLES
    (* the files, as another process reads them *)
    queue,       \* queue.json
    running,     \* running.json: at most one item per host
    deferred,    \* deferred.json
    completed,   \* completed.json
    failed,      \* failed.json
    cooldown,    \* monitor_state.json: hosts whose cooldown has not expired
    (* the worker hosts *)
    procs,       \* procs[h]: jobs with a live process
    pids,        \* pids[h]: jobs with a pidfile, the newest last
    rc,          \* rc[h]: exit statuses recorded, at most one per job
    staged,      \* <<h, j>>: j's payload is complete on h
    (* the monitor's memory *)
    mpc,         \* where its loop is; "down" when it is not running
    tracked,     \* running_jobs
    wrapped,     \* hosts whose tracked record has exit_status_tracked
    benched,     \* host_disabled_until
    view,        \* this cycle's status rows
    todo,        \* free hosts the dispatch loop has not reached
    at,          \* the host a launch or a preemption is about
    how,         \* who called _launch_job_on_host
    target,      \* the job a preemption is for
    hand,        \* the item dequeued and not yet put anywhere
    held,        \* the interrupted item of a preemption
    done,        \* completed_records of this cycle
    bad,         \* failed_records of this cycle
    (* host-side commands in progress *)
    moving,      \* requeue-deferred: items popped and not yet enqueued
    rerun,       \* requeue-running: the host, its item, the next step
    (* bookkeeping that no code keeps *)
    submitted,   \* jobs accepted so far
    withdrawn,   \* jobs an operator deleted
    dropped,     \* jobs that were only in the memory of a process that died
    evicted,     \* jobs whose failure record the cap has dropped
    current,     \* <<h, j>>: h's status of j was left by j's last attempt
    faults,      \* faults so far
    ops          \* operator commands so far

files   == <<queue, running, deferred, completed, failed, cooldown>>
workers == <<procs, pids, rc, staged>>
memory  == <<mpc, tracked, wrapped, benched, view, todo, at, how, target,
             hand, held, done, bad>>
commands == <<moving, rerun>>
ghosts  == <<submitted, withdrawn, dropped, evicted, current>>
bounds  == <<faults, ops>>
vars == <<files, workers, memory, commands, ghosts, bounds>>

\* A list of at most one element stands for a value that may be absent.
Opt(S) == {s \in Seq(S) : Len(s) <= 1}

ExitStatus == [job : Jobs, ok : BOOLEAN]

\* A history record.  fresh: the status it rests on was left by the job's
\* latest attempt (or it rests on none).
Record == [job : Jobs, fresh : BOOLEAN,
           status : {"completed", "unknown", "failed", "start_failed"}]

Rerun == [host : Hosts, item : Item, step : {"requeue", "kill"}]

Places == {"down", "top", "prune", "save", "file_completed", "file_failed",
           "dispatch", "stage", "launch", "verify", "track", "outcome",
           "host_failed", "bench_load", "bench_save", "job_failed", "defer",
           "choose", "claim", "kill", "kill_failed", "untrack", "resume"}

FilesOK ==
    /\ queue \in Seq(Item)
    /\ running \in [Hosts -> Opt(Item)]
    /\ deferred \in Seq(Item)
    /\ completed \in Seq(Record)
    /\ failed \in Seq(Record) /\ Len(failed) <= MaxFailedRecords
    /\ cooldown \in SUBSET Hosts

WorkersOK ==
    /\ procs \in [Hosts -> SUBSET Jobs]
    /\ pids \in [Hosts -> Seq(Jobs)]
    /\ rc \in [Hosts -> SUBSET ExitStatus]
    /\ staged \in SUBSET (Hosts \X Jobs)

MemoryOK ==
    /\ mpc \in Places
    /\ tracked \in [Hosts -> Opt(Item)]
    /\ wrapped \in SUBSET Hosts
    /\ benched \in SUBSET Hosts
    /\ view \in [Hosts -> {"idle", "busy", "down"}]
    /\ todo \in SUBSET Hosts
    /\ at \in Hosts \cup {NoHost}
    /\ how \in {"dispatch", "preempt"}
    /\ target \in Jobs \cup {NoJob}
    /\ hand \in Opt(Item)
    /\ held \in Opt(Item)
    /\ done \in Seq(Record)
    /\ bad \in Seq(Record)

CommandsOK ==
    /\ moving \in Seq(Item)
    /\ rerun \in Opt(Rerun)

GhostsOK ==
    /\ submitted \in SUBSET Jobs
    /\ withdrawn \in SUBSET Jobs
    /\ dropped \in SUBSET Jobs
    /\ evicted \in SUBSET Jobs
    /\ current \in SUBSET (Hosts \X Jobs)
    /\ faults \in 0..MaxFaults
    /\ ops \in 0..MaxOps

TypeOK == FilesOK /\ WorkersOK /\ MemoryOK /\ CommandsOK /\ GhostsOK

\* What monitor memory holds while no monitor runs.
MemoryLost ==
    /\ tracked' = [h \in Hosts |-> <<>>]
    /\ wrapped' = {}
    /\ benched' = {}
    /\ view' = [h \in Hosts |-> "down"]
    /\ todo' = {}
    /\ at' = NoHost
    /\ how' = "dispatch"
    /\ target' = NoJob
    /\ hand' = <<>>
    /\ held' = <<>>
    /\ done' = <<>>
    /\ bad' = <<>>

Init ==
    /\ queue = <<>>
    /\ running = [h \in Hosts |-> <<>>]
    /\ deferred = <<>>
    /\ completed = <<>>
    /\ failed = <<>>
    /\ cooldown = {}
    /\ procs = [h \in Hosts |-> {}]
    /\ pids = [h \in Hosts |-> <<>>]
    /\ rc = [h \in Hosts |-> {}]
    /\ staged = {}
    /\ mpc = "down"
    /\ tracked = [h \in Hosts |-> <<>>]
    /\ wrapped = {}
    /\ benched = {}
    /\ view = [h \in Hosts |-> "down"]
    /\ todo = {}
    /\ at = NoHost
    /\ how = "dispatch"
    /\ target = NoJob
    /\ hand = <<>>
    /\ held = <<>>
    /\ done = <<>>
    /\ bad = <<>>
    /\ moving = <<>>
    /\ rerun = <<>>
    /\ submitted = {}
    /\ withdrawn = {}
    /\ dropped = {}
    /\ evicted = {}
    /\ current = {}
    /\ faults = 0
    /\ ops = 0

\* A fault of one of the given kinds is spent.
Fault(kinds) ==
    /\ kinds \cap Faults # {}
    /\ faults < MaxFaults
    /\ faults' = faults + 1

\* An operator command of this kind is spent.
Command(kind) ==
    /\ kind \in Ops
    /\ ops < MaxOps
    /\ ops' = ops + 1

\* requeue-deferred holds the state lock from its pop to its last enqueue;
\* every other locked step waits.
LockFree == moving = <<>>

\* Where jobs are.
OnHosts(r) == UNION {JobsIn(r[h]) : h \in Hosts}

\* The jobs a history says are over; a failed start is not an end.
EndedIn(s) ==
    {s[i].job : i \in {k \in DOMAIN s : s[k].status # "start_failed"}}

OnDisk == JobsIn(queue) \cup OnHosts(running) \cup JobsIn(deferred)
            \cup EndedIn(completed) \cup EndedIn(failed)

\* The item in hand is already in deferred.json while its failed start is
\* being recorded.
InHand == IF mpc = "defer" THEN <<>> ELSE hand

InMemory == JobsIn(InHand) \cup JobsIn(held) \cup JobsIn(done) \cup JobsIn(bad)

=============================================================================

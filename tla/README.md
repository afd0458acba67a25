# AWSQueueEngine in TLA+

AWSQueueEngine runs jobs from one queue on a small set of GPU hosts. A *queue
host* keeps the queue in JSON files and runs the monitor daemon, *workers* run
one job at a time over SSH, and *clients* submit jobs and follow them through
one RPC process per call. This directory holds a specification of the three:
the queue host with its workers, the client machine with its ledger, and the
life of the host's own processes; the TLC configurations that check the modules, and
TLAPS proofs of what matters most. Paths below are relative to
`src/src/awsqueueengine/` of the repository.

## The system

| Part | State it keeps | Operations | Talks to |
|---|---|---|---|
| State lock and atomic writes (`shared/state_lock.py`, `shared/state_io.py`) | a thread lock, a depth counter, a `flock` | `state_lock()`, `write_json_atomic` | everything that writes a file |
| Queue (`shared/queue.py`) | `queue.json`, an ordered list | enqueue one or many, requeue at either end, dequeue for a host, claim by id, delete by id / index / queue / batch | monitor, RPC, CLI |
| Other files (`shared/*_state.py`) | `running.json` (host to job), `deferred.json`, `completed.json`, `failed.json` (capped), `monitor_state.json` (cooldowns, summary date, migration stamp) | load, save, append, pop | monitor, RPC, CLI |
| Monitor (`host/monitor.py`) | running map, cooldowns, this cycle's status rows, alert latches | poll, prune, record, dispatch, retry, defer, bench, preempt | workers by SSH, the files, email |
| Launch (`host/job_control.py`) | none | stage the payload, launch, verify | workers |
| Worker (scripts sent by `host/job_control.py`, `shared/host_status.py`, `shared/worker_actions.py`, `shared/job_outcome.py`) | processes, pidfiles, exit-status files, payloads | run, end, be probed, be killed | monitor |
| RPC and host CLI (`host/rpc.py`, `host/cli.py`) | none | submit, qdel, clear, requeue-deferred, requeue-running, enable-host, start and stop the monitor, queries | the files, workers for requeue-running |
| Configuration (`shared/queue_config.py`) | queues to hosts, reloaded when the file changes | refresh, eligibility | monitor, RPC |
| Job lookup (`shared/job_lookup.py`) | none | where is a job | reads four files |
| Client (`client/*.py`) | ledger, log cache, configuration | submit, batch submit, jobs, info, qdel, forget, fetch | the queue host by RPC, workers by scp |
| Monitor processes (`host/cli.py`, `monitor_loop`) | `monitor.lock`, the pidfile | start, stop, clean up | each other, SIGTERM |
| Mails (`host/monitor.py`, `host/notifications.py`) | daily counters, latches, cooldown, date of the last summary | alert, daily summary | SMTP |
| Migration (`host/migration.py`) | legacy files, their successors, the stamp | copy, rename, stamp | every start, the migrate command |
| Daemon installation (`host/daemon.py`) | systemd unit | install, start, stop | systemd |

What is hard about it:

* **Concurrency without a server.** Every RPC is a process of its own that
  rewrites whole files while the monitor does. All of them must load, modify
  and save under one lock, and the lock nests, is shared by threads and is
  taken by processes that may die.
* **Moves between files.** A job goes from queue to memory to `running.json`
  to a history by separate writes. A crash may fall between any two.
* **SSH that lies.** Every call may fail, time out after having worked, or
  answer only half of the questions; pidfiles and exit-status files of earlier
  attempts lie around because a requeued job keeps its id.
* **Stale decisions.** Free hosts, preemption targets and cooldowns are read
  early in a cycle and acted on after emails and SSH calls.
* **Retrying.** A failed start is the job's fault or the host's, and only one
  of the two counts towards giving up.
* **Reading a moving target.** A lookup reads four files one after the other,
  a log is copied while it is being written, a configuration is read after its
  stamp: nothing is locked and what is read is acted on later.
* **Answers that come late or never.** A request the client gave up on may
  still be carried out, and an answer may reach the ledger after a newer one.
* **Start and upgrade.** Pidfile, lock file, copy, rename and stamp are single
  steps, any two of them with another starter or a kill between them.

What makes each part correct: the lock excludes and loses no acknowledged
update; the queue hands out what it promises and deletes only what was
selected; the monitor neither loses nor duplicates a job, runs one job per
host, records only what is over and with its own exit status, respects
cooldowns, preempts only weaker work and settles every job; operators' deletions
and releases last; a client is told what was true, keeps what it was told and
sends no job twice; one monitor runs at a time, finds the legacy records, rations its mails,
sends no summary twice and follows its configuration. `PROJECT.json` lists the places where each of these is at
risk ("hazards") with the property that would catch it.

## The modules

```
AtomicStore     JobLifecycle   HostView             what is promised
    |                  |       |     |
StateLock             HostSystem   ClientSystem     implements / relies on it
                       /      \         |
                  Monitor    HostOps  Client         HostProcess
                       \      /         |                 |
                        Worker       JobLookup       MonitorAlerts
                          |             |                 |
                      HostState     ClientState       Migration
                          |             |                 |
       QueueFile --- QueueOps        Ledger          ProcessState
```

The three stacks meet in `HostView`: `HostSystem` implements it (so what it says
of the files is what the monitor and the commands do), and `ClientSystem` has it for a
queue host. `HostProcess` is what `HostSystem` takes as given: one monitor, with a
configuration and with the records of earlier versions.

| Module | Models | State and actions |
|---|---|---|
| `AtomicStore` | what callers expect of the lock | a set of updates; `Apply` adds one |
| `StateLock` | `state_lock.py`, `state_io.py` and one state file | `flock`, `owner` (`_local_lock`), `depth` (`_depth`), `handle` (`_handle`), `copy` (what a thread loaded), `tmp`, `file`; the actions are the steps of `with state_lock()` and of a save |
| `QueueOps` | the pure operations on the queue list | operators only |
| `QueueFile` | `queue.json` with the loops of `queue.py` as coded (scan, pop from the back, id resolution) | `queue`; one action per function |
| `HostState` | files, worker state, monitor memory, commands in progress | variables, `TypeOK`, `Init` |
| `Worker` | launch script, exit trap, probes, kill script | `JobEnds`, `Reboot`; `ScriptRuns`, `Killed`, `Busy` for the others |
| `HostOps` | RPC handlers and host CLI | `Submit`, `Qdel`, `Clear`, `EnableHost`, `PopDeferred`/`EnqueueMoving`/`DropDeferred`, `ReadRunning`/`RequeueRead`/`KillRequeued`, `CommandDies`, `CooldownExpires` |
| `Monitor` | `monitor_loop`, `_launch_job_on_host`, `submit_to_host` | `mpc` is the place in the loop; a step ends where another process can interleave |
| `HostSystem` | all of the above interleaved | `Next`, fairness, the properties |
| `JobLifecycle` | what a user is promised of a job's life | `status[j]` |
| `HostView` | the files as a reader sees them: which one holds each job, what the histories say | `view[j]`; one operator per move |
| `Ledger` | the pure mutations of `jobs.json`, pruning, the log cache's key and decisions | operators only |
| `ClientState` | client machine, commands in progress, the host as a view | variables, `TypeOK`, `Init` |
| `JobLookup` | `lookup_job_states` behind `job_info` and `job_info_batch` | `ReadQueue`, `ReadRunning`, `ReadCompleted`, `ReadFailed` |
| `Client` | the commands of `client/cli.py` with their RPCs, copies and the ledger's `_mutating` | `cl[c].pc` is the place in a command, `box` the ledger read under the lock, `late` the requests nobody waits for |
| `ClientSystem` | client and host interleaved | `Next`, fairness, the properties |
| `ProcessState` | processes of `awsqe-host`, what they share besides jobs | variables, `TypeOK`, `Init` |
| `Migration` | `host/migration.py`, raced by locked updates of the new files | `Examine`, `CopyStarts`, `CopyEnds`, `Rename`, `StampLoads`, `StampSaves`, `UpdateLoads`/`UpdateSaves` |
| `MonitorAlerts` | mails of a cycle | `FailsMail`, `LowMail`, `EmptyMail`, `SummaryMail`, `LoadDay`, `DayLoads`/`DaySaves`, `CoolingEnds` |
| `HostProcess` | start with pidfile and `monitor.lock`, the configuration's refresh, stop, failure, kill | `Next`, fairness, the properties |
| `MC*` | the instances TLC checks | constants only |
| `*_proofs` | the theorems | |

One action of the host modules is one read-modify-write under the state lock,
one lock-free read, or one SSH round trip. `StateLock` justifies the first: a
locked save is one atomic update (`AtomicUpdates`). `requeue-deferred` is the
one caller that holds the lock over several saves; `moving` holds what it has
popped and `LockFree` makes every other locked step wait.

`QueueOps!BestIndex` and `QueueOps!Keeping` say in one formula what the loops
of `queue.py` compute; `QueueFile` checks the loops against them, and the host
modules use the formulas. `ResumeItem`, `Positions` and `Eligible` are shared.

Abstractions. A queued item keeps the fields that decide something (id,
priority, preempt, hosts, resume host, failure count, payload path known);
`mps`, the command and sizes are dropped. Cooldowns are sets of hosts: an entry
is in the set until `CooldownExpires`, which also removes it from the copy being
written, because saving filters on the clock. Pidfiles are the list of jobs that have
one, newest last, as `ls -t` lists them. A payload is staged on a host or it is not. Histories
are lists of job, verdict, and whether the verdict rests on a status of the
latest attempt (`fresh`, from the bookkeeping variable `current`).

In the client's modules a message is a set of jobs and an operation; the order in which
ids are cut into requests is the code's for submits and any for lookups. Host
times are stamps: attempt `n` starts at `2n - 1` and ends at `2n`, as distinct attempts have
distinct timestamps. An id is never made twice; `Accepted` ignores a second
enqueue of an id, which `NeverSubmittedTwice` shows not to happen. There is one
queue host: the code repeats a command per host. A fetch of many logs is a
sequence of fetches of one. A deleted remote log is copied to its end. The
ledger's `flock` is taken to be available.

In `HostProcess` pids are given in order and not reused, one stop command is in
progress at a time, and `UpdateLoads`/`UpdateSaves` stand for any locked writer
of a state file. A mail that is skipped because none is configured counts as sent, as
it does in the code.

Bookkeeping variables (`submitted`, `withdrawn`, `dropped`, `evicted`,
`current`, `faults`, `ops`; in the client `seen`, `minted`, `posted`, `told`,
`removed`, `failedOnce`, `excused`, `refetched`, `budget`; in `HostProcess`
`had`, `spoiled`, `got`, `summaries`, `budget`) are read by no guard of the program's steps except
to bound faults, commands and repeated submissions. `dropped` is filled by a
dying process only, and only with jobs that were nowhere but in its memory: the
code does lose those, and `NoJobLost` says that it loses no others.

## What is checked

Each run answers one question. `PROJECT.json` names the properties of each and
a plausible bug (a "Fault:" definition in the modules) that breaks each.

| Run | Instance | What it shows |
|---|---|---|
| `state_lock` | two processes, one with two threads, which may also fail to open the lock file; nesting to 2; 3 entries and saves per thread | exclusion, no lost update, fresh copies, atomic updates, waiters get in |
| `queue_file` | ids 1, 12, 13 (digits as characters) and the token 2; two queues sharing a host; up to 4 entries, duplicates included | the scan, the deletion and id resolution, for every queue the operations can build |
| `host_main` | 2 hosts, 3 jobs: one with an S3 payload, one urgent, preempting and able to run on one host only, one preempting without the priority for it and naming a payload that is gone; 1 fault, 1 command | the safety of the whole host, the abstract life of jobs and the readers' view of it (`ImplementsLifecycle`, `ImplementsView`), and that every job settles |
| `host_faults` | 2 hosts, 3 jobs: S3 payload, local payload and preempting, payload too large for any host; 1 of 12 kinds of fault, 1 command | nothing lost, disk follows memory, cooldowns, in the face of every failure of staging, launching, probing and killing |
| `client` | 2 client processes, 2 jobs, 1 worker, a ledger for 1 record, 1 job per enqueue request, 2 ids per lookup, 2 rounds; nine scenarios | answers and records are true, nothing is lost or sent twice, a cached log is whole, finished jobs come to be shown |
| `host_process` | 3 processes, 2 state files, 2 mails a day, a queue healthy from 2; seven scenarios | one loop, an upgrade that keeps records, rationed mails, one summary a day, a configuration taken up |

Six further runs each show where the program does otherwise than its own
documents or comments say; see Findings.

### Properties of the host

* `NoJobLost`: an accepted job that was not deleted is in a file, in the memory
  of the process moving it, or accounted for as dropped by a crash or evicted by
  the cap of `failed.json`.
* `OnePlace`: it is in one of those places only. While the monitor runs, its
  running map counts, not the file.
* `RunsAreExclusive`, `RecordedIsOver`, `StatusIsThisAttempts`,
  `DeletedStaysDeleted`, `DiskFollowsMemory` relate files, memory and workers.
* `PayloadPresent`, `BenchedHostsGetNothing`, `MonitorKeepsCooldowns`,
  `PreemptsOnlyWeaker` say what a step may never do.
* `ImplementsLifecycle`: with `status[j]` computed by `StatusOf`, the host's
  behaviours are behaviours of `JobLifecycle`. In particular no restart, retry
  or preemption brings a finished, deleted or lost job back.
* `ImplementsView`: the files change as `HostView` allows. `TypeOK` and `NoJobLost` see
  only how many records `failed.json` keeps; here it is the oldest that falls out.
* `EverySubmittedSettles`: every accepted job ends up recorded, deferred,
  deleted, evicted or lost in a crash.

### Properties of the client

* `AnswersWereTrue`: the lookup's files are read without the lock, yet where it
  says a job is the job was at some moment of the lookup, and a job said to be over
  has a record. It holds because the code reads the files in the order jobs move
  through them and no job goes back while it has an end; a job that is in the
  monitor's hand during all four reads is rightly answered as having no record, and is shown as
  `missing` until the next refresh.
* `LedgerIsTrue`: settled statuses are facts, also when two refreshes overlap and
  the older answer is written last. Statuses that are not settled may go back
  in time, and one settled status may replace another or give way to an older answer: only the facts are promised.
* `SubmittedIsTracked`, `LiveNeverEvicted`: concurrent commands rewrite the whole file,
  a full one makes room; a reported job stays, and what goes is the record of a job that is over. The
  exception: a job that failed to start is recorded as failed when it is deferred, and if
  the operator requeues it, the record can go while the job is queued or running
  (`failedOnce`).
* `NeverSubmittedTwice`, `OwnPayload`: rounds, refusals, lost answers and the
  one-by-one fallback of a batch.
* `CompletedLogIsWhole`: the cached log of a completed job is the output of the launch
  that completed. It is excused (`refetched`) for two fetches at once, and for a fetch
  made again while the record already vouched for the copy of the final output, because
  that copy was deleted or a late answer took the record back: there the record can vouch
  for a copy that is still being made or was cut short.
* `FinishedIsShown`: somebody who goes on running `jobs` comes to see the end.

### Properties of the host's processes

* `LoopIsAlone`: one loop at a time, and the pidfile names it or nobody. The
  pidfile alone does not give this (two starters can both find it stale, and one
  of them removes the other's); `monitor.lock` does.
* `UpgradeKeepsRecords`: see Proofs; its excuses are the limits of a migration
  that takes no lock: killed in the middle of a copy, two migrators at once, a command
  that writes the new file from what it held before.
* `AlertsAreRationed`: upper bounds for the mails of one run of a monitor, over midnights,
  failed mails and suppressed ones. Count, latches and cooldown are in memory
  only, so nothing is promised across a restart; and midnight ends the cooldown of
  job-failure mails, which the account (`nights`) allows for. No lower bound is
  promised: at the daily limit an alert counts as sent and its latch is set.
* `OneSummaryADay`: the one thing a restarted monitor does look up is the date of the last
  summary. All monitors of a day send one, and one more at most for each time that
  date was lost (`summaries.undated`): a monitor ended between the mail and
  saving the date, or somebody wrote an older copy of `monitor_state.json` back.
* `ConfigCatchesUp`: stamp and contents are read one after the other; a good file
  left alone is in use at last.

### Faults, and which run has which

`host_main` includes: the monitor's crash, a worker's reboot, an unreachable
host, a kill that fails or times out after working, an outcome that cannot be
fetched, no scratch, and a command that dies. It excludes, because the program does
not keep the property, or not without qualification, in their presence:

* `download`, `mkdir`: break `PayloadPresent` (finding `payload_path`);
* `misread`: breaks `RecordedIsOver` and exclusive runs (finding `misread_idle`);
* `launch`, `probe`, `psprobe`: when the launch or the probes after it fail, a
  live process can be mistaken for a failed start and its job requeued, so a job may run
  twice; the code chooses this over losing it, and says so in `_verify_launched`.
  A launch that fails can also leave an earlier attempt's files to be read
  (finding `stale_status`);
* `requeue_running`: acts on an unlocked read of `running.json`, so a job
  recorded meanwhile can be queued again.

All of these are in `host_faults`, which checks what still holds under them.

`client`: requests refused, lost, answered to nobody or carried out after the caller
gave up or was killed; writes of the ledger that fail; a worker that loses its logs;
the host's crash, eviction from `failed.json`, operators elsewhere; an old host
without the batch methods. `host_process`: a kill anywhere, an exception in the
loop, failing mails, a configuration damaged or removed.

### Bounds

Faults and commands are bounded by `MaxFaults` and `MaxOps` (one each per
behaviour, at any step), jobs are submitted once, a job may fail to start twice
before it is deferred (`MaxSubmitFailures` = 2), `failed.json` keeps three
records. Two hosts are the least with a choice of victim and with a payload on
the wrong host; three jobs let one hold each host while a third preempts or waits;
two failures separate a retry from a deferral. A crash between any two steps,
with a restart after it, is one fault. Crossing two faults is left to the
proofs, which have no bounds. `queue_file`
needs four entries for two deletions on either side of survivors. The lock's
instance has all its moving parts twice: processes, threads, levels, saves.
Symmetry is not used: hosts are ordered by name and jobs differ. Deadlock is
checked except in `state_lock`, `client` and `host_process`, where threads that
have done their work, users who have no more commands and monitors that have
ended stop, as what they model does.

`client` and `host_process` bound each kind of command, move and fault by a
`budget`, and a run starts from any of several (`MCBudgets`): each is a scenario
around one hazard. Two clients and two jobs are the least
with an append racing a refresh and with an eviction; a ledger for one record makes every second one
crowd; one job per enqueue request with two rounds makes a batch of two take every
round there is; two launches let a log be retried under a fetch. Three processes are a running monitor and two starters; the
pair of state files are one ordinary file and `monitor_state.json`, which is last,
holds the stamp and is written outside the lock too; two mails a day let the
limit be reached by a third.

### Fairness

* `StateLock`: weak fairness of each thread's steps once it wants the lock.
  "Nothing slow may run inside the lock" (`state_lock.py`, 44-48): holders do
  local file I/O and leave. No fairness on asking for the lock or on dying.
* `HostSystem`: weak fairness of the monitor's own steps, `Start` included: the
  loop has no unbounded wait (SSH calls have timeouts) and the daemon is restarted after a
  crash (`Restart=on-failure`) or by the operator who stopped it. An exception
  that ends the loop with exit status 0 is not restarted by systemd and is
  outside this assumption.
* Commands in progress finish unless they die; each cooldown expires; each
  host's running job ends sooner or later. The last is an assumption about
  users' jobs, without which nothing queued behind one need ever run.

* `ClientSystem`: weak fairness of each command in progress (RPCs and copies have
  timeouts, the ledger's lock is held over local I/O), and of `Watches`: a user
  who goes on running `jobs`. Nothing is assumed of the queue host: its histories are
  what `FinishedIsShown` starts from.
* `HostProcess`: weak fairness of each process that was started; the loop sleeps
  between cycles but returns.

No fairness is assumed of faults, submissions or operators.

## Findings

1. `payload_path` (`host/job_control.py:240`): a failed S3 download reports the
   payload's path; the monitor stores it on the requeued item
   (`monitor.py:536-537`) and the next attempt, on any host, takes the payload
   for staged and starts without it. `docs/submitting.rst:38-40` promises the
   download before the command.
2. `retried_forever` (`host/monitor.py:540`): failures blamed on the host reset
   `submit_failures`, so a job no host can stage is retried for ever, benching
   each host in turn. `docs/failures.rst:106-107` says it is deferred.
3. `restart_unknown` (`shared/running_state.py:23`): saving `running.json`
   drops `exit_status_tracked`; after any restart a job that died without a
   status is `unknown` in `completed.json`. `docs/failures.rst:60-66` limits
   that to jobs in flight across an upgrade.
4. `release_clobbered` (`host/monitor.py:454`): cooldowns are read outside the
   lock and written back inside it, against the comment on line 453.
5. `misread_idle` (`host/monitor.py:710`): a probe whose later SSH calls fail
   answers idle, and a live job is recorded as over, against the comment on
   line 709.
6. `stale_status` (`host/job_control.py:266`): both `rm -f` of an earlier
   attempt's files run on the worker, inside the launch. When the launch never
   gets there, the verification reads the earlier attempt's pidfile and the
   monitor files its exit status as this one's, against the comments on
   lines 68-69 and 109-110. The run: a victim ends just before it is killed for
   a preemption, is requeued, and its relaunch on the same worker is lost.

Further limits that modelling brought up, and that no property promises away
(each is in `PROJECT.json` as a hazard or an excuse named above):

* a batch whose later round fails prints that nothing was enqueued, although earlier
  rounds were (`client/cli.py:765`), and what is left after the last round
  is dropped;
* a deferred job reads as `failed`, and the ledger counts that as settled, although the job
  may be requeued and run: `jobs` does not ask about it again, and a full ledger may
  evict its record meanwhile, although `docs/tracking-jobs.rst:202-203` says that jobs in
  flight are never evicted;
* the count of today's mails, the latches and the cooldown begin anew with each monitor
  (`host/monitor.py:392-399`), so a day with restarts can see more mails than the limit, although
  `docs/alerts.rst:34` has it as a "Cap on total outgoing emails per day"; midnight also
  ends the cooldown (`monitor.py:409`), so two job-failure mails can be less than 900
  seconds apart;
* a monitor killed after the daily summary's mail and before `_save_last_daily_summary_date`
  (`monitor.py:927`) is followed by one that sends it again, although
  `docs/alerts.rst:46` says once per calendar day. A failing write of
  `monitor_state.json`, which `_save_monitor_state` passes over, would have the same effect and is not
  modelled;
* an answer is merged whatever the record says by then (`client/ledger.py:305`): when `jobs` has
  looked a job up as queued and a `qdel` on the same machine removes it and writes
  `deleted`, the first command then writes `queued` over it. `shared/job_status.py:32` calls
  settled statuses "Statuses that can never change again". `LedgerIsTrue`
  holds all the same, and the next refresh finds no record and shows the job as `missing`;
* with an old host an error is taken for "no record" and the job shown as `missing`;
  an answer without any record is taken for a bad read, so a lone job that vanished keeps its
  last status;
* a starter, or a stop command, may remove the running monitor's pidfile: the monitor is still alone
  but `stop-monitor` no longer finds it;
* a first start after an upgrade that was killed during a copy leaves a torn
  file that later starts skip; a submit before that start makes it skip the
  legacy queue. The records stay in the legacy file or its backup.

## What is proved

The theorems hold for every set of hosts, jobs, queues, processes, clients and
threads, and any number of faults and commands. They assume
`StateLockAssumption`, `QueueOpsAssumption`, `QueueFileAssumption`, `HostStateAssumption`,
`ProcessAssumption`, `LedgerAssumption`, `ClientAssumption` and
`WatcherAssumption` (types of the constants, and that the ids one submission
mints are distinct), which the runs evaluate. Most hold for every kind of fault
and command. Those of `OnePlace_proofs`, `WorkerRuns_proofs` and
`Lifecycle_proofs` are about promises the program keeps only without some, and
have them as a hypothesis on the constants `Ops` and `Faults`, the last one on
`Hosts` and `MaxFailedRecords`:

| Hypothesis | Excludes | Because |
|---|---|---|
| `NothingRequeuedByHand` | the command `requeue_running` | it queues a job that is still running, before it kills it |
| `LaunchesRun` | `launch` | finding `stale_status`: it is the launch script that removes the old status |
| `ProbesTell` | `misread`, `probe`, `psprobe` | finding `misread_idle`, and `_verify_launched`: a probe that says nothing, or the wrong thing, is read as no process |
| `StagingTells` | `launch`, `probe`, `download`, `mkdir` | finding `payload_path` |
| `HistoryHoldsACycle` | more hosts than `MaxFailedRecords` | a cycle files one failure for each host at most, and the code keeps 1000; with fewer, a failure would be trimmed by the write that files it |

The constants of `host_main` satisfy all five: crashes, reboots, unreachable
hosts, kills that fail or report failure after working, lost outcomes, no
scratch, and commands that die are all allowed.

`StateLock_proofs`: `TypeCorrect`, `Exclusion`, `NothingLost`, `Fresh`,
`UpdatesAreAtomic`, `LockImplementsStore`. Exclusion alone is not inductive: it
needs to know that a thread at work owns its process's RLock (`OwnerInv`), that
the process with an open handle is the one that holds the flock (`FlockInv`),
that inside the lock the depth is positive and the handle open unless the lock
file could not be opened (`DepthInv`), and that a thread about to replace has
in its scratch file what it loaded plus its own update (`WriteInv`). `LockInv`
is their conjunction with `TypeOK`. `DataInv` rests on it: while everybody
could lock, what a thread loaded is still the file, so its save contains every
acknowledged update. `LockImplementsStore` adds `Degraded = {}`, so that
`intact` stays true, and maps each step to an `Apply` or a stutter of
`AtomicStore`.

`QueueFile_proofs`: `TypeIsInvariant`, `ScanFindsThePromised`,
`DeletionsAreExact`, `FullIdsResolve`, `NothingIsPicked`
(together `SelectorsResolve`), for queues of any length.
The loops are recursive functions over the positions passed. The library's
induction theorems take an operator as a parameter, which the provers here cannot
instantiate, so the inductions are over sets: the positions at which
a claim fails have a least one, as `<` on the naturals is well founded (`LeastOf`, `Induct`,
`InductTo`), and `Recursion` gives from that the function a loop's equation
describes. `Found` is the scan's invariant: what it holds so far is
the first of the best among the entries passed. `Left` is the deletion's: what is left
is the old queue read along an increasing numbering of the positions not
popped yet, so that popping from the back disturbs no position still to be popped.
`BestIndex` and `Keeping` say what should come out; that they name one result is
the uniqueness of an increasing numbering (`KeepingIs`, `OnlyIdentity`). The host's
theorems use these formulas, so they rest on the loops through this module.

`HostSystem_proofs`: `TypeCorrect`, `CooldownsKept`, `BenchedHostsIdle`,
`RestartRecovers`, `NothingIsLost`. `TypeInv` joins `TypeOK` with `StagesOK`: at each place of
the loop the item in hand, the held item, the host and the victim's record are
there that its steps use. `CooldownInv` says that the monitor's copy of the
cooldowns always covers the file, and that a dispatch in progress is not to a
benched host. `DiskInv` adds to `DiskFollowsMemory` where in a cycle records
are waiting to be filed, which is what makes the exception in
`DiskFollowsMemory` end with `SavePruned`.

For `NothingIsLost`: `NoJobLost` is not inductive, as a step that
overwrites a variable could drop a job that was only there. `HandsInv` says
that the hand is empty outside a launch, nothing is held but on the way to the
queue, and the host of a launch tracks no other job (so `Track` overwrites
nothing), which for a dispatch follows from the free list being idle and
pruned. `RecordsInv` says that collected records are of ends, not of failed
starts, and that a job pruned from memory but not yet from `running.json` is
among them. On these, each action moves a job between the sets that
`NoJobLost` unites.

`HostProcess_proofs`: `TypeCorrect`, `OneLoop`, `UpgradeKeeps`,
`AlertsRationed`, `OneSummary`, for any number of processes, state files, commands and kills.

* `OneLoop`: `LockInv` says that every process between taking and releasing
  `monitor.lock` is its holder, so that one at most is in its loop. `PidInv`
  says what the pidfile holds at each of the holder's steps: nobody's pid but
  its own once written, and none while it is being written. Other processes can
  only remove it.
* `UpgradeKeeps`: `Keep` is a conjunction of what each party knows of the
  unspoiled files (`Good`). `Somewhere`: legacy records are in the file or its
  backup. `Single`: two migrators at once leave no file unspoiled, so elsewhere
  the one migrator is alone. `Whole`: a new file has the records, is absent, or
  is torn with a copier at work, and has them once the legacy file is gone.
  `Working`: a migrator knows how far its own pair is and that the earlier ones
  are done. `Over`: once somebody is past the migration, or a stamp is found in
  a file or in anybody's memory, all files are done. `Memos`: what is about to
  be saved has the records, or spoils the file. The parts need each other: a
  stamp saved too early would let later starts skip what is not there. TLC
  checked `Keep` before it was proved.
* `AlertsRationed`: `RationInv` relates the mails a monitor has sent, which the
  code does not keep, to what it remembers. `Daily`: no more were sent today
  than it counts, and none since midnight if it has not seen the day; beyond one
  for each midnight in the cooldown, a job-failure mail was sent only if the monitor
  is still cooling. `Latched`: a mail that the queue is low
  or empty has its latch set, a summary its date. Before its first cycle a
  process has sent nothing.
* `OneSummary`: `SummaryInv` looks at all monitors. While neither the file nor a monitor about
  to save it says that today's summary went out (`Unmarked`), or a running monitor
  still means to send it (`Due`), no more were sent than dates were lost, so that one more
  keeps the bound. It needs that one monitor is alone in its loop (from `OneLoop`),
  and each overwriting of `monitor_state.json` either keeps the date or counts as a loss.

`ClientSystem_proofs`: `TypeCorrect`, `LedgerStaysTrue`, `AnswersStayTrue`,
`SubmittedStaysTracked`, `OnlySettledGo`, `PayloadsAgree`, `SentAtMostOnce`,
`CachedLogIsWhole`, for any number of client processes, jobs, workers and requests, and any caps.

* `Typed` joins `TypeOK` with what the host's files say of a job: a record of
  completion only of a job that is nowhere else, a launch behind whatever is
  launched, a failure behind every failure record (`HostInv`); and that a fetch
  is about one job (`FetchOK`).
* `LockInv`: a process about to write holds `jobs.json.lock`, and has the ledger
  in hand as it is. `SubmittedStaysTracked` needs besides that
  every accepted id is appended (`ChangePayload`).
* `LedgerStaysTrue`: `TruthInv` adds what is on its way to the ledger: each
  answer in a process's memory is backed (`Carried`), and a qdel past its call
  holds ids that are removed. That a job completed, ever failed or was removed
  stays so (`Onward`), and late answers stay true with it.
* `OnlySettledGo`: only `Pruned` and `forget` drop records, and `Pruned` only such as are
  settled in the ledger in hand, as the command just changed it (`LockInv`). By
  `TruthInv` what settled them is a fact (`ChangeTrue`), and a job that completed, was
  removed or is nowhere is not in flight and does not come back (`Gone`); what is left is a job
  that failed.
* `AnswersStayTrue`: `SightOK` says what a lookup has seen of a job at each of its
  four reads. The case that matters is between the second and the third file:
  not in the queue and not found running means that the job was neither at some
  moment, because a job leaves `running.json` only into a process's hand
  (`Flows`).
* `PayloadsAgree` and `SentAtMostOnce`: `Aligned` says that ids answered and jobs
  still to be sent make up the list of uploaded payloads, position by position
  and without repetition. `SentOnce` says that the jobs not yet sent by the
  submissions in progress (`Waiting`) are minted, unsent and in one list only.
* `CachedLogIsWhole`: the record vouches for a copy by the cache key it was fetched
  for, and keys carry a time of a launch. `PastInv` is about the host: nothing is
  known of a launch that has not happened, and a completed job's last launch did not fail and
  its output is in its log, if that still exists. `TimesInv`: the times in the ledger,
  in answers and in a fetch's snapshot are of launches made, and what says that
  a job completed names the launch that did; so a key of an earlier launch is not
  the final one (`NotFinal`). `CopyInv`: a job that is not excused has one fetch at most,
  and a fetch under the final key copies the whole log, which has stopped growing.
  `WholeInv`: a copy the record vouches for is whole. That the record
  must not be taken back while such a copy is made again was
  found by this proof, and is the second excuse the property names.

`OnePlace_proofs`: `NeverInTwoPlaces`. The property counts: a job's occurrences in
the queue, in memory, among the records and so on add up to at most one. Its first part
is about counting in sequences (what appending, removing an entry, filtering or
capping does to the number of entries of a job), then each action is shown to
move occurrences and never to add one (`MovesOnly`). `OneInv` adds that a job
not yet submitted, withdrawn, dropped or evicted has none (`Gone`), and
`Balanced`: between pruning the running map and saving it, a job is in
`running.json` exactly if it is still tracked or among the records to be filed, so
that the switch from file to memory and back at a restart adds nothing. `Invs`
is the conjunction of the host's invariants.

`WorkerRuns_proofs`: `StatusesAreFresh`, `RunsExclude`, `RecordedAreOver`,
`DeletedAreGone`, `OnlyWeakerArePreempted`, `PayloadsArePresent`, each on `Invs`
and:

* `StatusInv`: a status file of a job that is tracked or being launched
  is of the attempt in progress, and records collected are `fresh`.
* `RunsInv`: the process on a host is that of its newest pidfile (`Newest`); hosts
  the monitor takes for idle, from a poll that is over, are idle (`IdleInv`); and
  every process is of an accepted job that runs nowhere else and is tracked, about
  to be, or was only being verified when the monitor died (`Lives`). The last case
  is why the property holds across crashes: that job was lost with the memory, so
  no one starts it again, and its host reads as running until it ends.
* `PrioInv` and `VictimInv`: a job carries the priority it was submitted with
  through every requeue, and the chosen victim's is lower than that of the
  job to be started, in whatever order the two moved since.
* `StagedInv`: an item that names a payload path is pinned to the host
  that holds the payload, in every list, and the item in hand fits the host it is
  for. `ClaimInv` says so of the queue entry that a preemption is about to
  claim after the victim's kill, from an earlier snapshot.

`Lifecycle_proofs`: `HostImplementsLifecycle` and `HostImplementsView`.

The first is the step by step simulation of `JobLifecycle`. As a job is in one place and none is lost, its status follows from the
place it is in (`PlacesApart`, `ClassStatus`), and each action moves a set
of jobs from one class to another (`Shift`, `ShiftsOne`) and leaves the rest
(`Steady`).
Polls, probes, staging and benching are stutters; saving the pruned map is
`Over`, filing is `File`, taking is `Take`, `Track` is `Confirm`, deferring is
`Park`, a crash is `Lose`. `RetiredOnce` is the part the other invariants lack: a
job leaves the queue's care in one way only.

The second says that the files change as `HostView` allows, which lookups and clients are
modelled and proved on: with it, what `ClientSystem_proofs` shows holds of
the queue host of `HostSystem`. The same moves between places give the
place of a view (`Placed`, `OneSeen`, `SomeSeen`); what is new are the
histories. `RecordedOnce`, from the counts of `OnePlace_proofs`, says that
`completed.json` has one record of a job, so that its latest is the one just
filed. `FiledInv` bounds a cycle's failures by the hosts, so that trimming
`failed.json` removes older records only (`FailsAfter`). `DueOf` is
the start failure still to be filed for a job already in `deferred.json`: the
monitor's memory is otherwise empty then, so a crash there loses that record and
no job (`CrashSeen`).

Every safety property of the passing runs is a theorem. Only model-checked are
the liveness properties, `WaiterGetsIn`, `EverySubmittedSettles`,
`FinishedIsShown` and `ConfigCatchesUp`: they need fairness, hence `ENABLED`, which
is out of the prover's reach. The properties of the six other runs are
refuted there, and two of them, `PayloadPresent` and
`StatusIsThisAttempts`, are proved without the faults that break them.

## What is not modelled

* The systemd unit (`host/daemon.py`): it writes a file and calls `systemctl`; its restart
  policy is the source of a fairness assumption.
* Printing, parsing and formatting (`shared/run_info.py`, `batch_view.py`,
  `timespec.py`, `array_id.py`), the JSON framing of RPCs, the SMTP request, the
  legacy shim, the Android viewer: no state of the queue's.
* Of the queue: `dequeue()` without a host, which only tests call. State files
  that cannot be parsed read as empty; with atomic replacement only outside damage
  causes that, and the migration, which is the exception, has it (`Torn`).
* Of the monitor: a launch that takes effect after its verification (an SSH
  timeout and a slow host); hosts that leave the configuration while their job runs
  (`QueueHosts` is constant in `HostSystem`, and `HostProcess` has no jobs).
* Of the configuration: the environment and the legacy host list as sources.
* Of the client: settings and host-list commands, `requeue` and `enable-host`
  (one RPC each, in `HostOps`), setting an unparseable ledger aside, several
  queue hosts, the archive's transfer, a file system without `flock`.
* Of the migration: `--dry-run`, which changes nothing, and `--force`, an
  operator's tool for recovery.

## Plan

1. A configuration that changes under running jobs in `HostSystem`: a host that
   leaves the map keeps its job's record, and pinned jobs wait.
2. The launch that takes effect late.

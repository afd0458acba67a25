----------------------------- MODULE HostSystem -----------------------------
(***************************************************************************)
(* The queue host with its worker hosts: the monitor, the commands other   *)
(* processes run, and the workers, interleaved.                            *)
(***************************************************************************)
EXTENDS Monitor, HostOps

Next ==
    \/ MonitorStep
    \/ Stop
    \/ Crash
    \/ OpsStep
    \/ \E h \in Hosts : CooldownExpires(h)
    \/ WorkerStep

Spec == Init /\ [][Next]_vars

\* The daemon is restarted and keeps looping, commands in progress finish,
\* jobs end, cooldowns expire.
Fairness ==
    /\ WF_vars(MonitorStep)
    /\ WF_vars(CommandFinishes)
    /\ \A h \in Hosts : WF_vars(\E j \in Jobs : JobEnds(h, j))
    /\ \A h \in Hosts : WF_vars(CooldownExpires(h))

FairSpec == Spec /\ Fairness

-----------------------------------------------------------------------------
(* Safety.                                                                 *)

\* Every accepted job that no operator deleted is somewhere: queued, running,
\* deferred, recorded, or in the hands of the process that is moving it; or
\* it was only in the memory of a process that died, or its failure record
\* is older than the newest MAX_FAILED_RECORDS.
NoJobLost ==
    submitted \subseteq OnDisk \cup InMemory \cup JobsIn(moving)
                          \cup withdrawn \cup dropped \cup evicted

Count(s, j) == Cardinality({i \in DOMAIN s : s[i].job = j})

\* The running map in force: the monitor's, or the file it will recover.
RunningMap == IF mpc = "down" THEN running ELSE tracked

Ends(s, j) == Cardinality({i \in DOMAIN s : /\ s[i].job = j
                                            /\ s[i].status # "start_failed"})

Occurrences(j) ==
    Count(queue, j) + Count(deferred, j) + Count(moving, j)
      + Cardinality({h \in Hosts : j \in JobsIn(RunningMap[h])})
      + Count(InHand, j) + Count(held, j)
      + Count(done, j) + Count(bad, j)
      + Ends(completed, j) + Ends(failed, j)

\* A job is never in two places, so it is never dispatched twice nor
\* recorded twice, although every move is two writes to two files with a
\* crash possible between them.
OnePlace == \A j \in Jobs : Occurrences(j) <= 1

\* A host runs one job of the queue's at a time, and a job runs on one host.
RunsAreExclusive ==
    /\ \A h \in Hosts : Cardinality(procs[h]) <= 1
    /\ \A j \in Jobs : Cardinality({h \in Hosts : j \in procs[h]}) <= 1

\* A job recorded as over has no live process (_prune_running_jobs_for_status
\* and the died-at-launch branch of _launch_job_on_host).
RecordedIsOver ==
    \A j \in EndedIn(completed) \cup EndedIn(failed)
                \cup JobsIn(done) \cup JobsIn(bad) :
        \A h \in Hosts : j \notin procs[h]

\* "A stale status from the previous attempt must not be read back as this
\* attempt's outcome" (job_control.py, EXIT_STATUS_WRAPPER_TEMPLATE).
StatusIsThisAttempts ==
    \A s \in {completed, failed, done, bad} : \A i \in DOMAIN s : s[i].fresh

\* A job an operator deleted is not queued, launched or running afterwards,
\* however late in a cycle the deletion came (claim_queued_job).
DeletedStaysDeleted ==
    \A j \in withdrawn :
        /\ j \notin JobsIn(queue) \cup InMemory \cup OnHosts(tracked)
        /\ \A h \in Hosts : j \notin procs[h]

\* running.json is what the monitor tracks, except for finished jobs it has
\* not yet filed: a restart recovers every job that is running.
DiskFollowsMemory ==
    mpc # "down" =>
        \A h \in Hosts :
            \/ running[h] = tracked[h]
            \/ mpc \in {"prune", "save"} /\ tracked[h] = <<>>

-----------------------------------------------------------------------------
(* What a step may never do.                                               *)

Begins(h, j) == j \notin procs[h] /\ j \in procs'[h]

\* A job submitted with a payload starts only where its payload is
\* (submit_to_host; docs/submitting.rst: "with PAYLOAD_DIR set to the remote
\* payload path").
PayloadPresent ==
    [][\A h \in Hosts, j \in Jobs :
          Begins(h, j) /\ Payload[j] # "none" => <<h, j>> \in staged]_vars

\* Nothing is dispatched to a host whose cooldown is in force.
BenchedHostsGetNothing ==
    [][\A h \in cooldown, j \in Jobs : Begins(h, j) => how = "preempt"]_vars

\* The monitor never ends a cooldown: only time and an operator do, although
\* benching one host writes the cooldowns of all.
MonitorKeepsCooldowns == [][cooldown \subseteq cooldown' \/ mpc' = mpc]_vars

\* Preemption ends only jobs of lower priority than the one it makes room
\* for, although the choice was made from an earlier snapshot.
PreemptsOnlyWeaker ==
    [][mpc = "kill" /\ mpc' # "kill" =>
          \A j \in procs[at] \ procs'[at] : Prio[j] < Prio[target]]_vars

\* Job metadata is dropped only when the host is confirmed idle
\* (monitor.py, _prune_running_jobs_for_status).
PrunesConfirmedIdle ==
    [][\A h \in Hosts : mpc = "prune" /\ tracked[h] # <<>> /\ tracked'[h] = <<>>
          => mpc' = "down" \/ procs[h] = {}]_vars

\* Benching a host writes back the cooldowns of all, "so a concurrent
\* `enable-host` CLI release isn't clobbered" (_disable_host_and_alert): a
\* host released meanwhile stays released.
ReleasesSurviveBenching ==
    [][mpc = "bench_save" /\ mpc' = "dispatch"
          => cooldown' \subseteq cooldown \cup {at}]_vars

\* Every job here was launched by this monitor, so none ends "unknown": that
\* is for jobs started before an upgrade (docs/failures.rst, the note on
\* exit_status_tracked).
LaunchedJobsHaveOutcomes ==
    \A i \in DOMAIN completed : completed[i].status # "unknown"

-----------------------------------------------------------------------------
(* Refinement and liveness.                                                *)

\* A finished job is in memory and still in running.json until that is saved.
StatusOf(j) ==
    CASE j \in JobsIn(queue) -> "queued"
      [] j \in OnHosts(running) -> "running"
      [] j \in JobsIn(deferred) \cup JobsIn(moving) -> "deferred"
      [] j \in EndedIn(completed) \cup EndedIn(failed) \cup evicted
           -> "finished"
      [] j \in InMemory \ OnHosts(running) -> "moving"
      [] j \in withdrawn -> "deleted"
      [] j \in dropped -> "lost"
      [] j \notin submitted -> "new"
      [] OTHER -> "nowhere"

Lifecycle == INSTANCE JobLifecycle WITH status <- [j \in Jobs |-> StatusOf(j)]

\* The host implements the abstract lives of jobs.
ImplementsLifecycle == Lifecycle!Spec

\* What a lookup that reads the files would see of job j.
ViewOf(j) ==
    [at |-> CASE j \in JobsIn(queue) -> "queue"
              [] j \in OnHosts(running) -> "running"
              [] j \in JobsIn(deferred) -> "deferred"
              [] j \in EndedIn(completed) \cup EndedIn(failed) \cup evicted
                   -> "over"
              [] j \in (InMemory \ OnHosts(running)) \cup JobsIn(moving)
                   -> "hand"
              [] j \in withdrawn \cup dropped -> "gone"
              [] OTHER -> "new",
     done |-> IF \E i \in DOMAIN completed : completed[i].job = j
              THEN LET last == CHOOSE i \in DOMAIN completed :
                                   /\ completed[i].job = j
                                   /\ \A k \in DOMAIN completed :
                                         completed[k].job = j => k <= i
                   IN  completed[last].status
              ELSE "none",
     fail |-> \E i \in DOMAIN failed : failed[i].job = j,
     due |-> mpc = "defer" /\ hand[1].job = j]

Files == INSTANCE HostView WITH view <- [j \in Jobs |-> ViewOf(j)]

\* The files change only in the ways HostView says: a job moves between them
\* through a process's memory, and a record of an end is never taken back.
ImplementsView == Files!Spec

Settled == EndedIn(completed) \cup EndedIn(failed) \cup JobsIn(deferred)
             \cup evicted \cup withdrawn \cup dropped

\* Every accepted job is at last recorded, deferred, deleted by an operator
\* or lost in a crash: none waits or is retried for ever.
EverySubmittedSettles == \A j \in Jobs : j \in submitted ~> j \in Settled

=============================================================================

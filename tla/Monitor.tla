------------------------------- MODULE Monitor ------------------------------
(***************************************************************************)
(* host/monitor.py and host/job_control.py: the monitor daemon's loop.     *)
(* Every step ends where another process could interleave: a locked write, *)
(* a lock-free read or an SSH round trip.  Emails and console output do    *)
(* not appear.                                                             *)
(***************************************************************************)
EXTENDS Worker

\* Groups of variables a step leaves alone.
queueOnly == <<running, deferred, completed, failed, cooldown>>
launching == <<tracked, wrapped, benched, view, todo, at, how, target, held,
               done, bad>>
quiet == <<commands, submitted, withdrawn, dropped, ops>>
others == <<quiet, evicted>>

Goto(place) == mpc' = place

\* monitor_loop ignores what _launch_job_on_host returns to a preemption.
AfterLaunch(place) == Goto(IF how = "preempt" THEN "top" ELSE place)

-----------------------------------------------------------------------------
(* Starting and stopping.                                                  *)

\* The first lines of monitor_loop.  normalize_running_item dropped
\* exit_status_tracked when running.json was written.
\* Fault: running.json is not loaded.
StartForgetting ==
    /\ mpc = "down"
    /\ benched' = cooldown
    /\ Goto("top")
    /\ UNCHANGED <<files, workers, tracked, wrapped, view, todo, at, how,
                   target, hand, held, done, bad, others, current, faults>>

Start ==
    /\ mpc = "down"
    /\ tracked' = running
    /\ benched' = cooldown
    /\ Goto("top")
    /\ UNCHANGED <<files, workers, wrapped, view, todo, at, how, target, hand,
                   held, done, bad, others, current, faults>>

\* SIGTERM: the loop ends between two cycles.
Stop ==
    /\ mpc = "top"
    /\ Command("stop")
    /\ Goto("down")
    /\ MemoryLost
    /\ UNCHANGED <<files, workers, commands, ghosts, faults>>

\* The monitor dies anywhere; its memory is gone.
Crash ==
    /\ mpc # "down"
    /\ Fault({"crash"})
    /\ Goto("down")
    /\ MemoryLost
    /\ dropped' = dropped \cup (InMemory \ (OnDisk \cup JobsIn(moving)))
    /\ UNCHANGED <<files, workers, commands, submitted, withdrawn, evicted,
                   current, ops>>

-----------------------------------------------------------------------------
(* The status poll and the finished jobs.                                  *)

\* Reload the cooldowns, then status_all: each host is busy, idle or down.
\* A probe that fails after the first one reads as idle.
Truth == [h \in Hosts |-> IF Busy(h) THEN "busy" ELSE "idle"]

\* Fault: the cooldown map is cleared and not filled again.
PollForgettingCooldowns ==
    /\ mpc = "top"
    /\ benched' = {}
    /\ view' = Truth
    /\ todo' = {h \in Hosts : view'[h] = "idle"}
    /\ at' = NoHost
    /\ how' = "dispatch"
    /\ target' = NoJob
    /\ Goto("prune")
    /\ UNCHANGED <<files, workers, tracked, wrapped, hand, held, done, bad,
                   others, current, faults>>

Poll ==
    /\ mpc = "top"
    /\ benched' = cooldown
    /\ \/ view' = Truth /\ UNCHANGED faults
       \/ \E h \in Hosts :
             /\ view' = [Truth EXCEPT ![h] = "down"]
             /\ Fault({"down"})
       \/ \E h \in Hosts :
             /\ Busy(h)
             /\ view' = [Truth EXCEPT ![h] = "idle"]
             /\ Fault({"misread"})
    /\ todo' = {h \in Hosts : view'[h] = "idle"} \ benched'
    /\ at' = NoHost
    /\ how' = "dispatch"
    /\ target' = NoJob
    /\ Goto("prune")
    /\ UNCHANGED <<files, workers, tracked, wrapped, hand, held, done, bad,
                   others, current>>

\* What fetch_job_outcome reads of j on h.
Statuses(h, j) == {e \in rc[h] : e.job = j}

\* _record_for_outcome when a status was found, and when none was.
RecordOf(h, e) == [job |-> e.job, fresh |-> <<h, e.job>> \in current,
                   status |-> IF e.ok THEN "completed" ELSE "failed"]
RecordWithout(j, tracks) ==
    [job |-> j, fresh |-> TRUE,
     status |-> IF tracks THEN "failed" ELSE "unknown"]

\* r is the record fetched for j on h; a failed SSH call finds no status.
Fetched(r, h, j, tracks) ==
    \/ /\ r \in {RecordOf(h, e) : e \in Statuses(h, j)}
       /\ UNCHANGED faults
    \/ /\ r = RecordWithout(j, tracks)
       /\ \/ Statuses(h, j) = {} /\ UNCHANGED faults
          \/ Statuses(h, j) # {} /\ Fault({"fetch"})

Success(record) == record.status \in {"completed", "unknown"}

Collect(record) ==
    /\ done' = IF Success(record) THEN Append(done, record) ELSE done
    /\ bad' = IF Success(record) THEN bad ELSE Append(bad, record)

\* Fault: a host that did not answer counts as idle.
PruneUnconfirmed(h) ==
    /\ mpc = "prune"
    /\ tracked[h] # <<>>
    /\ view[h] # "busy"
    /\ \E r \in Record :
          Fetched(r, h, tracked[h][1].job, h \in wrapped) /\ Collect(r)
    /\ tracked' = [tracked EXCEPT ![h] = <<>>]
    /\ wrapped' = wrapped \ {h}
    /\ UNCHANGED <<files, workers, mpc, benched, view, todo, at, how, target,
                   hand, held, others, current>>

\* One host of _prune_running_jobs_for_status: tracked, reachable and idle.
PruneHost(h) ==
    /\ mpc = "prune"
    /\ tracked[h] # <<>>
    /\ view[h] = "idle"
    /\ \E r \in Record :
          Fetched(r, h, tracked[h][1].job, h \in wrapped) /\ Collect(r)
    /\ tracked' = [tracked EXCEPT ![h] = <<>>]
    /\ wrapped' = wrapped \ {h}
    /\ UNCHANGED <<files, workers, mpc, benched, view, todo, at, how, target,
                   hand, held, others, current>>

PruneEnds ==
    /\ mpc = "prune"
    /\ \A h \in Hosts : tracked[h] # <<>> => view[h] # "idle"
    /\ Goto(IF done = <<>> /\ bad = <<>> THEN "dispatch" ELSE "save")
    /\ UNCHANGED <<files, workers, launching, hand, others, current, faults>>

SavePruned ==
    /\ mpc = "save"
    /\ LockFree
    /\ running' = tracked
    /\ Goto(IF done # <<>> THEN "file_completed" ELSE "file_failed")
    /\ UNCHANGED <<queue, deferred, completed, failed, cooldown, workers,
                   launching, hand, others, current, faults>>

\* append_completed_records.
FileCompleted ==
    /\ mpc = "file_completed"
    /\ LockFree
    /\ completed' = completed \o done
    /\ done' = <<>>
    /\ Goto(IF bad # <<>> THEN "file_failed" ELSE "dispatch")
    /\ UNCHANGED <<queue, running, deferred, failed, cooldown, workers,
                   tracked, wrapped, benched, view, todo, at, how, target,
                   hand, held, bad, others, current, faults>>

\* Fault: failed.json is never trimmed.
Uncapped(records) == records

\* append_failed_records keeps the newest MAX_FAILED_RECORDS.
Capped(records) ==
    LET n == Len(records)
    IN  IF n <= MaxFailedRecords THEN records
        ELSE SubSeq(records, n - MaxFailedRecords + 1, n)

FailedGrowsBy(records) ==
    /\ failed' = Capped(failed \o records)
    /\ evicted' = evicted \cup (EndedIn(failed \o records) \ EndedIn(failed'))

FileFailed ==
    /\ mpc = "file_failed"
    /\ LockFree
    /\ FailedGrowsBy(bad)
    /\ bad' = <<>>
    /\ Goto("dispatch")
    /\ UNCHANGED <<queue, running, deferred, completed, cooldown, workers,
                   tracked, wrapped, benched, view, todo, at, how, target,
                   hand, held, done, quiet, current, faults>>

-----------------------------------------------------------------------------
(* Dispatch: one job for each free host, in the order of their names.      *)

NextHost(h) == h \in todo /\ \A g \in todo : HostRank[h] <= HostRank[g]

\* dequeue_for_host.
DequeueForHost(h) ==
    /\ mpc = "dispatch"
    /\ NextHost(h)
    /\ h \notin benched
    /\ LockFree
    /\ \E i \in BestIndex(queue, h) :
          /\ hand' = <<queue[i]>>
          /\ queue' = RemoveAt(queue, i)
    /\ todo' = todo \ {h}
    /\ at' = h
    /\ Goto("stage")
    /\ UNCHANGED <<queueOnly, workers, tracked, wrapped, benched, view, how,
                   target, held, done, bad, others, current, faults>>

\* The host was benched meanwhile, or no queued job may run on it.
SkipHost(h) ==
    /\ mpc = "dispatch"
    /\ NextHost(h)
    /\ h \in benched \/ (LockFree /\ BestIndex(queue, h) = {})
    /\ todo' = todo \ {h}
    /\ UNCHANGED <<files, workers, mpc, tracked, wrapped, benched, view, at,
                   how, target, hand, held, done, bad, others, current, faults>>

DispatchEnds ==
    /\ mpc = "dispatch"
    /\ todo = {}
    /\ Goto("choose")
    /\ UNCHANGED <<files, workers, launching, hand, others, current, faults>>

-----------------------------------------------------------------------------
(* submit_to_host: stage the payload, launch, verify.                      *)

job == hand[1].job

\* The item remembers the payload's remote path once submit_to_host named
\* one, whether or not anything is there.
WithDir == hand' = <<[hand[1] EXCEPT !.dir = TRUE]>>

\* Nothing to stage, or the item already carries a remote path.
StageNothing ==
    /\ mpc = "stage"
    /\ Payload[job] = "none" \/ hand[1].dir
    /\ Goto("launch")
    /\ UNCHANGED <<files, workers, launching, hand, others, current, faults>>

\* Scratch chosen, payload downloaded or copied.
StagePayload ==
    /\ mpc = "stage"
    /\ Payload[job] \in {"local", "s3"} /\ ~hand[1].dir
    /\ staged' = staged \cup {<<at, job>>}
    /\ WithDir
    /\ Goto("launch")
    /\ UNCHANGED <<files, procs, pids, rc, launching, others, current, faults>>

\* No scratch, or the copy fails: the host is blamed.  A failed download or
\* mkdir already reports the path.
StageFails ==
    /\ mpc = "stage"
    /\ ~hand[1].dir
    /\ \/ Payload[job] = "huge" /\ UNCHANGED <<hand, faults>>
       \/ Payload[job] \in {"local", "s3"} /\ Fault({"scratch"})
             /\ UNCHANGED hand
       \/ Payload[job] = "s3" /\ Fault({"download"}) /\ WithDir
       \/ Payload[job] = "local" /\ Fault({"mkdir"}) /\ WithDir
       \/ Payload[job] = "local" /\ Fault({"rsync"}) /\ UNCHANGED hand
    /\ Goto("host_failed")
    /\ UNCHANGED <<files, workers, launching, others, current>>

\* The local payload path does not exist: the job is blamed.
StageMissing ==
    /\ mpc = "stage"
    /\ Payload[job] = "missing" /\ ~hand[1].dir
    /\ Goto("job_failed")
    /\ UNCHANGED <<files, workers, launching, hand, others, current, faults>>

\* The launch SSH.  Its status is not looked at.
Launch ==
    /\ mpc = "launch"
    /\ \/ ScriptRuns(at, job) /\ UNCHANGED faults
       \/ Fault({"launch"}) /\ UNCHANGED <<procs, pids, rc>>
    /\ Attempt(job)
    /\ Goto("verify")
    /\ UNCHANGED <<files, staged, launching, hand, others>>

\* _verify_launched: the probes, and where their verdict leads.  When the
\* pidfile could not be read the scan for MANAGER_TAG may still see the
\* process, as long as `env` has not yet become the job's shell.
VerifySees(place) ==
    \/ /\ place = "track" /\ job \in procs[at]
       /\ \/ HasPidfile(at, job) /\ UNCHANGED faults
          \/ Fault({"probe"})
    \/ /\ place = "outcome" /\ HasPidfile(at, job)
       /\ \/ job \notin procs[at] /\ UNCHANGED faults
          \/ job \in procs[at] /\ Fault({"psprobe"})
    \/ /\ place = "job_failed" /\ ~HasPidfile(at, job) /\ UNCHANGED faults
    \/ place = "host_failed" /\ Fault({"probe"})

Verify ==
    /\ mpc = "verify"
    /\ \E place \in {"track", "outcome", "job_failed", "host_failed"} :
          VerifySees(place) /\ Goto(place)
    /\ UNCHANGED <<files, workers, launching, hand, others, current>>

-----------------------------------------------------------------------------
(* The rest of _launch_job_on_host: what becomes of the item.              *)

\* Started: the running record is rebuilt field by field.
\* Fault: running.json is not written.
TrackUnsaved ==
    /\ mpc = "track"
    /\ tracked' = [tracked EXCEPT ![at] =
                      <<[hand[1] EXCEPT !.preempt = FALSE, !.fails = 0,
                                        !.resume = NoHost]>>]
    /\ wrapped' = wrapped \cup {at}
    /\ hand' = <<>>
    /\ AfterLaunch("dispatch")
    /\ UNCHANGED <<files, workers, benched, view, todo, at, how, target, held,
                   done, bad, others, current, faults>>

Track ==
    /\ mpc = "track"
    /\ LockFree
    /\ tracked' = [tracked EXCEPT ![at] =
                      <<[hand[1] EXCEPT !.preempt = FALSE, !.fails = 0,
                                        !.resume = NoHost]>>]
    /\ wrapped' = wrapped \cup {at}
    /\ running' = tracked'
    /\ hand' = <<>>
    /\ AfterLaunch("dispatch")
    /\ UNCHANGED <<queue, deferred, completed, failed, cooldown, workers,
                   benched, view, todo, at, how, target, held, done, bad,
                   others, current, faults>>

\* Dead one second after the launch: its recorded status decides, and the
\* record is filed at once.
RecordDead ==
    /\ mpc = "outcome"
    /\ LockFree
    /\ \E r \in Record :
          /\ Fetched(r, at, job, TRUE)
          /\ completed' = IF Success(r) THEN Append(completed, r) ELSE completed
          /\ FailedGrowsBy(IF Success(r) THEN <<>> ELSE <<r>>)
          /\ AfterLaunch(IF Success(r) THEN "dispatch" ELSE "choose")
    /\ hand' = <<>>
    /\ UNCHANGED <<queue, running, deferred, cooldown, workers, launching,
                   quiet, current>>

\* Fault: the job of a failed host is not put back.
RequeueBackForgotten ==
    /\ mpc = "host_failed"
    /\ hand' = <<>>
    /\ AfterLaunch("bench_load")
    /\ UNCHANGED <<files, workers, launching, others, current, faults>>

\* host_storage or host_transport: requeue_back, not counted against the job.
RequeueBack ==
    /\ mpc = "host_failed"
    /\ LockFree
    /\ queue' = Append(queue, [hand[1] EXCEPT !.fails = 0])
    /\ hand' = <<>>
    /\ AfterLaunch("bench_load")
    /\ UNCHANGED <<queueOnly, workers, launching, others, current, faults>>

\* Fault: only the newly benched host is kept.
BenchLoadAlone ==
    /\ mpc = "bench_load"
    /\ benched' = {at}
    /\ Goto("bench_save")
    /\ UNCHANGED <<files, workers, tracked, wrapped, view, todo, at, how,
                   target, hand, held, done, bad, others, current, faults>>

\* _disable_host_and_alert: monitor_state.json is read without the lock...
BenchLoad ==
    /\ mpc = "bench_load"
    /\ benched' = cooldown \cup {at}
    /\ Goto("bench_save")
    /\ UNCHANGED <<files, workers, tracked, wrapped, view, todo, at, how,
                   target, hand, held, done, bad, others, current, faults>>

\* ... and the whole cooldown map is written back under it.
BenchSave ==
    /\ mpc = "bench_save"
    /\ LockFree
    /\ cooldown' = benched
    /\ Goto("dispatch")
    /\ UNCHANGED <<queue, running, deferred, completed, failed, workers,
                   launching, hand, others, current, faults>>

TooManyFailures == hand[1].fails + 1 >= MaxSubmitFailures

\* Fault: failed starts are not counted.
RequeueUncounted ==
    /\ mpc = "job_failed"
    /\ LockFree
    /\ ~TooManyFailures
    /\ queue' = Cons(hand[1], queue)
    /\ hand' = <<>>
    /\ AfterLaunch("choose")
    /\ UNCHANGED <<queueOnly, workers, launching, others, current, faults>>

\* The job's fault: another try, ahead of the queue; the rest of the free
\* hosts wait for the next cycle.
RequeueFailed ==
    /\ mpc = "job_failed"
    /\ LockFree
    /\ ~TooManyFailures
    /\ queue' = Cons([hand[1] EXCEPT !.fails = @ + 1], queue)
    /\ hand' = <<>>
    /\ AfterLaunch("choose")
    /\ UNCHANGED <<queueOnly, workers, launching, others, current, faults>>

\* append_deferred_job.
DeferJob ==
    /\ mpc = "job_failed"
    /\ LockFree
    /\ TooManyFailures
    /\ deferred' = Append(deferred, [hand[1] EXCEPT !.fails = 0])
    /\ Goto("defer")
    /\ UNCHANGED <<queue, running, completed, failed, cooldown, workers,
                   launching, hand, others, current, faults>>

FileStartFailure ==
    /\ mpc = "defer"
    /\ LockFree
    /\ FailedGrowsBy(<<[job |-> job, fresh |-> TRUE,
                        status |-> "start_failed"]>>)
    /\ hand' = <<>>
    /\ AfterLaunch("choose")
    /\ UNCHANGED <<queue, running, deferred, completed, cooldown, workers,
                   launching, quiet, current, faults>>

-----------------------------------------------------------------------------
(* Preemption.                                                             *)

\* Fault: equal priority is enough to preempt.
VictimsOrEquals(item) ==
    {h \in Hosts : /\ view[h] = "busy" /\ tracked[h] # <<>>
                   /\ Eligible(item, h)
                   /\ item.prio >= tracked[h][1].prio}

\* Hosts an item may preempt: busy in this cycle's snapshot with tracked
\* work of lower priority.
Victims(item) ==
    {h \in Hosts : /\ view[h] = "busy" /\ tracked[h] # <<>>
                   /\ Eligible(item, h)
                   /\ item.prio > tracked[h][1].prio}

Weakest(S) ==
    {h \in S : \A g \in S :
        \/ tracked[h][1].prio < tracked[g][1].prio
        \/ /\ tracked[h][1].prio = tracked[g][1].prio
           /\ HostRank[h] <= HostRank[g]}

Preemptors == {i \in DOMAIN queue : queue[i].preempt /\ Victims(queue[i]) # {}}

\* _select_preempt_target: the highest priority, then the oldest.
Preemptor ==
    Earliest({i \in Preemptors :
                \A k \in Preemptors : queue[k].prio <= queue[i].prio})

\* A lock-free snapshot of the queue.
ChoosePreemption ==
    /\ mpc = "choose"
    /\ \E i \in Preemptor : \E h \in Weakest(Victims(queue[i])) :
          /\ target' = queue[i].job
          /\ at' = h
    /\ how' = "preempt"
    /\ Goto("claim")
    /\ UNCHANGED <<files, workers, tracked, wrapped, benched, view, todo, hand,
                   held, done, bad, others, current, faults>>

ChooseNothing ==
    /\ mpc = "choose"
    /\ Preemptor = {}
    /\ Goto("top")
    /\ UNCHANGED <<files, workers, launching, hand, others, current, faults>>

\* claim_queued_job.
Claim ==
    /\ mpc = "claim"
    /\ LockFree
    /\ \E i \in Positions(queue, target) :
          /\ hand' = <<queue[i]>>
          /\ queue' = RemoveAt(queue, i)
    /\ Goto("kill")
    /\ UNCHANGED <<queueOnly, workers, launching, others, current, faults>>

\* Fault: the snapshot's item is launched although it left the queue.
ClaimSnapshot ==
    /\ mpc = "claim"
    /\ LockFree
    /\ Positions(queue, target) = {}
    /\ hand' = <<[job |-> target, prio |-> Prio[target], preempt |-> TRUE,
                  hosts |-> {}, resume |-> NoHost, fails |-> 0, dir |-> FALSE]>>
    /\ Goto("kill")
    /\ UNCHANGED <<files, workers, launching, others, current, faults>>

\* The target was dispatched or deleted meanwhile.
ClaimNothing ==
    /\ mpc = "claim"
    /\ LockFree
    /\ Positions(queue, target) = {}
    /\ Goto("top")
    /\ UNCHANGED <<files, workers, launching, hand, others, current, faults>>

\* Fault: the result of the kill is not looked at.
KillUnchecked ==
    /\ mpc = "kill"
    /\ \/ Killed(at) /\ UNCHANGED faults
       \/ UNCHANGED <<procs, pids, rc, current>> /\ Fault({"kill"})
    /\ Goto("untrack")
    /\ UNCHANGED <<files, staged, launching, hand, others>>

\* kill_managed_on_host; when the SSH call fails or times out, the script may
\* have run all the same.
KillVictim ==
    /\ mpc = "kill"
    /\ \/ Killed(at) /\ Goto("untrack") /\ UNCHANGED faults
       \/ Killed(at) /\ Goto("kill_failed") /\ Fault({"kill_timeout"})
       \/ /\ UNCHANGED <<procs, pids, rc, current>>
          /\ Goto("kill_failed") /\ Fault({"kill"})
    /\ UNCHANGED <<files, staged, launching, hand, others>>

\* Fault: the claimed job is not put back.
StandDownDropping ==
    /\ mpc = "kill_failed"
    /\ hand' = <<>>
    /\ Goto("top")
    /\ UNCHANGED <<files, workers, launching, others, current, faults>>

StandDown ==
    /\ mpc = "kill_failed"
    /\ LockFree
    /\ queue' = Cons(hand[1], queue)
    /\ hand' = <<>>
    /\ Goto("top")
    /\ UNCHANGED <<queueOnly, workers, launching, others, current, faults>>

\* Fault: the interrupted job stays in running_jobs.
UntrackNothing ==
    /\ mpc = "untrack"
    /\ LockFree
    /\ held' = <<ResumeItem(tracked[at][1], at)>>
    /\ Goto("resume")
    /\ UNCHANGED <<files, workers, tracked, wrapped, benched, view, todo, at,
                   how, target, hand, done, bad, others, current, faults>>

UntrackVictim ==
    /\ mpc = "untrack"
    /\ LockFree
    /\ held' = <<ResumeItem(tracked[at][1], at)>>
    /\ tracked' = [tracked EXCEPT ![at] = <<>>]
    /\ wrapped' = wrapped \ {at}
    /\ running' = tracked'
    /\ Goto("resume")
    /\ UNCHANGED <<queue, deferred, completed, failed, cooldown, workers,
                   benched, view, todo, at, how, target, hand, done, bad,
                   others, current, faults>>

\* requeue_front of the interrupted job, then the launch.
RequeueVictim ==
    /\ mpc = "resume"
    /\ LockFree
    /\ queue' = Cons(held[1], queue)
    /\ held' = <<>>
    /\ Goto("stage")
    /\ UNCHANGED <<queueOnly, workers, tracked, wrapped, benched, view, todo,
                   at, how, target, hand, done, bad, others, current, faults>>

-----------------------------------------------------------------------------
PollAndPrune ==
    \/ Start \/ Poll
    \/ \E h \in Hosts : PruneHost(h)
    \/ PruneEnds \/ SavePruned \/ FileCompleted \/ FileFailed

Dispatch ==
    \/ \E h \in Hosts : DequeueForHost(h) \/ SkipHost(h)
    \/ DispatchEnds

LaunchJob ==
    \/ StageNothing \/ StagePayload \/ StageFails \/ StageMissing
    \/ Launch \/ Verify \/ Track \/ RecordDead
    \/ RequeueBack \/ BenchLoad \/ BenchSave
    \/ RequeueFailed \/ DeferJob \/ FileStartFailure

Preempting ==
    \/ ChoosePreemption \/ ChooseNothing \/ Claim \/ ClaimNothing
    \/ KillVictim \/ StandDown \/ UntrackVictim \/ RequeueVictim

\* The daemon's own thread, as opposed to what happens to it.
MonitorStep == PollAndPrune \/ Dispatch \/ LaunchJob \/ Preempting

=============================================================================

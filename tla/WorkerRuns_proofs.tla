-------------------------- MODULE WorkerRuns_proofs -------------------------
(***************************************************************************)
(* What runs on the workers: the proofs that runs are exclusive, that a    *)
(* recorded or deleted job has no process, that a status is read back only *)
(* for the attempt that left it, that preemption ends only weaker work and *)
(* that a job starts only where its payload is.                            *)
(*                                                                         *)
(* Each theorem names the faults it excludes: they are those the code does *)
(* not defend itself against (see the runs misread_idle, stale_status and  *)
(* payload_path, and what README.md says of the probes).                   *)
(***************************************************************************)
EXTENDS OnePlace_proofs

USE DEF files, workers, memory, commands, ghosts, bounds,
        queueOnly, launching, quiet, others

-----------------------------------------------------------------------------
(* A job that is in one place is in no other.                              *)

LEMMA RunningOnly ==
    ASSUME Invs, NEW j \in Jobs, NEW h \in Hosts, j \in JobsIn(RunningMap[h])
    PROVE  /\ j \notin JobsIn(queue) /\ j \notin JobsIn(deferred)
           /\ j \notin JobsIn(moving) /\ j \notin JobsIn(InHand)
           /\ j \notin JobsIn(held)
           /\ j \notin JobsIn(done) /\ j \notin JobsIn(bad)
           /\ j \notin EndedIn(completed) /\ j \notin EndedIn(failed)
           /\ j \notin Gone
           /\ \A g \in Hosts : j \in JobsIn(RunningMap[g]) => g = h
<1> DEFINE on == Cardinality(Hosting(RunningMap, j))
<1>1. h \in Hosting(RunningMap, j) /\ IsFiniteSet(Hosting(RunningMap, j))
  BY CountsOf DEF Hosting, RunningMap, Tractable
<1>2. on \in Nat /\ on # 0
  BY <1>1, CountsOf, FS_EmptySet
<1>3. Occurrences(j) \in {0, 1}
  BY CountsOf
<1> DEFINE lists == Count(queue, j) + Count(deferred, j) + Count(moving, j)
           memo == Count(InHand, j) + Count(held, j) + Count(done, j)
                     + Count(bad, j)
           ended == Ends(completed, j) + Ends(failed, j)
<1>4. /\ lists \in Nat
      /\ lists = 0 => Count(queue, j) = 0 /\ Count(deferred, j) = 0
                          /\ Count(moving, j) = 0
  BY CountsOf
<1>5. /\ memo \in Nat
      /\ memo = 0 => Count(InHand, j) = 0 /\ Count(held, j) = 0
                         /\ Count(done, j) = 0 /\ Count(bad, j) = 0
  BY CountsOf
<1>6. /\ ended \in Nat
      /\ ended = 0 => Ends(completed, j) = 0 /\ Ends(failed, j) = 0
  BY CountsOf
<1>7. Occurrences(j) = lists + on + memo + ended
  BY <1>2, OccurrencesAre, CountsOf
<1>8. lists = 0 /\ memo = 0 /\ ended = 0 /\ on = 1 /\ Occurrences(j) = 1
  <2> HIDE DEF lists, memo, ended, on
  <2> QED
    BY <1>2, <1>3, <1>4, <1>5, <1>6, <1>7
<1>9. j \notin Gone
  BY <1>8, CountsOf
<1>10. ASSUME NEW g \in Hosts, j \in JobsIn(RunningMap[g]) PROVE g = h
  <2>1. PICK x : Hosting(RunningMap, j) = {x}
    BY <1>1, <1>8, FS_Singleton
  <2> QED
    BY <1>1, <1>10, <2>1 DEF Hosting
<1> QED
  BY <1>4, <1>5, <1>6, <1>8, <1>9, <1>10, WhereCounts

\* The job in the monitor's hands is nowhere else.
LEMMA InHandOnly ==
    ASSUME Invs, mpc \in Holding \ {"defer"}
    PROVE  /\ job \in Jobs /\ job = hand[1].job
           /\ job \notin JobsIn(queue) /\ job \notin JobsIn(deferred)
           /\ job \notin JobsIn(moving) /\ job \notin JobsIn(held)
           /\ job \notin JobsIn(done) /\ job \notin JobsIn(bad)
           /\ job \notin EndedIn(completed) /\ job \notin EndedIn(failed)
           /\ job \notin OnHosts(running) /\ job \notin OnHosts(tracked)
           /\ job \in JobsIn(InHand)
           /\ job \notin Gone
<1>1. hand = <<hand[1]>> /\ hand[1] \in Item /\ InHand = hand /\ mpc # "down"
  BY ItemInHand DEF InHand, Holding
<1>2. job = hand[1].job /\ job \in Jobs
  BY <1>1 DEF job, Item
<1> DEFINE j == job
           on == Cardinality(Hosting(RunningMap, j))
           mine == Count(InHand, j)
<1> HIDE DEF j
<1>3. j \in Jobs
  BY <1>2 DEF j
<1>4. j \in JobsIn(InHand)
  BY <1>1, <1>2, JobsInOne DEF j
<1>5. mine \in Nat /\ mine # 0 /\ on \in Nat
  BY <1>3, <1>4, CountsOf, WhereCounts
<1>6. Occurrences(j) \in {0, 1}
  BY <1>3, CountsOf
<1> DEFINE lists == Count(queue, j) + Count(deferred, j) + Count(moving, j)
           memo == Count(held, j) + Count(done, j) + Count(bad, j)
           ended == Ends(completed, j) + Ends(failed, j)
<1>7. /\ lists \in Nat
      /\ lists = 0 => Count(queue, j) = 0 /\ Count(deferred, j) = 0
                          /\ Count(moving, j) = 0
  BY <1>3, CountsOf
<1>8. /\ memo \in Nat
      /\ memo = 0 => Count(held, j) = 0 /\ Count(done, j) = 0
                         /\ Count(bad, j) = 0
  BY <1>3, CountsOf
<1>9. /\ ended \in Nat
      /\ ended = 0 => Ends(completed, j) = 0 /\ Ends(failed, j) = 0
  BY <1>3, CountsOf
<1>10. Occurrences(j) = lists + on + mine + memo + ended
  BY <1>3, <1>5, OccurrencesAre, CountsOf
<1>11. lists = 0 /\ memo = 0 /\ ended = 0 /\ on = 0 /\ Occurrences(j) = 1
  <2> HIDE DEF lists, memo, ended, on, mine
  <2> QED
    BY <1>5, <1>6, <1>7, <1>8, <1>9, <1>10
<1>12. j \notin Gone
  BY <1>3, <1>11, CountsOf
<1>13. RunningMap = tracked /\ RunningMap = running
  <2>1. \A h \in Hosts : running[h] = tracked[h]
    BY <1>1 DEF Invs, DiskInv, DiskFollowsMemory, Holding
  <2> QED
    BY <1>1, <2>1, ItemLists DEF Invs, RunningMap
<1>14. j \notin OnHosts(running) /\ j \notin OnHosts(tracked)
  BY <1>3, <1>11, <1>13, WhereCounts
<1>15. /\ j \notin JobsIn(queue) /\ j \notin JobsIn(deferred)
       /\ j \notin JobsIn(moving) /\ j \notin JobsIn(held)
       /\ j \notin JobsIn(done) /\ j \notin JobsIn(bad)
       /\ j \notin EndedIn(completed) /\ j \notin EndedIn(failed)
  BY <1>3, <1>7, <1>8, <1>9, <1>11, WhereCounts
<1> QED
  BY <1>2, <1>4, <1>12, <1>14, <1>15 DEF j

\* A job that is no longer the queue's is nowhere.
LEMMA GoneOnly ==
    ASSUME Invs, NEW j \in Jobs, j \in Gone
    PROVE  /\ j \notin OnDisk /\ j \notin InMemory /\ j \notin JobsIn(moving)
           /\ \A h \in Hosts : j \notin JobsIn(RunningMap[h])
<1>1. Occurrences(j) = 0
  BY CountsOf
<1>2. j \notin OnDisk /\ j \notin InMemory /\ j \notin JobsIn(moving)
  BY <1>1, NowhereIsZero
<1>3. ASSUME NEW h \in Hosts, j \in JobsIn(RunningMap[h]) PROVE FALSE
  BY <1>3, RunningOnly
<1> QED
  BY <1>2, <1>3

-----------------------------------------------------------------------------
(* Statuses on the workers.                                                *)

\* The launch SSH ran its script: it is that script that removes the status
\* an earlier attempt left.
LaunchesRun == "launch" \notin Faults

Fresh(h, j) == Statuses(h, j) = {} \/ <<h, j>> \in current

LEMMA KilledKeepsFresh ==
    ASSUME TypeInv, NEW h \in Hosts, Killed(h), NEW g \in Hosts, NEW j,
           Fresh(g, j)
    PROVE  Fresh(g, j)'
<1>1. PICK recorded \in SUBSET procs[h] :
        /\ rc' = [rc EXCEPT ![h] =
                    {e \in @ : e.job \notin recorded}
                      \cup [job : recorded, ok : {FALSE}]]
        /\ current' = current \cup ({h} \X recorded)
  BY DEF Killed
<1>2. rc \in [Hosts -> SUBSET ExitStatus]
  BY Parts DEF WorkersOK
<1>3. CASE g # h
  BY <1>1, <1>2, <1>3 DEF Fresh, Statuses
<1>4. CASE g = h /\ j \in recorded
  BY <1>1, <1>4 DEF Fresh
<1>5. CASE g = h /\ j \notin recorded
  <2>1. rc'[h] = {e \in rc[h] : e.job \notin recorded}
                   \cup [job : recorded, ok : {FALSE}]
    BY <1>1, <1>2
  <2>2. \A e \in [job : recorded, ok : {FALSE}] : e.job \in recorded
    OBVIOUS
  <2>3. Statuses(h, j)' \subseteq Statuses(h, j)
    BY <1>5, <2>1, <2>2 DEF Statuses
  <2> QED
    BY <1>1, <1>5, <2>3 DEF Fresh
<1> QED
  BY <1>3, <1>4, <1>5

LEMMA EndsKeepFresh ==
    ASSUME TypeInv, NEW h \in Hosts, NEW k \in Jobs, JobEnds(h, k),
           NEW g \in Hosts, NEW j, Fresh(g, j)
    PROVE  Fresh(g, j)'
<1>1. PICK ok \in BOOLEAN :
        rc' = [rc EXCEPT ![h] = {e \in @ : e.job # k}
                                    \cup {[job |-> k, ok |-> ok]}]
  BY DEF JobEnds
<1>2. current' = current \cup {<<h, k>>}
  BY DEF JobEnds
<1>3. rc \in [Hosts -> SUBSET ExitStatus]
  BY Parts DEF WorkersOK
<1>4. CASE g # h
  BY <1>1, <1>2, <1>3, <1>4 DEF Fresh, Statuses
<1>5. CASE g = h /\ j = k
  BY <1>2, <1>5 DEF Fresh
<1>6. CASE g = h /\ j # k
  <2>1. rc'[h] = {e \in rc[h] : e.job # k} \cup {[job |-> k, ok |-> ok]}
    BY <1>1, <1>3
  <2>2. Statuses(h, j)' \subseteq Statuses(h, j)
    BY <1>6, <2>1 DEF Statuses
  <2> QED
    BY <1>2, <1>6, <2>2 DEF Fresh
<1> QED
  BY <1>4, <1>5, <1>6

\* Only the launch of a job makes a status of its old.
LEMMA FreshKept ==
    ASSUME Invs, LaunchesRun, [Next]_vars, NEW g \in Hosts, NEW j \in Jobs,
           Fresh(g, j)
    PROVE  Fresh(g, j)' \/ (Launch /\ j = job)
<1>1. CASE Launch
  <2>1. at \in Hosts /\ job \in Jobs
    BY <1>1, InHandItem DEF Invs, Launch, Holding
  <2>2. ScriptRuns(at, job) /\ Attempt(job)
    BY <1>1 DEF Launch, Fault, LaunchesRun
  <2>3. rc' = [rc EXCEPT ![at] = {e \in @ : e.job # job}]
        /\ current' = {p \in current : p[2] # job}
    BY <2>2 DEF ScriptRuns, Attempt
  <2>4. rc \in [Hosts -> SUBSET ExitStatus]
    BY Parts DEF Invs, WorkersOK
  <2>5. rc'[g] \subseteq rc[g]
    BY <2>1, <2>3, <2>4
  <2>6. Statuses(g, j)' \subseteq Statuses(g, j)
    BY <2>5 DEF Statuses
  <2>7. j # job /\ <<g, j>> \in current => <<g, j>> \in current'
    BY <2>3
  <2> QED
    BY <1>1, <2>6, <2>7 DEF Fresh
<1>2. CASE KillVictim
  <2>1. at \in Hosts
    BY <1>2, InHandItem DEF Invs, KillVictim, Holding
  <2>2. CASE Killed(at)
    BY <2>1, <2>2, KilledKeepsFresh DEF Invs
  <2>3. CASE UNCHANGED <<rc, current>>
    BY <2>3 DEF Fresh, Statuses
  <2> QED
    BY <1>2, <2>2, <2>3 DEF KillVictim
<1>3. CASE \E h \in Hosts, k \in Jobs : JobEnds(h, k)
  BY <1>3, EndsKeepFresh DEF Invs
<1>4. CASE UNCHANGED <<rc, current>>
  BY <1>4 DEF Fresh, Statuses
<1>5. CASE PollAndPrune
  BY <1>4, <1>5 DEF PollAndPrune, Start, Poll, PruneHost, PruneEnds,
                    SavePruned, FileCompleted, FileFailed
<1>6. CASE Dispatch
  BY <1>4, <1>6 DEF Dispatch, DequeueForHost, SkipHost, DispatchEnds
<1>7. CASE LaunchJob
  BY <1>1, <1>4, <1>7 DEF LaunchJob, StageNothing, StagePayload, StageFails,
              StageMissing, Verify, Track, RecordDead, RequeueBack, BenchLoad,
              BenchSave, RequeueFailed, DeferJob, FileStartFailure
<1>8. CASE Preempting
  BY <1>2, <1>4, <1>8 DEF Preempting, ChoosePreemption, ChooseNothing, Claim,
              ClaimNothing, StandDown, UntrackVictim, RequeueVictim
<1>9. CASE OpsStep
  BY <1>4, <1>9, NoRerun DEF OpsStep, Submit, Qdel, Clear, EnableHost,
              PopDeferred, DropDeferred, CommandDies, CommandFinishes,
              EnqueueMoving
<1>10. CASE \/ \E h \in Hosts : Reboot(h) \/ CooldownExpires(h)
            \/ UNCHANGED vars \/ Stop \/ Crash
  BY <1>4, <1>10 DEF Reboot, CooldownExpires, vars, Stop, Crash
<1> QED
  BY <1>3, <1>5, <1>6, <1>7, <1>8, <1>9, <1>10
     DEF Next, MonitorStep, WorkerStep

\* The launched job has no status left on the host it is launched on.
LEMMA LaunchIsFresh ==
    ASSUME Invs, LaunchesRun, Launch
    PROVE  Fresh(at, job)'
<1>1. at \in Hosts /\ job \in Jobs
  BY InHandItem DEF Invs, Launch, Holding
<1>2. ScriptRuns(at, job) /\ at' = at /\ hand' = hand
  BY DEF Launch, Fault, LaunchesRun
<1>3. rc' = [rc EXCEPT ![at] = {e \in @ : e.job # job}]
  BY <1>2 DEF ScriptRuns
<1>4. rc \in [Hosts -> SUBSET ExitStatus]
  BY Parts DEF Invs, WorkersOK
<1>5. rc'[at] = {e \in rc[at] : e.job # job}
  BY <1>1, <1>3, <1>4
<1>6. {e \in rc'[at] : e.job = job} = {}
  BY <1>5
<1>7. job' = job
  BY <1>2 DEF job
<1> QED
  BY <1>2, <1>6, <1>7 DEF Fresh, Statuses

-----------------------------------------------------------------------------
(* The histories rest on fresh statuses.                                   *)

FreshRecord == {r \in Record : r.fresh}

StatusInv ==
    /\ LaunchesRun
    /\ \A h \in Hosts : \A j \in JobsIn(running[h]) \cup JobsIn(tracked[h]) :
          Fresh(h, j)
    /\ mpc \in {"verify", "track", "outcome"} => Fresh(at, job)
    /\ completed \in Seq(FreshRecord) /\ failed \in Seq(FreshRecord)
    /\ done \in Seq(FreshRecord) /\ bad \in Seq(FreshRecord)

LEMMA FetchedIsFresh ==
    ASSUME NEW h, NEW j, NEW tracks, Fresh(h, j), NEW r \in Record,
           Fetched(r, h, j, tracks)
    PROVE  r \in FreshRecord
<1>1. CASE r = RecordWithout(j, tracks)
  BY <1>1 DEF RecordWithout, FreshRecord
<1>2. CASE r \in {RecordOf(h, e) : e \in Statuses(h, j)}
  <2>1. PICK e \in Statuses(h, j) : r = RecordOf(h, e)
    BY <1>2
  <2>2. e.job = j /\ <<h, j>> \in current
    BY DEF Statuses, Fresh
  <2> QED
    BY <2>1, <2>2 DEF RecordOf, FreshRecord
<1> QED
  BY <1>1, <1>2 DEF Fetched

LEMMA FilingKeepsFresh ==
    ASSUME failed \in Seq(FreshRecord), NEW r \in Seq(FreshRecord),
           FailedGrowsBy(r)
    PROVE  failed' \in Seq(FreshRecord)
<1> DEFINE all == failed \o r
           n == Len(all)
<1>1. all \in Seq(FreshRecord) /\ n \in Nat
  OBVIOUS
<1>2. failed' = Capped(all)
  BY DEF FailedGrowsBy
<1> HIDE DEF all
<1>3. MaxFailedRecords \in Nat \ {0}
  BY HostStateAssumption DEF HostStateAssumption
<1>4. CASE n <= MaxFailedRecords
  BY <1>1, <1>2, <1>4 DEF Capped
<1>5. CASE ~(n <= MaxFailedRecords)
  <2>1. n - MaxFailedRecords + 1 \in 1..n
    BY <1>1, <1>3, <1>5
  <2>2. failed' = SubSeq(all, n - MaxFailedRecords + 1, n)
    BY <1>2, <1>5 DEF Capped
  <2> QED
    BY <1>1, <2>1, <2>2
<1> QED
  BY <1>4, <1>5


\* Where a host's entry in the running maps comes from.
LEMMA EntriesChange ==
    ASSUME Invs, [Next]_vars, NEW h \in Hosts
    PROVE  \/ /\ running'[h] \in {running[h], tracked[h], <<>>}
              /\ tracked'[h] \in {running[h], tracked[h], <<>>}
           \/ Track /\ h = at
<1>0. running \in [Hosts -> Opt(Item)] /\ tracked \in [Hosts -> Opt(Item)]
  BY ItemLists DEF Invs
<1>1. CASE PollAndPrune
  BY <1>0, <1>1 DEF PollAndPrune, Start, Poll, PruneHost, PruneEnds,
                    SavePruned, FileCompleted, FileFailed
<1>2. CASE Dispatch
  BY <1>2 DEF Dispatch, DequeueForHost, SkipHost, DispatchEnds
<1>3. CASE LaunchJob
  <2>1. CASE Track
    <3>1. CASE h = at
      BY <2>1, <3>1
    <3>2. CASE h # at
      BY <1>0, <2>1, <3>2 DEF Track
    <3> QED
      BY <3>1, <3>2
  <2>2. CASE ~Track
    BY <1>3, <2>2 DEF LaunchJob, StageNothing, StagePayload, StageFails,
              StageMissing, Launch, Verify, RecordDead, RequeueBack, BenchLoad,
              BenchSave, RequeueFailed, DeferJob, FileStartFailure
  <2> QED
    BY <2>1, <2>2
<1>4. CASE Preempting
  BY <1>0, <1>4 DEF Preempting, ChoosePreemption, ChooseNothing, Claim,
              ClaimNothing, KillVictim, StandDown, UntrackVictim, RequeueVictim
<1>5. CASE OpsStep
  BY <1>5, NoRerun DEF OpsStep, Submit, Qdel, Clear, EnableHost,
              PopDeferred, DropDeferred, CommandDies, CommandFinishes,
              EnqueueMoving
<1>6. CASE \/ WorkerStep \/ UNCHANGED vars
           \/ \E g \in Hosts : CooldownExpires(g)
  BY <1>6 DEF WorkerStep, JobEnds, Reboot, CooldownExpires, vars
<1>7. CASE Stop \/ Crash
  BY <1>7 DEF Stop, Crash, MemoryLost
<1> QED
  BY <1>1, <1>2, <1>3, <1>4, <1>5, <1>6, <1>7 DEF Next, MonitorStep

\* What a job's host then tracks is the item in hand.
LEMMA TrackEntry ==
    ASSUME Invs, Track
    PROVE  /\ at \in Hosts /\ job \in Jobs
           /\ JobsIn(tracked'[at]) = {job} /\ JobsIn(running'[at]) = {job}
<1> DEFINE x == [hand[1] EXCEPT !.preempt = FALSE, !.fails = 0,
                                !.resume = NoHost]
<1>1. mpc = "track" /\ tracked' = [tracked EXCEPT ![at] = <<x>>]
      /\ running' = tracked'
  BY DEF Track
<1>2. hand[1] \in Item /\ job \in Jobs /\ at \in Hosts
  BY <1>1, InHandItem DEF Invs, Holding
<1>3. x.job = job
  BY <1>2 DEF Item, job
<1>4. tracked \in [Hosts -> Opt(Item)]
  BY ItemLists DEF Invs
<1> HIDE DEF x
<1>5. tracked'[at] = <<x>> /\ running'[at] = <<x>>
  BY <1>1, <1>2, <1>4
<1>6. JobsIn(<<x>>) = {x.job}
  BY JobsInOne
<1> QED
  BY <1>2, <1>3, <1>5, <1>6

LEMMA RunningStaysFresh ==
    ASSUME Invs, StatusInv, [Next]_vars, NEW h \in Hosts,
           NEW j \in JobsIn(running'[h]) \cup JobsIn(tracked'[h])
    PROVE  Fresh(h, j)'
<1>1. CASE Track /\ h = at
  <2>1. j = job /\ job \in Jobs
    BY <1>1, TrackEntry
  <2>2. Fresh(at, job)
    BY <1>1 DEF StatusInv, Track
  <2>3. UNCHANGED <<rc, current>>
    BY <1>1 DEF Track
  <2> QED
    BY <1>1, <2>1, <2>2, <2>3 DEF Fresh, Statuses
<1>2. CASE ~(Track /\ h = at)
  <2>1. j \in JobsIn(running[h]) \cup JobsIn(tracked[h])
    BY <1>2, EntriesChange, JobsInNone
  <2>2. Fresh(h, j)
    BY <2>1 DEF StatusInv
  <2>3. j \in Jobs
    <3>1. running[h] \in Seq(Item) /\ tracked[h] \in Seq(Item)
      BY ItemLists DEF Invs, Opt
    <3> QED
      BY <2>1, <3>1, JobsOfItems
  <2>4. CASE Launch /\ j = job
    <3>1. j \notin OnHosts(running) /\ j \notin OnHosts(tracked)
      BY <2>4, InHandOnly DEF Launch, Holding
    <3> QED
      BY <2>1, <3>1 DEF OnHosts
  <2> QED
    BY <2>2, <2>3, <2>4, FreshKept DEF StatusInv
<1> QED
  BY <1>1, <1>2

\* The attempt that is being verified.
LEMMA AttemptStaysFresh ==
    ASSUME Invs, StatusInv, [Next]_vars,
           mpc' \in {"verify", "track", "outcome"}
    PROVE  Fresh(at, job)'
<1>1. CASE Launch
  BY <1>1, LaunchIsFresh DEF StatusInv
<1>2. CASE ~Launch
  <2>1. /\ mpc \in {"verify", "track", "outcome"}
        /\ at' = at /\ hand' = hand
    <3>1. CASE PollAndPrune
      BY <3>1 DEF PollAndPrune, Start, Poll, PruneHost, PruneEnds, SavePruned,
                  FileCompleted, FileFailed, Goto
    <3>2. CASE Dispatch
      BY <3>2 DEF Dispatch, DequeueForHost, SkipHost, DispatchEnds, Goto
    <3>3. CASE LaunchJob
      BY <1>2, <3>3 DEF LaunchJob, StageNothing, StagePayload, StageFails,
              StageMissing, Verify, Track, RecordDead, RequeueBack, BenchLoad,
              BenchSave, RequeueFailed, DeferJob, FileStartFailure, Goto,
              AfterLaunch
    <3>4. CASE Preempting
      BY <3>4 DEF Preempting, ChoosePreemption, ChooseNothing, Claim, Goto,
              ClaimNothing, KillVictim, StandDown, UntrackVictim, RequeueVictim
    <3>5. CASE OpsStep
      BY <3>5, NoRerun DEF OpsStep, Submit, Qdel, Clear, EnableHost,
              PopDeferred, DropDeferred, CommandDies, CommandFinishes,
              EnqueueMoving
    <3>6. CASE \/ WorkerStep \/ UNCHANGED vars
               \/ \E g \in Hosts : CooldownExpires(g)
      BY <3>6 DEF WorkerStep, JobEnds, Reboot, CooldownExpires, vars
    <3>7. CASE Stop \/ Crash
      BY <3>7 DEF Stop, Crash, Goto
    <3> QED
      BY <3>1, <3>2, <3>3, <3>4, <3>5, <3>6, <3>7 DEF Next, MonitorStep
  <2>2. Fresh(at, job) /\ at \in Hosts /\ job \in Jobs
    BY <2>1, InHandItem DEF StatusInv, Invs, Holding
  <2>3. PICK g \in Hosts, j \in Jobs : g = at /\ j = job
    BY <2>2
  <2>4. Fresh(g, j)'
    BY <1>2, <2>2, <2>3, FreshKept DEF StatusInv
  <2>5. at' = g /\ job' = j
    BY <2>1, <2>3 DEF job
  <2> QED
    BY <2>4, <2>5 DEF Fresh, Statuses
<1> QED
  BY <1>1, <1>2

LEMMA HistoriesStayFresh ==
    ASSUME Invs, StatusInv, [Next]_vars
    PROVE  /\ completed' \in Seq(FreshRecord) /\ failed' \in Seq(FreshRecord)
           /\ done' \in Seq(FreshRecord) /\ bad' \in Seq(FreshRecord)
<1>0. /\ completed \in Seq(FreshRecord) /\ failed \in Seq(FreshRecord)
      /\ done \in Seq(FreshRecord) /\ bad \in Seq(FreshRecord)
      /\ <<>> \in Seq(FreshRecord)
  BY DEF StatusInv
<1>1. CASE PollAndPrune
  <2>1. ASSUME NEW h \in Hosts, PruneHost(h)
        PROVE  done' \in Seq(FreshRecord) /\ bad' \in Seq(FreshRecord)
    <3>1. PICK r \in Record :
            Fetched(r, h, tracked[h][1].job, h \in wrapped) /\ Collect(r)
      BY <2>1 DEF PruneHost
    <3>2. tracked[h] = <<tracked[h][1]>>
      BY <2>1, ItemLists, OptOne DEF PruneHost, Invs
    <3>3. tracked[h][1].job \in JobsIn(tracked[h])
      BY <3>2, JobsInOne
    <3>4. Fresh(h, tracked[h][1].job)
      BY <3>3 DEF StatusInv
    <3>5. r \in FreshRecord
      BY <3>1, <3>4, FetchedIsFresh
    <3> QED
      BY <1>0, <3>1, <3>5, AppendType DEF Collect
  <2>2. CASE \E h \in Hosts : PruneHost(h)
    BY <1>0, <2>1, <2>2 DEF PruneHost
  <2>3. CASE FileCompleted
    <3>1. completed' = completed \o done /\ done' = <<>>
          /\ failed' = failed /\ bad' = bad
      BY <2>3 DEF FileCompleted
    <3> QED
      BY <1>0, <3>1
  <2>4. CASE FileFailed
    <3>1. FailedGrowsBy(bad) /\ bad' = <<>>
          /\ completed' = completed /\ done' = done
      BY <2>4 DEF FileFailed
    <3> QED
      BY <1>0, <3>1, FilingKeepsFresh
  <2>5. CASE Start \/ Poll \/ PruneEnds \/ SavePruned
    BY <1>0, <2>5 DEF Start, Poll, PruneEnds, SavePruned
  <2> QED
    BY <1>1, <2>2, <2>3, <2>4, <2>5 DEF PollAndPrune
<1>2. CASE Dispatch
  BY <1>0, <1>2 DEF Dispatch, DequeueForHost, SkipHost, DispatchEnds
<1>3. CASE LaunchJob
  <2>1. CASE RecordDead
    <3>1. PICK r \in Record :
            /\ Fetched(r, at, job, TRUE)
            /\ completed' = IF Success(r) THEN Append(completed, r) ELSE completed
            /\ FailedGrowsBy(IF Success(r) THEN <<>> ELSE <<r>>)
      BY <2>1 DEF RecordDead
    <3>2. Fetched(r, at, job, TRUE)
      BY <3>1
    <3>3. Fresh(at, job)
      BY <2>1 DEF StatusInv, RecordDead
    <3>4. r \in FreshRecord
      BY <3>2, <3>3, FetchedIsFresh
    <3> DEFINE t == IF Success(r) THEN <<>> ELSE <<r>>
    <3>5. t \in Seq(FreshRecord) /\ FailedGrowsBy(t)
      BY <3>1, <3>4
    <3> HIDE DEF t
    <3>6. failed' \in Seq(FreshRecord)
      BY <1>0, <3>5, FilingKeepsFresh
    <3>7. completed' \in Seq(FreshRecord)
      BY <1>0, <3>1, <3>4, AppendType
    <3> QED
      BY <1>0, <2>1, <3>6, <3>7 DEF RecordDead
  <2>2. CASE FileStartFailure
    <3> DEFINE r == [job |-> job, fresh |-> TRUE, status |-> "start_failed"]
    <3>1. r \in FreshRecord
      BY <2>2, InHandItem
         DEF FileStartFailure, Invs, Holding, Record, FreshRecord
    <3>2. FailedGrowsBy(<<r>>)
      BY <2>2 DEF FileStartFailure
    <3> HIDE DEF r
    <3>3. <<r>> \in Seq(FreshRecord)
      BY <3>1
    <3>4. failed' \in Seq(FreshRecord)
      BY <1>0, <3>2, <3>3, FilingKeepsFresh
    <3> QED
      BY <1>0, <2>2, <3>4 DEF FileStartFailure
  <2>3. CASE ~RecordDead /\ ~FileStartFailure
    BY <1>0, <1>3, <2>3 DEF LaunchJob, StageNothing, StagePayload, StageFails,
              StageMissing, Launch, Verify, Track, RequeueBack, BenchLoad,
              BenchSave, RequeueFailed, DeferJob
  <2> QED
    BY <2>1, <2>2, <2>3
<1>4. CASE Preempting
  BY <1>0, <1>4 DEF Preempting, ChoosePreemption, ChooseNothing, Claim,
              ClaimNothing, KillVictim, StandDown, UntrackVictim, RequeueVictim
<1>5. CASE OpsStep
  BY <1>0, <1>5, NoRerun DEF OpsStep, Submit, Qdel, Clear, EnableHost,
              PopDeferred, DropDeferred, CommandDies, CommandFinishes,
              EnqueueMoving
<1>6. CASE \/ WorkerStep \/ UNCHANGED vars
           \/ \E g \in Hosts : CooldownExpires(g)
  BY <1>0, <1>6 DEF WorkerStep, JobEnds, Reboot, CooldownExpires, vars
<1>7. CASE Stop \/ Crash
  BY <1>0, <1>7 DEF Stop, Crash, MemoryLost
<1> QED
  BY <1>1, <1>2, <1>3, <1>4, <1>5, <1>6, <1>7 DEF Next, MonitorStep

LEMMA StepStatus == Invs /\ StatusInv /\ [Next]_vars => StatusInv'
<1> SUFFICES ASSUME Invs, StatusInv, [Next]_vars PROVE StatusInv'
  OBVIOUS
<1>1. LaunchesRun'
  BY DEF StatusInv, LaunchesRun
<1> QED
  BY <1>1, RunningStaysFresh, AttemptStaysFresh, HistoriesStayFresh
     DEF StatusInv

\* A job's recorded outcome rests on a status its latest attempt left, or on
\* none: "A stale status from the previous attempt must not be read back as
\* this attempt's outcome" (job_control.py).  The launch script is what
\* removes the old status, so every launch SSH is taken to run it.
THEOREM StatusesAreFresh ==
    NothingRequeuedByHand /\ LaunchesRun => (Spec => []StatusIsThisAttempts)
<1>1. LaunchesRun /\ Init => StatusInv
  <2> SUFFICES ASSUME LaunchesRun, Init PROVE StatusInv
    OBVIOUS
  <2>1. /\ completed = <<>> /\ failed = <<>> /\ done = <<>> /\ bad = <<>>
        /\ \A h \in Hosts : running[h] = <<>> /\ tracked[h] = <<>>
        /\ mpc = "down"
    BY DEF Init
  <2>2. <<>> \in Seq(FreshRecord)
    OBVIOUS
  <2> QED
    BY <2>1, <2>2, JobsInNone DEF StatusInv
<1>2. Invs /\ StatusInv /\ [Next]_vars => StatusInv'
  BY StepStatus
<1>3. StatusInv => StatusIsThisAttempts
  <2> SUFFICES ASSUME StatusInv,
                      NEW s \in {completed, failed, done, bad}, NEW i \in DOMAIN s
               PROVE  s[i].fresh
    BY DEF StatusIsThisAttempts
  <2>1. s \in Seq(FreshRecord)
    BY DEF StatusInv
  <2>2. s[i] \in FreshRecord
    BY <2>1
  <2> QED
    BY <2>2 DEF FreshRecord
<1> QED
  BY <1>1, <1>2, <1>3, OneInvariant, PTL DEF Spec


-----------------------------------------------------------------------------
(* Processes on the workers.                                               *)

\* A probe that answers tells the truth: a busy host does not read as idle
\* and a live process does not read as dead.  (A host that does not answer
\* reads as down, and is left alone.)
ProbesTell == {"misread", "probe", "psprobe"} \cap Faults = {}

\* The process on a host is that of its newest pidfile.
Newest ==
    \A h \in Hosts :
        procs[h] # {} => pids[h] # <<>> /\ procs[h] = {pids[h][Len(pids[h])]}

\* Hosts the monitor takes for idle are idle until it launches there.
IdleInv ==
    /\ \A h \in todo : procs[h] = {}
    /\ mpc = "prune" => \A h \in Hosts : view[h] = "idle" => procs[h] = {}
    /\ mpc \in {"prune", "save"}
          => \A h \in Hosts : running[h] # tracked[h] => procs[h] = {}
    /\ mpc \in {"untrack", "resume", "stage", "launch"} => procs[at] = {}
    /\ mpc \in {"verify", "track"} => procs[at] \subseteq {job}

\* What the process of j on h says of j: it is the queue's, it runs nowhere
\* else, and the monitor tracks it, is about to, or died before it could.
Lives(h, j) ==
    /\ j \in submitted \ withdrawn
    /\ \A g \in Hosts : j \in procs[g] => g = h
    /\ \/ j \in JobsIn(RunningMap[h])
       \/ mpc \in {"verify", "track"} /\ h = at /\ j = job
       \/ j \in dropped /\ RunningMap[h] = <<>>

RunsInv ==
    /\ ProbesTell
    /\ Newest
    /\ IdleInv
    /\ \A h \in Hosts : \A j \in procs[h] : Lives(h, j)
    /\ mpc = "down" => \A h \in Hosts : tracked[h] = <<>>

LEMMA KilledEnds ==
    ASSUME TypeInv, NEW h \in Hosts, Killed(h), NEW g \in Hosts
    PROVE  /\ procs'[h] = {}
           /\ g # h => procs'[g] = procs[g] /\ pids'[g] = pids[g]
<1>1. /\ procs' = [procs EXCEPT ![h] = {}]
      /\ \E left \in Without(pids[h], procs[h]) :
            pids' = [pids EXCEPT ![h] = left]
  BY DEF Killed
<1>2. procs \in [Hosts -> SUBSET Jobs] /\ pids \in [Hosts -> Seq(Jobs)]
  BY Parts DEF WorkersOK
<1> QED
  BY <1>1, <1>2

\* Processes only end, but where a job is launched.
LEMMA ProcsChange ==
    ASSUME Invs, Newest, [Next]_vars, NEW h \in Hosts
    PROVE  \/ procs'[h] = {}
           \/ procs'[h] = procs[h] /\ pids'[h] = pids[h]
           \/ Launch /\ h = at /\ ScriptRuns(at, job)
<1>0. procs \in [Hosts -> SUBSET Jobs] /\ pids \in [Hosts -> Seq(Jobs)]
  BY Parts DEF Invs, WorkersOK
<1>1. CASE Launch
  <2>1. at \in Hosts
    BY <1>1, InHandItem DEF Invs, Launch, Holding
  <2>2. CASE ScriptRuns(at, job)
    <3>1. CASE h = at
      BY <1>1, <2>2, <3>1
    <3>2. CASE h # at
      BY <1>0, <2>1, <2>2, <3>2 DEF ScriptRuns
    <3> QED
      BY <3>1, <3>2
  <2>3. CASE ~ScriptRuns(at, job)
    BY <1>1, <2>3 DEF Launch
  <2> QED
    BY <2>2, <2>3
<1>2. CASE KillVictim
  <2>1. at \in Hosts
    BY <1>2, InHandItem DEF Invs, KillVictim, Holding
  <2>2. CASE Killed(at)
    BY <2>1, <2>2, KilledEnds DEF Invs
  <2>3. CASE UNCHANGED <<procs, pids>>
    BY <2>3
  <2> QED
    BY <1>2, <2>2, <2>3 DEF KillVictim
<1>3. ASSUME NEW g \in Hosts, NEW k \in Jobs, JobEnds(g, k)
      PROVE  procs'[h] = {} \/ (procs'[h] = procs[h] /\ pids'[h] = pids[h])
  <2>1. procs' = [procs EXCEPT ![g] = @ \ {k}] /\ pids' = pids /\ k \in procs[g]
    BY <1>3 DEF JobEnds
  <2>2. procs[g] = {k}
    BY <2>1 DEF Newest
  <2> QED
    BY <1>0, <2>1, <2>2
<1>4. ASSUME NEW g \in Hosts, Reboot(g)
      PROVE  procs'[h] = {} \/ (procs'[h] = procs[h] /\ pids'[h] = pids[h])
  BY <1>0, <1>4 DEF Reboot
<1>5. CASE UNCHANGED <<procs, pids>>
  BY <1>5
<1>6. CASE PollAndPrune
  BY <1>5, <1>6 DEF PollAndPrune, Start, Poll, PruneHost, PruneEnds,
                    SavePruned, FileCompleted, FileFailed
<1>7. CASE Dispatch
  BY <1>5, <1>7 DEF Dispatch, DequeueForHost, SkipHost, DispatchEnds
<1>8. CASE LaunchJob
  BY <1>1, <1>5, <1>8 DEF LaunchJob, StageNothing, StagePayload, StageFails,
              StageMissing, Verify, Track, RecordDead, RequeueBack, BenchLoad,
              BenchSave, RequeueFailed, DeferJob, FileStartFailure
<1>9. CASE Preempting
  BY <1>2, <1>5, <1>9 DEF Preempting, ChoosePreemption, ChooseNothing, Claim,
              ClaimNothing, StandDown, UntrackVictim, RequeueVictim
<1>10. CASE OpsStep
  BY <1>5, <1>10, NoRerun DEF OpsStep, Submit, Qdel, Clear, EnableHost,
              PopDeferred, DropDeferred, CommandDies, CommandFinishes,
              EnqueueMoving
<1>11. CASE \/ \E g \in Hosts : CooldownExpires(g)
            \/ UNCHANGED vars \/ Stop \/ Crash
  BY <1>5, <1>11 DEF CooldownExpires, vars, Stop, Crash
<1> QED
  BY <1>3, <1>4, <1>6, <1>7, <1>8, <1>9, <1>10, <1>11
     DEF Next, MonitorStep, WorkerStep

\* The launch script leaves the job's process, with the newest pidfile.
LEMMA LaunchRuns ==
    ASSUME Invs, RunsInv, Launch, ScriptRuns(at, job)
    PROVE  /\ at \in Hosts /\ job \in Jobs
           /\ procs'[at] = {job}
           /\ pids'[at] # <<>> /\ pids'[at][Len(pids'[at])] = job
<1>1. at \in Hosts /\ job \in Jobs
  BY InHandItem DEF Invs, Launch, Holding
<1>2. procs \in [Hosts -> SUBSET Jobs] /\ pids \in [Hosts -> Seq(Jobs)]
  BY Parts DEF Invs, WorkersOK
<1>3. procs[at] = {}
  BY DEF RunsInv, IdleInv, Launch
<1>4. procs'[at] = {job}
  BY <1>1, <1>2, <1>3 DEF ScriptRuns
<1>5. PICK left \in Without(pids[at], {job}) :
        pids' = [pids EXCEPT ![at] = Append(left, job)]
  BY DEF ScriptRuns
<1>6. left \in Seq(Jobs)
  BY <1>1, <1>2, WithoutType
<1> DEFINE new == Append(left, job)
<1>7. new # <<>> /\ new[Len(new)] = job
  BY <1>1, <1>6
<1>8. pids'[at] = new
  BY <1>1, <1>2, <1>5
<1> HIDE DEF new
<1> QED
  BY <1>1, <1>4, <1>7, <1>8

LEMMA NewestStays ==
    ASSUME Invs, RunsInv, [Next]_vars
    PROVE  Newest'
<1> SUFFICES ASSUME NEW h \in Hosts, procs'[h] # {}
             PROVE  pids'[h] # <<>> /\ procs'[h] = {pids'[h][Len(pids'[h])]}
  BY DEF Newest
<1>1. CASE procs'[h] = procs[h] /\ pids'[h] = pids[h]
  BY <1>1 DEF RunsInv, Newest
<1>2. CASE Launch /\ h = at /\ ScriptRuns(at, job)
  BY <1>2, LaunchRuns
<1> QED
  BY <1>1, <1>2, ProcsChange DEF RunsInv

\* A host without processes stays so until something is launched there.
LEMMA IdleStays ==
    ASSUME Invs, RunsInv, [Next]_vars, NEW h \in Hosts, procs[h] = {},
           ~Launch \/ h # at
    PROVE  procs'[h] = {}
BY ProcsChange DEF RunsInv

LEMMA NewestIsBusy ==
    ASSUME Newest, NEW h \in Hosts, ~Busy(h)
    PROVE  procs[h] = {}
BY DEF Newest, Busy

\* The poll sees idle hosts as they are.
LEMMA PollSees ==
    ASSUME TypeInv, Newest, ProbesTell, Poll, NEW h \in Hosts,
           view'[h] = "idle"
    PROVE  procs[h] = {}
<1>1. ~Busy(h)
  <2>1. CASE view' = Truth
    BY <2>1 DEF Truth
  <2>2. CASE \E g \in Hosts : view' = [Truth EXCEPT ![g] = "down"]
    BY <2>2 DEF Truth
  <2>3. ~Fault({"misread"})
    BY DEF Fault, ProbesTell
  <2> QED
    BY <2>1, <2>2, <2>3 DEF Poll
<1> QED
  BY <1>1, NewestIsBusy


\* How the monitor comes to where it relies on a host being idle.
LEMMA Arrivals ==
    ASSUME Invs, [Next]_vars
    PROVE  /\ todo' \subseteq todo \/ Poll
           /\ mpc' = "prune" => Poll \/ (mpc = "prune" /\ view' = view)
           /\ mpc' \in {"prune", "save"}
                => \/ Poll
                   \/ /\ mpc \in {"prune", "save"} /\ running' = running
                      /\ tracked' = tracked \/ \E h \in Hosts : PruneHost(h)
           /\ mpc' \in {"untrack", "resume", "stage", "launch"}
                => \/ \E h \in Hosts : DequeueForHost(h)
                   \/ KillVictim /\ Killed(at) /\ at' = at
                   \/ /\ mpc \in {"untrack", "resume", "stage", "launch"}
                      /\ at' = at /\ ~Launch
           /\ mpc' \in {"verify", "track"}
                => \/ Launch
                   \/ /\ mpc \in {"verify", "track"} /\ ~Launch
                      /\ at' = at /\ hand' = hand
           /\ mpc' = "down" => Stop \/ Crash \/ (mpc = "down" /\ tracked' = tracked)
<1>1. CASE PollAndPrune
  BY <1>1 DEF PollAndPrune, Start, Poll, PruneHost, PruneEnds, SavePruned,
              FileCompleted, FileFailed, Goto, Launch
<1>2. CASE Dispatch
  <2>1. CASE \E h \in Hosts : DequeueForHost(h)
    BY <2>1 DEF DequeueForHost, Goto
  <2>2. CASE DispatchEnds \/ \E h \in Hosts : SkipHost(h)
    BY <2>2 DEF SkipHost, DispatchEnds, Goto
  <2> QED
    BY <1>2, <2>1, <2>2 DEF Dispatch
<1>3. CASE LaunchJob
  <2>1. CASE Launch
    BY <2>1 DEF Launch, Goto
  <2>2. CASE StageNothing \/ StagePayload \/ StageFails \/ StageMissing \/ Verify
    BY <2>2 DEF StageNothing, StagePayload, StageFails, StageMissing, Verify,
                Goto, Launch
  <2>3. CASE Track \/ RecordDead \/ RequeueBack \/ BenchLoad \/ BenchSave
                \/ RequeueFailed \/ DeferJob \/ FileStartFailure
    BY <2>3 DEF Track, RecordDead, RequeueBack, BenchLoad, BenchSave,
                RequeueFailed, DeferJob, FileStartFailure, Goto, AfterLaunch
  <2> QED
    BY <1>3, <2>1, <2>2, <2>3 DEF LaunchJob
<1>4. CASE Preempting
  <2>1. CASE KillVictim
    BY <2>1 DEF KillVictim, Goto
  <2>2. CASE ~KillVictim
    BY <1>4, <2>2 DEF Preempting, ChoosePreemption, ChooseNothing, Claim, Goto,
              ClaimNothing, StandDown, UntrackVictim, RequeueVictim, Launch
  <2> QED
    BY <2>1, <2>2
<1>5. CASE OpsStep
  <2>1. UNCHANGED memory /\ UNCHANGED running /\ ~Launch
    <3>1. UNCHANGED memory /\ UNCHANGED running
      BY <1>5, NoRerun DEF OpsStep, Submit, Qdel, Clear, EnableHost,
              PopDeferred, DropDeferred, CommandDies, CommandFinishes,
              EnqueueMoving
    <3> QED
      BY <3>1 DEF Launch, Goto
  <2> QED
    BY <2>1
<1>6. CASE \/ WorkerStep \/ UNCHANGED vars
           \/ \E g \in Hosts : CooldownExpires(g)
  BY <1>6 DEF WorkerStep, JobEnds, Reboot, CooldownExpires, vars, Launch, Goto
<1>7. CASE Stop \/ Crash
  BY <1>7 DEF Stop, Crash, Goto, MemoryLost
<1> QED
  BY <1>1, <1>2, <1>3, <1>4, <1>5, <1>6, <1>7 DEF Next, MonitorStep

LEMMA StepIdle ==
    ASSUME Invs, RunsInv, [Next]_vars
    PROVE  IdleInv'
<1>0. Invs /\ TypeInv /\ Newest /\ ProbesTell /\ HandsInv /\ DiskInv
  BY DEF Invs, RunsInv
<1>1. ASSUME NEW h \in todo' PROVE procs'[h] = {}
  <2>1. CASE Poll
    <3>1. h \in Hosts /\ view'[h] = "idle" /\ procs' = procs
      BY <1>1, <2>1 DEF Poll
    <3> QED
      BY <1>0, <2>1, <3>1, PollSees
  <2>2. CASE h \in todo
    <3>1. h \in Hosts /\ procs[h] = {}
      BY <2>2, Parts DEF RunsInv, IdleInv, Invs, MemoryOK
    <3>2. Launch => h # at
      BY <2>2 DEF Invs, HandsInv, Launch, AboutHost, Holding
    <3> QED
      BY <3>1, <3>2, IdleStays
  <2> QED
    BY <1>1, <2>1, <2>2, Arrivals
<1>2. ASSUME mpc' = "prune", NEW h \in Hosts, view'[h] = "idle"
      PROVE  procs'[h] = {}
  <2>1. CASE Poll
    BY <1>0, <1>2, <2>1, PollSees DEF Poll
  <2>2. CASE mpc = "prune" /\ view' = view
    <3>1. procs[h] = {} /\ ~Launch
      BY <1>2, <2>2 DEF RunsInv, IdleInv, Launch
    <3> QED
      BY <3>1, IdleStays
  <2> QED
    BY <1>2, <2>1, <2>2, Arrivals
<1>3. ASSUME mpc' \in {"prune", "save"}, NEW h \in Hosts,
             running'[h] # tracked'[h]
      PROVE  procs'[h] = {}
  <2>1. CASE Poll
    <3>1. running[h] = tracked[h]
      BY <2>1 DEF Invs, DiskInv, DiskFollowsMemory, Poll
    <3> QED
      BY <1>3, <2>1, <3>1 DEF Poll
  <2>2. CASE mpc \in {"prune", "save"} /\ running' = running /\ tracked' = tracked
    <3>1. procs[h] = {} /\ ~Launch
      BY <1>3, <2>2 DEF RunsInv, IdleInv, Launch
    <3> QED
      BY <3>1, IdleStays
  <2>3. ASSUME NEW g \in Hosts, PruneHost(g), running' = running
        PROVE  procs'[h] = {}
    <3>1. CASE h = g
      BY <2>3, <3>1 DEF PruneHost, RunsInv, IdleInv
    <3>2. CASE h # g
      <4>1. tracked'[h] = tracked[h] /\ procs' = procs /\ mpc = "prune"
        BY <2>3, <3>2, ItemLists DEF PruneHost, Invs
      <4> QED
        BY <1>3, <2>3, <4>1 DEF RunsInv, IdleInv
    <3> QED
      BY <3>1, <3>2
  <2> QED
    BY <1>3, <2>1, <2>2, <2>3, Arrivals
<1>4. ASSUME mpc' \in {"untrack", "resume", "stage", "launch"}
      PROVE  procs'[at'] = {}
  <2>1. ASSUME NEW h \in Hosts, DequeueForHost(h) PROVE procs'[at'] = {}
    BY <2>1 DEF DequeueForHost, NextHost, RunsInv, IdleInv
  <2>2. CASE KillVictim /\ Killed(at) /\ at' = at
    <3>1. at \in Hosts
      BY <2>2, InHandItem DEF Invs, KillVictim, Holding
    <3> QED
      BY <1>0, <2>2, <3>1, KilledEnds
  <2>3. CASE /\ mpc \in {"untrack", "resume", "stage", "launch"}
             /\ at' = at /\ ~Launch
    <3>1. procs[at] = {} /\ at \in Hosts
      BY <2>3, InHandItem DEF RunsInv, IdleInv, Invs, Holding
    <3>2. PICK g \in Hosts : g = at
      BY <3>1
    <3> QED
      BY <2>3, <3>1, <3>2, IdleStays
  <2> QED
    BY <1>4, <2>1, <2>2, <2>3, Arrivals
<1>5. ASSUME mpc' \in {"verify", "track"} PROVE procs'[at'] \subseteq {job'}
  <2>1. CASE Launch
    <3>1. at' = at /\ job' = job
      BY <2>1 DEF Launch, job
    <3>2. CASE ScriptRuns(at, job)
      BY <2>1, <3>1, <3>2, LaunchRuns
    <3>3. CASE procs' = procs
      BY <2>1, <3>1, <3>3 DEF RunsInv, IdleInv, Launch
    <3> QED
      BY <2>1, <3>2, <3>3 DEF Launch
  <2>2. CASE /\ mpc \in {"verify", "track"} /\ ~Launch
             /\ at' = at /\ hand' = hand
    <3>1. procs[at] \subseteq {job} /\ at \in Hosts /\ job' = job
      BY <2>2, InHandItem DEF RunsInv, IdleInv, Invs, Holding, job
    <3>2. PICK g \in Hosts : g = at
      BY <3>1
    <3>3. procs'[g] = {} \/ procs'[g] = procs[g]
      BY <1>0, <2>2, ProcsChange
    <3> QED
      BY <2>2, <3>1, <3>2, <3>3
  <2> QED
    BY <1>5, <2>1, <2>2, Arrivals
<1> QED
  BY <1>1, <1>2, <1>3, <1>4, <1>5 DEF IdleInv


\* A job with a live process is not waiting, moving, recorded or deleted, and
\* it is in the monitor's hands only while its launch is verified.
LEMMA LivesElsewhere ==
    ASSUME Invs, RunsInv, NEW h \in Hosts, NEW j \in procs[h]
    PROVE  /\ j \in Jobs /\ Lives(h, j)
           /\ j \notin JobsIn(queue) /\ j \notin JobsIn(deferred)
           /\ j \notin JobsIn(moving) /\ j \notin JobsIn(held)
           /\ j \notin JobsIn(done) /\ j \notin JobsIn(bad)
           /\ j \notin EndedIn(completed) /\ j \notin EndedIn(failed)
           /\ j \in JobsIn(InHand) => mpc \in {"verify", "track"}
<1>1. j \in Jobs /\ Lives(h, j)
  BY Parts DEF Invs, WorkersOK, RunsInv
<1>2. CASE j \in JobsIn(RunningMap[h])
  BY <1>1, <1>2, RunningOnly
<1>3. CASE mpc \in {"verify", "track"} /\ j = job
  BY <1>1, <1>3, InHandOnly DEF Holding
<1>4. CASE j \in dropped
  BY <1>1, <1>4, GoneOnly DEF Gone, OnDisk, InMemory
<1> QED
  BY <1>1, <1>2, <1>3, <1>4 DEF Lives

\* A job that has a process has had it, or was just launched.
LEMMA OldOrLaunched ==
    ASSUME Invs, RunsInv, [Next]_vars, NEW h \in Hosts, NEW j \in procs'[h]
    PROVE  \/ j \in procs[h] /\ ~(Launch /\ h = at)
           \/ Launch /\ h = at /\ j = job
<1>1. CASE Launch /\ h = at /\ ScriptRuns(at, job)
  BY <1>1, LaunchRuns
<1>2. CASE Launch /\ h = at /\ procs'[h] = procs[h]
  BY <1>2 DEF RunsInv, IdleInv, Launch
<1>3. CASE ~(Launch /\ h = at) /\ procs'[h] = procs[h]
  BY <1>3
<1> QED
  BY <1>1, <1>2, <1>3, ProcsChange DEF RunsInv

\* The job being launched has no process anywhere.
LEMMA LaunchedHasNone ==
    ASSUME Invs, RunsInv, Launch, NEW g \in Hosts
    PROVE  job \notin procs[g]
<1>1. mpc = "launch"
  BY DEF Launch
<1>2. job \in JobsIn(InHand)
  BY <1>1, InHandOnly DEF Holding
<1> QED
  BY <1>1, <1>2, LivesElsewhere

LEMMA OnlyOneHost ==
    ASSUME Invs, RunsInv, [Next]_vars, NEW h \in Hosts, NEW g \in Hosts,
           NEW j, j \in procs'[h], j \in procs'[g]
    PROVE  g = h
<1>1. CASE j \in procs[h] /\ j \in procs[g]
  BY <1>1 DEF RunsInv, Lives
<1>2. CASE Launch /\ j = job
  <2>1. j \notin procs[h] /\ j \notin procs[g]
    BY <1>2, LaunchedHasNone
  <2> QED
    BY <2>1, OldOrLaunched
<1> QED
  BY <1>1, <1>2, OldOrLaunched

\* Operators delete only what waits.
LEMMA WithdrawnWaited ==
    ASSUME Invs, [Next]_vars
    PROVE  /\ withdrawn' \subseteq withdrawn \cup JobsIn(queue)
                                     \cup JobsIn(deferred)
           /\ dropped \subseteq dropped'
<1>1. CASE PollAndPrune
  BY <1>1 DEF PollAndPrune, Start, Poll, PruneHost, PruneEnds, SavePruned,
              FileCompleted, FileFailed
<1>2. CASE Dispatch
  BY <1>2 DEF Dispatch, DequeueForHost, SkipHost, DispatchEnds
<1>3. CASE LaunchJob
  BY <1>3 DEF LaunchJob, StageNothing, StagePayload, StageFails,
              StageMissing, Launch, Verify, Track, RecordDead, RequeueBack,
              BenchLoad, BenchSave, RequeueFailed, DeferJob, FileStartFailure
<1>4. CASE Preempting
  BY <1>4 DEF Preempting, ChoosePreemption, ChooseNothing, Claim,
              ClaimNothing, KillVictim, StandDown, UntrackVictim, RequeueVictim
<1>5. CASE OpsStep
  BY <1>5, NoRerun DEF OpsStep, Submit, Qdel, Clear, EnableHost, PopDeferred,
              DropDeferred, CommandDies, CommandFinishes, EnqueueMoving, JobsIn
<1>6. CASE \/ WorkerStep \/ UNCHANGED vars \/ Stop \/ Crash
           \/ \E h \in Hosts : CooldownExpires(h)
  BY <1>6 DEF WorkerStep, JobEnds, Reboot, vars, Stop, Crash, CooldownExpires
<1> QED
  BY <1>1, <1>2, <1>3, <1>4, <1>5, <1>6 DEF Next, MonitorStep

LEMMA StaysAccepted ==
    ASSUME Invs, RunsInv, [Next]_vars, NEW h \in Hosts, NEW j \in procs'[h]
    PROVE  j \in submitted' \ withdrawn'
<1>1. j \in submitted \ withdrawn /\ j \notin JobsIn(queue)
      /\ j \notin JobsIn(deferred)
  <2>1. CASE j \in procs[h]
    BY <2>1, LivesElsewhere DEF Lives
  <2>2. CASE Launch /\ j = job
    BY <2>2, InHandOnly DEF Launch, Holding, Gone
  <2> QED
    BY <2>1, <2>2, OldOrLaunched
<1> QED
  BY <1>1, WithdrawnWaited, RetiredWereHere


\* What the monitor and running.json say of a host where something runs.
LEMMA BusyEntry ==
    ASSUME Invs, RunsInv, NEW h \in Hosts, procs[h] # {}
    PROVE  /\ mpc # "down" => running[h] = tracked[h]
           /\ mpc = "down" => tracked[h] = <<>>
           /\ RunningMap[h] = running[h]
<1>1. ASSUME mpc # "down" PROVE running[h] = tracked[h]
  <2>1. CASE mpc \in {"prune", "save"}
    BY <2>1 DEF RunsInv, IdleInv
  <2>2. CASE mpc \notin {"prune", "save"}
    BY <1>1, <2>2 DEF Invs, DiskInv, DiskFollowsMemory
  <2> QED
    BY <2>1, <2>2
<1>2. mpc = "down" => tracked[h] = <<>>
  BY DEF RunsInv
<1> QED
  BY <1>1, <1>2 DEF RunningMap

\* The monitor keeps what it tracks on a host while something runs there.
LEMMA BusyEntryStays ==
    ASSUME Invs, RunsInv, [Next]_vars, NEW h \in Hosts, procs[h] # {},
           RunningMap[h] # <<>>
    PROVE  RunningMap'[h] = RunningMap[h]
<1>0. /\ running \in [Hosts -> Opt(Item)] /\ tracked \in [Hosts -> Opt(Item)]
      /\ running[h] # <<>>
      /\ mpc # "down" => running[h] = tracked[h]
      /\ RunningMap[h] = running[h]
  BY ItemLists, BusyEntry DEF Invs
<1> SUFFICES /\ mpc' # "down" => tracked'[h] = running[h]
             /\ mpc' = "down" => running'[h] = running[h]
  BY <1>0 DEF RunningMap
<1>1. CASE PollAndPrune
  <2>1. ASSUME NEW g \in Hosts, PruneHost(g) PROVE g # h
    BY <2>1 DEF PruneHost, RunsInv, IdleInv
  <2>2. CASE \E g \in Hosts : PruneHost(g)
    <3>1. PICK g \in Hosts : PruneHost(g)
      BY <2>2
    <3>2. g # h /\ mpc' = mpc /\ mpc = "prune"
      BY <2>1, <3>1 DEF PruneHost
    <3>3. tracked' = [tracked EXCEPT ![g] = <<>>]
      BY <3>1 DEF PruneHost
    <3> QED
      BY <1>0, <3>2, <3>3
  <2>3. CASE Start \/ Poll \/ PruneEnds \/ SavePruned \/ FileCompleted
               \/ FileFailed
    BY <1>0, <2>3 DEF Start, Poll, PruneEnds, SavePruned, FileCompleted,
                      FileFailed, Goto
  <2> QED
    BY <1>1, <2>2, <2>3 DEF PollAndPrune
<1>2. CASE Dispatch
  BY <1>0, <1>2 DEF Dispatch, DequeueForHost, SkipHost, DispatchEnds, Goto
<1>3. CASE LaunchJob
  <2>1. CASE Track
    <3>1. h # at
      BY <1>0, <2>1 DEF Track, Invs, HandsInv
    <3>2. mpc' # "down"
      BY <2>1 DEF Track, AfterLaunch, Goto
    <3> QED
      BY <1>0, <2>1, <3>1, <3>2 DEF Track
  <2>2. CASE ~Track
    BY <1>0, <1>3, <2>2 DEF LaunchJob, StageNothing, StagePayload, StageFails,
              StageMissing, Launch, Verify, RecordDead, RequeueBack, BenchLoad,
              BenchSave, RequeueFailed, DeferJob, FileStartFailure, Goto,
              AfterLaunch
  <2> QED
    BY <2>1, <2>2
<1>4. CASE Preempting
  <2>1. CASE UntrackVictim
    <3>1. h # at
      BY <2>1 DEF UntrackVictim, RunsInv, IdleInv
    <3> QED
      BY <1>0, <2>1, <3>1 DEF UntrackVictim, Goto
  <2>2. CASE ~UntrackVictim
    BY <1>0, <1>4, <2>2 DEF Preempting, ChoosePreemption, ChooseNothing,
              Claim, ClaimNothing, KillVictim, StandDown, RequeueVictim, Goto
  <2> QED
    BY <2>1, <2>2
<1>5. CASE OpsStep
  <2>1. UNCHANGED memory /\ UNCHANGED running
    BY <1>5, NoRerun DEF OpsStep, Submit, Qdel, Clear, EnableHost,
            PopDeferred, DropDeferred, CommandDies, CommandFinishes,
            EnqueueMoving
  <2> QED
    BY <1>0, <2>1
<1>6. CASE \/ WorkerStep \/ UNCHANGED vars
           \/ \E g \in Hosts : CooldownExpires(g)
  BY <1>0, <1>6 DEF WorkerStep, JobEnds, Reboot, CooldownExpires, vars
<1>7. CASE Stop \/ Crash
  BY <1>0, <1>7 DEF Stop, Crash, Goto
<1> QED
  BY <1>1, <1>2, <1>3, <1>4, <1>5, <1>6, <1>7 DEF Next, MonitorStep

\* A host whose process is of a job that is being verified, or that was lost,
\* has no entry.
LEMMA NoEntryStays ==
    ASSUME Invs, RunsInv, [Next]_vars, NEW h \in Hosts, procs[h] # {},
           RunningMap[h] = <<>>, ~(Track /\ h = at)
    PROVE  RunningMap'[h] = <<>>
<1>1. running[h] = <<>> /\ tracked[h] = <<>>
  BY BusyEntry
<1>2. running'[h] = <<>> /\ tracked'[h] = <<>>
  BY <1>1, EntriesChange
<1> QED
  BY <1>2 DEF RunningMap

\* The verified job of a live process is tracked next, unless the monitor
\* dies, which loses it.
LEMMA VerifiedJob ==
    ASSUME Invs, RunsInv, [Next]_vars, mpc \in {"verify", "track"},
           job \in procs'[at]
    PROVE  \/ /\ mpc' \in {"verify", "track"} /\ at' = at /\ job' = job
           \/ job \in JobsIn(RunningMap'[at])
           \/ job \in dropped' /\ RunningMap'[at] = <<>>
<1>1. job \in procs[at] /\ at \in Hosts /\ job \in Jobs
  <2>1. at \in Hosts /\ job \in Jobs
    BY InHandItem DEF Invs, Holding
  <2>2. PICK g \in Hosts, j \in Jobs : g = at /\ j = job
    BY <2>1
  <2>3. ~Launch
    BY DEF Launch
  <2> QED
    BY <2>2, <2>3, OldOrLaunched
<1>2. RunningMap[at] = <<>> /\ running[at] = <<>>
  <2>1. tracked[at] = <<>> /\ mpc # "down"
    BY DEF Invs, HandsInv
  <2> QED
    BY <1>1, <2>1, BusyEntry DEF RunningMap
<1>3. CASE Track
  <2>1. RunningMap'[at] = tracked'[at]
    BY <1>3 DEF RunningMap, Track, AfterLaunch, Goto
  <2> QED
    BY <1>3, <2>1, TrackEntry
<1>4. CASE Verify
  <2>1. PICK place \in {"track", "outcome", "job_failed", "host_failed"} :
           VerifySees(place) /\ Goto(place)
    BY <1>4 DEF Verify
  <2>2. at' = at /\ hand' = hand
    BY <1>4 DEF Verify
  <2>3. HasPidfile(at, job)
    <3>1. pids[at] \in Seq(Jobs)
      BY <1>1, Parts DEF Invs, WorkersOK
    <3>2. pids[at] # <<>> /\ job = pids[at][Len(pids[at])]
      BY <1>1 DEF RunsInv, Newest
    <3>3. Len(pids[at]) \in DOMAIN pids[at]
      BY <3>1, <3>2
    <3> QED
      BY <3>2, <3>3 DEF HasPidfile
  <2>4. ~Fault({"probe"}) /\ ~Fault({"psprobe"})
    BY DEF Fault, RunsInv, ProbesTell
  <2>5. place = "track"
    BY <1>1, <2>1, <2>3, <2>4 DEF VerifySees
  <2> QED
    BY <2>1, <2>2, <2>5 DEF Goto, job
<1>5. CASE Crash
  <2>1. mpc' = "down" /\ running' = running
        /\ dropped' = dropped \cup (InMemory \ (OnDisk \cup JobsIn(moving)))
    BY <1>5 DEF Crash, Goto
  <2>2. job \in InMemory /\ job \notin OnDisk /\ job \notin JobsIn(moving)
    BY InHandOnly DEF Holding, InMemory, OnDisk
  <2> QED
    BY <1>2, <2>1, <2>2 DEF RunningMap
<1>6. CASE ~Track /\ ~Verify /\ ~Crash
  <2>1. mpc' = mpc /\ at' = at /\ hand' = hand
    <3>1. CASE PollAndPrune \/ Dispatch
      BY <3>1 DEF PollAndPrune, Start, Poll, PruneHost, PruneEnds, SavePruned,
                  FileCompleted, FileFailed, Dispatch, DequeueForHost,
                  SkipHost, DispatchEnds
    <3>2. CASE LaunchJob
      BY <1>6, <3>2 DEF LaunchJob, StageNothing, StagePayload, StageFails,
              StageMissing, Launch, RecordDead, RequeueBack, BenchLoad,
              BenchSave, RequeueFailed, DeferJob, FileStartFailure
    <3>3. CASE Preempting
      BY <3>3 DEF Preempting, ChoosePreemption, ChooseNothing, Claim,
              ClaimNothing, KillVictim, StandDown, UntrackVictim, RequeueVictim
    <3>4. CASE OpsStep
      BY <3>4, NoRerun DEF OpsStep, Submit, Qdel, Clear, EnableHost,
              PopDeferred, DropDeferred, CommandDies, CommandFinishes,
              EnqueueMoving
    <3>5. CASE \/ WorkerStep \/ UNCHANGED vars
               \/ \E g \in Hosts : CooldownExpires(g)
      BY <3>5 DEF WorkerStep, JobEnds, Reboot, CooldownExpires, vars
    <3> QED
      BY <1>6, <3>1, <3>2, <3>3, <3>4, <3>5 DEF Next, MonitorStep, Stop
  <2> QED
    BY <2>1 DEF job
<1> QED
  BY <1>3, <1>4, <1>5, <1>6

LEMMA LivesStay ==
    ASSUME Invs, RunsInv, [Next]_vars, NEW h \in Hosts, NEW j \in procs'[h]
    PROVE  Lives(h, j)'
<1>1. j \in submitted' \ withdrawn'
  BY StaysAccepted
<1>2. \A g \in Hosts : j \in procs'[g] => g = h
  BY OnlyOneHost
<1>3. \/ j \in JobsIn(RunningMap'[h])
      \/ mpc' \in {"verify", "track"} /\ h = at' /\ j = job'
      \/ j \in dropped' /\ RunningMap'[h] = <<>>
  <2>1. CASE Launch /\ h = at /\ j = job
    BY <2>1 DEF Launch, Goto, job
  <2>2. CASE j \in procs[h] /\ j \in JobsIn(RunningMap[h])
    BY <2>2, BusyEntryStays, JobsInNone
  <2>3. CASE mpc \in {"verify", "track"} /\ h = at /\ j = job
    BY <2>3, VerifiedJob
  <2>4. CASE j \in procs[h] /\ j \in dropped /\ RunningMap[h] = <<>>
    <3>1. ~(Track /\ h = at)
      <4> SUFFICES ASSUME Track, h = at PROVE FALSE
        OBVIOUS
      <4>1. mpc = "track"
        BY DEF Track
      <4>2. j = job
        BY <2>4, <4>1 DEF RunsInv, IdleInv
      <4> QED
        BY <2>4, <4>1, <4>2, InHandOnly DEF Holding, Gone
    <3> QED
      BY <2>4, <3>1, NoEntryStays, WithdrawnWaited
  <2> QED
    BY <2>1, <2>2, <2>3, <2>4, OldOrLaunched DEF RunsInv, Lives
<1> QED
  BY <1>1, <1>2, <1>3 DEF Lives

LEMMA StepRuns == Invs /\ RunsInv /\ [Next]_vars => RunsInv'
<1> SUFFICES ASSUME Invs, RunsInv, [Next]_vars PROVE RunsInv'
  OBVIOUS
<1>1. ProbesTell'
  BY DEF RunsInv, ProbesTell
<1>2. Newest' /\ IdleInv'
  BY NewestStays, StepIdle
<1>3. \A h \in Hosts : \A j \in procs'[h] : Lives(h, j)'
  BY LivesStay
<1>4. ASSUME mpc' = "down", NEW h \in Hosts PROVE tracked'[h] = <<>>
  BY <1>4, Arrivals DEF Stop, Crash, MemoryLost, RunsInv
<1> QED
  BY <1>1, <1>2, <1>3, <1>4 DEF RunsInv

LEMMA RunsInvariant ==
    NothingRequeuedByHand /\ ProbesTell => (Spec => [](Invs /\ RunsInv))
<1>1. ProbesTell /\ Init => RunsInv
  BY DEF Init, RunsInv, Newest, IdleInv
<1>2. Invs /\ RunsInv /\ [Next]_vars => RunsInv'
  BY StepRuns
<1> QED
  BY <1>1, <1>2, OneInvariant, PTL DEF Spec


-----------------------------------------------------------------------------
(* What follows for the jobs.                                              *)

\* A worker runs one job of the queue's at a time, and a job runs on one
\* worker: although a job is requeued and started again elsewhere when its
\* host fails it, is preempted, or was only being verified when the monitor
\* died (monitor_loop, _launch_job_on_host).
THEOREM RunsExclude ==
    NothingRequeuedByHand /\ ProbesTell => (Spec => []RunsAreExclusive)
<1>1. Invs /\ RunsInv => RunsAreExclusive
  <2> SUFFICES ASSUME Invs, RunsInv PROVE RunsAreExclusive
    OBVIOUS
  <2>1. ASSUME NEW h \in Hosts PROVE Cardinality(procs[h]) <= 1
    <3>1. CASE procs[h] = {}
      BY <3>1, FS_EmptySet
    <3>2. CASE procs[h] # {}
      <4>1. PICK x : procs[h] = {x}
        BY <3>2 DEF RunsInv, Newest
      <4> QED
        BY <4>1, FS_Singleton
    <3> QED
      BY <3>1, <3>2
  <2>2. ASSUME NEW j \in Jobs
        PROVE  Cardinality({h \in Hosts : j \in procs[h]}) <= 1
    <3> DEFINE on == {h \in Hosts : j \in procs[h]}
    <3>1. CASE on = {}
      BY <3>1, FS_EmptySet
    <3>2. CASE on # {}
      <4>1. PICK h \in Hosts : j \in procs[h]
        BY <3>2
      <4>2. on = {h}
        BY <4>1 DEF RunsInv, Lives
      <4>3. Cardinality({h}) = 1
        BY FS_Singleton
      <4> HIDE DEF on
      <4>4. Cardinality(on) <= 1
        BY <4>2, <4>3
      <4> QED
        BY <4>4 DEF on
    <3> QED
      BY <3>1, <3>2
  <2> QED
    BY <2>1, <2>2 DEF RunsAreExclusive
<1> QED
  BY <1>1, RunsInvariant, PTL

\* A job that is recorded as over has no process left anywhere
\* (_prune_running_jobs_for_status, and the died-at-launch branch of
\* _launch_job_on_host).
THEOREM RecordedAreOver ==
    NothingRequeuedByHand /\ ProbesTell => (Spec => []RecordedIsOver)
<1>1. Invs /\ RunsInv => RecordedIsOver
  BY LivesElsewhere DEF RecordedIsOver
<1> QED
  BY <1>1, RunsInvariant, PTL

\* A job an operator deleted is not queued, in the monitor's hands, tracked or
\* running, however late in a cycle the deletion came (claim_queued_job).
THEOREM DeletedAreGone ==
    NothingRequeuedByHand /\ ProbesTell => (Spec => []DeletedStaysDeleted)
<1>1. Invs /\ RunsInv => DeletedStaysDeleted
  <2> SUFFICES ASSUME Invs, RunsInv, NEW j \in withdrawn
               PROVE  /\ j \notin JobsIn(queue) \cup InMemory \cup OnHosts(tracked)
                      /\ \A h \in Hosts : j \notin procs[h]
    BY DEF DeletedStaysDeleted
  <2>1. j \in Jobs /\ j \in Gone
    BY Parts DEF Invs, GhostsOK, Gone
  <2>2. j \notin JobsIn(queue) /\ j \notin InMemory
    BY <2>1, GoneOnly DEF OnDisk
  <2>3. ASSUME NEW h \in Hosts PROVE j \notin JobsIn(tracked[h])
    <3>1. CASE mpc = "down"
      BY <3>1, JobsInNone DEF RunsInv
    <3>2. CASE mpc # "down"
      <4>1. RunningMap[h] = tracked[h]
        BY <3>2 DEF RunningMap
      <4> QED
        BY <2>1, <4>1, GoneOnly
    <3> QED
      BY <3>1, <3>2
  <2>4. \A h \in Hosts : j \notin procs[h]
    BY DEF RunsInv, Lives
  <2> QED
    BY <2>2, <2>3, <2>4 DEF OnHosts
<1> QED
  BY <1>1, RunsInvariant, PTL


-----------------------------------------------------------------------------
(* Preemption.                                                             *)

\* Wherever an item is, its priority is the one its job was submitted with.
Priced == {x \in Item : x.prio = Prio[x.job]}

PrioInv ==
    /\ queue \in Seq(Priced) /\ deferred \in Seq(Priced)
    /\ moving \in Seq(Priced) /\ hand \in Seq(Priced) /\ held \in Seq(Priced)
    /\ \A h \in Hosts : running[h] \in Seq(Priced) /\ tracked[h] \in Seq(Priced)

\* The victim that was chosen is weaker than the job it is chosen for.
VictimInv ==
    mpc \in {"claim", "kill"} => Prio[tracked[at][1].job] < Prio[target]

LEMMA PricedRewritten ==
    ASSUME NEW x \in Priced
    PROVE  /\ [x EXCEPT !.preempt = FALSE, !.fails = 0, !.resume = NoHost]
                \in Priced
           /\ [x EXCEPT !.fails = 0] \in Priced
           /\ [x EXCEPT !.fails = @ + 1] \in Priced
           /\ [x EXCEPT !.dir = TRUE] \in Priced
           /\ \A h \in Hosts : ResumeItem(x, h) \in Priced
<1>1. [x EXCEPT !.preempt = FALSE, !.fails = 0, !.resume = NoHost] \in Priced
  BY DEF Priced, Item
<1>2. [x EXCEPT !.fails = 0] \in Priced
  BY DEF Priced, Item
<1>3. [x EXCEPT !.fails = @ + 1] \in Priced
  BY DEF Priced, Item
<1>4. [x EXCEPT !.dir = TRUE] \in Priced
  BY DEF Priced, Item
<1>5. \A h \in Hosts : ResumeItem(x, h) \in Priced
  BY DEF Priced, Item, ResumeItem
<1> QED
  BY <1>1, <1>2, <1>3, <1>4, <1>5

LEMMA NewItemPriced == ASSUME NEW j \in Jobs PROVE NewItem(j) \in Priced
BY HostStateAssumption DEF HostStateAssumption, NewItem, Priced, Item

\* The first of a list that is not empty, and the list of one.
LEMMA FirstOf ==
    ASSUME NEW S, NEW s \in Seq(S), s # <<>>
    PROVE  s[1] \in S
OBVIOUS

LEMMA OneOf == ASSUME NEW S, NEW x \in S PROVE <<x>> \in Seq(S) /\ <<>> \in Seq(S)
OBVIOUS

LEMMA PricesFromHand ==
    ASSUME TypeInv, PrioInv, LaunchJob
    PROVE  PrioInv'
<1>0. hand # <<>> /\ mpc \in Holding => hand[1] \in Priced
  BY FirstOf DEF PrioInv
<1>1. CASE StageNothing \/ StageMissing \/ Launch \/ Verify \/ RecordDead
             \/ BenchLoad \/ BenchSave \/ FileStartFailure
  <2>1. <<>> \in Seq(Priced)
    OBVIOUS
  <2> QED
    BY <1>1, <2>1 DEF PrioInv, StageNothing, StageMissing, Launch, Verify,
                      RecordDead, BenchLoad, BenchSave, FileStartFailure
<1>2. CASE StagePayload \/ StageFails
  <2>1. /\ UNCHANGED <<queue, deferred, moving, held, running, tracked>>
        /\ hand' = hand \/ hand' = <<[hand[1] EXCEPT !.dir = TRUE]>>
        /\ mpc = "stage"
    BY <1>2 DEF StagePayload, StageFails, WithDir
  <2>2. hand[1] \in Priced
    BY <1>0, <2>1, Parts DEF StagesOK, Holding
  <2>3. [hand[1] EXCEPT !.dir = TRUE] \in Priced
    BY <2>2, PricedRewritten
  <2>4. hand' \in Seq(Priced)
    BY <2>1, <2>3, OneOf DEF PrioInv
  <2> QED
    BY <2>1, <2>4 DEF PrioInv
<1>3. CASE Track
  <2> DEFINE x == [hand[1] EXCEPT !.preempt = FALSE, !.fails = 0,
                                  !.resume = NoHost]
  <2>1. mpc = "track" /\ tracked' = [tracked EXCEPT ![at] = <<x>>]
        /\ running' = tracked' /\ hand' = <<>>
        /\ UNCHANGED <<queue, deferred, moving, held>>
    BY <1>3 DEF Track
  <2>2. x \in Priced
    BY <1>0, <2>1, Parts, PricedRewritten DEF StagesOK, Holding
  <2> HIDE DEF x
  <2>3. <<x>> \in Seq(Priced) /\ <<>> \in Seq(Priced)
    BY <2>2, OneOf
  <2>4. tracked \in [Hosts -> Opt(Item)]
    BY Parts DEF MemoryOK
  <2>5. \A h \in Hosts : tracked'[h] \in Seq(Priced)
    BY <2>1, <2>3, <2>4 DEF PrioInv
  <2> QED
    BY <2>1, <2>3, <2>5 DEF PrioInv
<1>4. CASE RequeueBack \/ RequeueFailed \/ DeferJob
  <2>1. hand[1] \in Priced
    BY <1>0, <1>4, Parts
       DEF StagesOK, Holding, RequeueBack, RequeueFailed, DeferJob
  <2>2. /\ [hand[1] EXCEPT !.fails = 0] \in Priced
        /\ [hand[1] EXCEPT !.fails = @ + 1] \in Priced
    BY <2>1, PricedRewritten
  <2>3. queue' \in Seq(Priced) /\ deferred' \in Seq(Priced)
    BY <1>4, <2>2, AppendType, ConsType
       DEF PrioInv, RequeueBack, RequeueFailed, DeferJob
  <2>4. hand' \in Seq(Priced) /\ UNCHANGED <<moving, held, running, tracked>>
    BY <1>4, OneOf, <2>1 DEF PrioInv, RequeueBack, RequeueFailed, DeferJob
  <2> QED
    BY <2>3, <2>4 DEF PrioInv
<1> QED
  BY <1>1, <1>2, <1>3, <1>4 DEF LaunchJob

LEMMA PricesMove ==
    ASSUME TypeInv, PrioInv, Dispatch \/ Preempting
    PROVE  PrioInv'
<1>0. <<>> \in Seq(Priced)
  OBVIOUS
<1>1. CASE \/ DispatchEnds \/ ChoosePreemption \/ ChooseNothing
           \/ ClaimNothing \/ KillVictim
           \/ \E h \in Hosts : SkipHost(h)
  BY <1>1 DEF PrioInv, DispatchEnds, SkipHost, ChoosePreemption, ChooseNothing,
              ClaimNothing, KillVictim
<1>2. CASE Claim \/ \E h \in Hosts : DequeueForHost(h)
  <2>1. PICK i \in DOMAIN queue :
           hand' = <<queue[i]>> /\ queue' = RemoveAt(queue, i)
    BY <1>2 DEF Claim, DequeueForHost, Positions, BestIndex, Earliest,
                Candidates
  <2>2. queue[i] \in Priced
    BY DEF PrioInv
  <2>3. hand' \in Seq(Priced)
    BY <2>1, <2>2, OneOf
  <2>4. queue' \in Seq(Priced)
    BY <2>1, RemoveAtType DEF PrioInv
  <2>5. UNCHANGED <<deferred, moving, held, running, tracked>>
    BY <1>2 DEF Claim, DequeueForHost
  <2> QED
    BY <2>3, <2>4, <2>5 DEF PrioInv
<1>3. CASE StandDown
  <2>1. hand[1] \in Priced
    BY <1>3, Parts, FirstOf DEF StandDown, StagesOK, Holding, PrioInv
  <2>2. queue' \in Seq(Priced)
    BY <1>3, <2>1, ConsType DEF StandDown, PrioInv
  <2> QED
    BY <1>0, <1>3, <2>2 DEF StandDown, PrioInv
<1>4. CASE UntrackVictim
  <2>1. at \in Hosts /\ tracked[at] # <<>>
    BY <1>4, Parts DEF UntrackVictim, StagesOK, AboutHost, Holding
  <2>2. tracked[at][1] \in Priced
    BY <2>1, FirstOf DEF PrioInv
  <2>3. ResumeItem(tracked[at][1], at) \in Priced
    BY <2>1, <2>2, PricedRewritten
  <2>4. held' \in Seq(Priced)
    BY <1>4, <2>3, OneOf DEF UntrackVictim
  <2>5. tracked \in [Hosts -> Opt(Item)]
    BY Parts DEF MemoryOK
  <2>6. \A h \in Hosts : tracked'[h] \in Seq(Priced)
    BY <1>0, <1>4, <2>5 DEF UntrackVictim, PrioInv
  <2> QED
    BY <1>4, <2>4, <2>6 DEF UntrackVictim, PrioInv
<1>5. CASE RequeueVictim
  <2>1. held[1] \in Priced
    BY <1>5, Parts, FirstOf DEF RequeueVictim, StagesOK, PrioInv
  <2>2. queue' \in Seq(Priced)
    BY <1>5, <2>1, ConsType DEF RequeueVictim, PrioInv
  <2> QED
    BY <1>0, <1>5, <2>2 DEF RequeueVictim, PrioInv
<1> QED
  BY <1>1, <1>2, <1>3, <1>4, <1>5 DEF Dispatch, Preempting

LEMMA StepPrio == Invs /\ PrioInv /\ [Next]_vars => PrioInv'
<1> SUFFICES ASSUME Invs, PrioInv, [Next]_vars PROVE PrioInv'
  OBVIOUS
<1>0. TypeInv /\ <<>> \in Seq(Priced)
  BY DEF Invs
<1>1. CASE PollAndPrune
  <2>1. CASE \E h \in Hosts : PruneHost(h)
    BY <1>0, <2>1, ItemLists DEF PruneHost, PrioInv
  <2>2. CASE ~\E h \in Hosts : PruneHost(h)
    BY <1>1, <2>2 DEF PollAndPrune, Start, Poll, PruneEnds, SavePruned,
                      FileCompleted, FileFailed, PrioInv
  <2> QED
    BY <2>1, <2>2
<1>2. CASE Dispatch \/ Preempting
  BY <1>0, <1>2, PricesMove
<1>3. CASE LaunchJob
  BY <1>0, <1>3, PricesFromHand
<1>4. CASE OpsStep
  <2>0. UNCHANGED <<hand, held, running, tracked>>
    BY <1>4, NoRerun DEF OpsStep, Submit, Qdel, Clear, EnableHost,
            PopDeferred, DropDeferred, CommandDies, CommandFinishes,
            EnqueueMoving
  <2> SUFFICES /\ queue' \in Seq(Priced) /\ deferred' \in Seq(Priced)
               /\ moving' \in Seq(Priced)
    BY <2>0 DEF PrioInv
  <2>1. CASE \E j \in Jobs : Submit(j)
    BY <2>1, NewItemPriced, AppendType DEF Submit, PrioInv
  <2>2. CASE \E s \in SUBSET DOMAIN queue : Qdel(s)
    <3>1. PICK s \in SUBSET DOMAIN queue : Qdel(s)
      BY <2>2
    <3>2. queue' \in Keeping(queue, DOMAIN queue \ s)
      BY <3>1 DEF Qdel
    <3>3. queue' \in Seq(Priced)
      BY <3>2, KeepingType DEF PrioInv
    <3> QED
      BY <3>1, <3>3 DEF Qdel, PrioInv
  <2>3. CASE \E s \in SUBSET DOMAIN deferred : PopDeferred(s) \/ DropDeferred(s)
    <3>1. PICK s \in SUBSET DOMAIN deferred : PopDeferred(s) \/ DropDeferred(s)
      BY <2>3
    <3>2. deferred' \in Keeping(deferred, DOMAIN deferred \ s)
      BY <3>1 DEF PopDeferred, DropDeferred
    <3>3. deferred' \in Seq(Priced)
      BY <3>2, KeepingType DEF PrioInv
    <3>4. moving' \in Seq(Priced)
      <4>1. CASE moving' = moving
        BY <4>1 DEF PrioInv
      <4>2. CASE moving' \in Keeping(deferred, s)
        BY <4>2, KeepingType DEF PrioInv
      <4> QED
        BY <3>1, <4>1, <4>2 DEF PopDeferred, DropDeferred
    <3> QED
      BY <3>1, <3>3, <3>4 DEF PopDeferred, DropDeferred, PrioInv
  <2>4. CASE EnqueueMoving
    <3>1. moving # <<>> /\ queue' = Append(queue, Head(moving))
          /\ moving' = Tail(moving)
      BY <2>4 DEF EnqueueMoving
    <3>2. Head(moving) \in Priced /\ Tail(moving) \in Seq(Priced)
      BY <3>1 DEF PrioInv
    <3>3. queue' \in Seq(Priced)
      BY <3>1, <3>2, AppendType DEF PrioInv
    <3> QED
      BY <2>4, <3>1, <3>2, <3>3 DEF EnqueueMoving, PrioInv
  <2>5. CASE Clear \/ CommandDies \/ \E h \in Hosts : EnableHost(h)
    BY <1>0, <2>5 DEF Clear, CommandDies, EnableHost, PrioInv
  <2> QED
    BY <1>4, <2>1, <2>2, <2>3, <2>4, <2>5, NoRerun DEF OpsStep, CommandFinishes
<1>5. CASE \/ WorkerStep \/ UNCHANGED vars
           \/ \E h \in Hosts : CooldownExpires(h)
  BY <1>5 DEF WorkerStep, JobEnds, Reboot, CooldownExpires, vars, PrioInv
<1>6. CASE Stop \/ Crash
  BY <1>0, <1>6 DEF Stop, Crash, MemoryLost, PrioInv
<1> QED
  BY <1>1, <1>2, <1>3, <1>4, <1>5, <1>6 DEF Next, MonitorStep

LEMMA StepVictim == Invs /\ PrioInv /\ VictimInv /\ [Next]_vars => VictimInv'
<1> SUFFICES ASSUME Invs, PrioInv, VictimInv, [Next]_vars,
                    mpc' \in {"claim", "kill"}
             PROVE  Prio[tracked'[at'][1].job] < Prio[target']
  BY DEF VictimInv
<1>1. CASE ChoosePreemption
  <2>0. PICK i \in Preemptor : \E h \in Weakest(Victims(queue[i])) :
           target' = queue[i].job /\ at' = h
    BY <1>1 DEF ChoosePreemption
  <2>1. PICK h \in Weakest(Victims(queue[i])) :
           target' = queue[i].job /\ at' = h
    BY <2>0
  <2>2. i \in DOMAIN queue /\ h \in Victims(queue[i])
    BY <2>1 DEF Preemptor, Preemptors, Earliest, Weakest
  <2>3. /\ h \in Hosts /\ tracked[h] # <<>>
        /\ queue[i].prio > tracked[h][1].prio
    BY <2>2 DEF Victims
  <2>4. queue[i] \in Priced /\ tracked[h][1] \in Priced
    BY <2>2, <2>3, FirstOf DEF PrioInv
  <2>5. Prio[tracked[h][1].job] < Prio[queue[i].job]
    BY <2>3, <2>4 DEF Priced, Item
  <2>6. tracked' = tracked
    BY <1>1 DEF ChoosePreemption
  <2> QED
    BY <2>1, <2>5, <2>6
<1>2. CASE ~ChoosePreemption
  <2>1. /\ mpc \in {"claim", "kill"}
        /\ tracked' = tracked /\ at' = at /\ target' = target
    <3>1. CASE PollAndPrune \/ Dispatch
      BY <3>1 DEF PollAndPrune, Start, Poll, PruneHost, PruneEnds, SavePruned,
                  FileCompleted, FileFailed, Dispatch, DequeueForHost,
                  SkipHost, DispatchEnds, Goto
    <3>2. CASE LaunchJob
      BY <3>2 DEF LaunchJob, StageNothing, StagePayload, StageFails,
              StageMissing, Launch, Verify, Track, RecordDead, RequeueBack,
              BenchLoad, BenchSave, RequeueFailed, DeferJob, FileStartFailure,
              Goto, AfterLaunch
    <3>3. CASE Preempting
      BY <1>2, <3>3 DEF Preempting, ChooseNothing, Claim, ClaimNothing,
              KillVictim, StandDown, UntrackVictim, RequeueVictim, Goto
    <3>4. CASE OpsStep
      BY <3>4, NoRerun DEF OpsStep, Submit, Qdel, Clear, EnableHost,
              PopDeferred, DropDeferred, CommandDies, CommandFinishes,
              EnqueueMoving
    <3>5. CASE \/ WorkerStep \/ UNCHANGED vars
               \/ \E g \in Hosts : CooldownExpires(g)
      BY <3>5 DEF WorkerStep, JobEnds, Reboot, CooldownExpires, vars
    <3>6. CASE Stop \/ Crash
      BY <3>6 DEF Stop, Crash, Goto
    <3> QED
      BY <3>1, <3>2, <3>3, <3>4, <3>5, <3>6 DEF Next, MonitorStep
  <2> QED
    BY <2>1 DEF VictimInv
<1> QED
  BY <1>1, <1>2

\* The process of the host a kill is about is the victim's that was chosen.
LEMMA OnlyTheVictim ==
    ASSUME Invs, RunsInv, mpc = "kill", NEW j \in procs[at]
    PROVE  j = tracked[at][1].job
<1>1. at \in Hosts /\ tracked[at] # <<>>
  BY Parts DEF Invs, StagesOK, AboutHost, Holding
<1>2. RunningMap[at] = tracked[at]
  BY DEF RunningMap
<1>3. j \in JobsIn(tracked[at])
  BY <1>1, <1>2 DEF RunsInv, Lives
<1>4. tracked[at] = <<tracked[at][1]>>
  BY <1>1, OptOne, ItemLists DEF Invs
<1> QED
  BY <1>3, <1>4, JobsInOne

\* Preemption ends only work of lower priority than the job it makes room for,
\* although victim and job were chosen from an earlier snapshot and the queue,
\* the victim and its host may have changed since (_select_preempt_target,
\* claim_queued_job, kill_managed_on_host).
THEOREM OnlyWeakerArePreempted ==
    NothingRequeuedByHand /\ ProbesTell => (Spec => PreemptsOnlyWeaker)
<1>1. Init => PrioInv /\ VictimInv
  BY OneOf DEF Init, PrioInv, VictimInv
<1>2. Invs /\ PrioInv /\ [Next]_vars => PrioInv'
  BY StepPrio
<1>3. Invs /\ PrioInv /\ VictimInv /\ [Next]_vars => VictimInv'
  BY StepVictim
<1>4. Invs /\ RunsInv /\ VictimInv /\ [Next]_vars
        => [mpc = "kill" /\ mpc' # "kill" =>
              \A j \in procs[at] \ procs'[at] : Prio[j] < Prio[target]]_vars
  BY OnlyTheVictim DEF VictimInv
<1> QED
  BY <1>1, <1>2, <1>3, <1>4, RunsInvariant, PTL DEF Spec, PreemptsOnlyWeaker


-----------------------------------------------------------------------------
(* Payloads.                                                               *)

\* No launch SSH is lost, no verification fails to answer, and no staging
\* fails after it named the path: the ways an item comes to carry a path
\* that holds nothing (run payload_path), or to be launched elsewhere with
\* the path of the host it was staged on.
StagingTells == {"launch", "probe", "download", "mkdir"} \cap Faults = {}

\* An item that names a path is pinned to the host that holds its payload.
StagedItem ==
    {x \in Item : x.dir => \E g \in Hosts : /\ x.hosts = {g}
                                            /\ <<g, x.job>> \in staged}
StagedOn(h) == {x \in Item : x.dir => <<h, x.job>> \in staged}

StagedLists ==
    /\ queue \in Seq(StagedItem) /\ deferred \in Seq(StagedItem)
    /\ moving \in Seq(StagedItem) /\ held \in Seq(StagedItem)

StagedHand ==
    /\ mpc \in {"stage", "host_failed", "job_failed", "kill", "kill_failed",
                "untrack", "resume"} => hand[1] \in StagedItem
    /\ mpc \in {"stage", "kill", "untrack", "resume"} => Eligible(hand[1], at)
    /\ mpc \in {"launch", "verify", "track"}
          => (Payload[job] # "none" \/ hand[1].dir => <<at, job>> \in staged)
    /\ mpc = "verify" => HasPidfile(at, job)

\* The job a preemption is for may still run on the host it is for.
ClaimInv ==
    mpc = "claim" =>
        /\ target \in JobsIn(queue) \cup withdrawn
        /\ \A i \in DOMAIN queue :
              queue[i].job = target => Eligible(queue[i], at)

StagedInv ==
    /\ StagingTells
    /\ StagedLists
    /\ \A h \in Hosts : /\ running[h] \in Seq(StagedOn(h))
                        /\ tracked[h] \in Seq(StagedOn(h))
    /\ StagedHand
    /\ ClaimInv

LEMMA SeqGrows ==
    ASSUME NEW S, NEW T, S \subseteq T, NEW s \in Seq(S)
    PROVE  s \in Seq(T)
OBVIOUS

\* What is staged stays.
LEMMA StagedStays ==
    ASSUME [Next]_vars, Invs
    PROVE  /\ staged \subseteq staged'
           /\ StagedItem \subseteq StagedItem'
           /\ \A h \in Hosts : StagedOn(h) \subseteq StagedOn(h)'
<1>1. staged \subseteq staged'
  <2>1. CASE PollAndPrune \/ Dispatch
    BY <2>1 DEF PollAndPrune, Start, Poll, PruneHost, PruneEnds, SavePruned,
                FileCompleted, FileFailed, Dispatch, DequeueForHost,
                SkipHost, DispatchEnds
  <2>2. CASE LaunchJob
    BY <2>2 DEF LaunchJob, StageNothing, StagePayload, StageFails,
            StageMissing, Launch, Verify, Track, RecordDead, RequeueBack,
            BenchLoad, BenchSave, RequeueFailed, DeferJob, FileStartFailure
  <2>3. CASE Preempting
    BY <2>3 DEF Preempting, ChoosePreemption, ChooseNothing, Claim,
            ClaimNothing, KillVictim, StandDown, UntrackVictim, RequeueVictim
  <2>4. CASE OpsStep
    BY <2>4, NoRerun DEF OpsStep, Submit, Qdel, Clear, EnableHost,
            PopDeferred, DropDeferred, CommandDies, CommandFinishes,
            EnqueueMoving
  <2>5. CASE \/ WorkerStep \/ UNCHANGED vars \/ Stop \/ Crash
             \/ \E g \in Hosts : CooldownExpires(g)
    BY <2>5 DEF WorkerStep, JobEnds, Reboot, CooldownExpires, vars, Stop, Crash
  <2> QED
    BY <2>1, <2>2, <2>3, <2>4, <2>5 DEF Next, MonitorStep
<1> QED
  BY <1>1 DEF StagedItem, StagedOn

LEMMA StagedRewritten ==
    ASSUME NEW x \in StagedItem
    PROVE  /\ [x EXCEPT !.fails = 0] \in StagedItem
           /\ [x EXCEPT !.fails = @ + 1] \in StagedItem
<1>1. [x EXCEPT !.fails = 0] \in StagedItem
  BY DEF StagedItem, Item
<1>2. [x EXCEPT !.fails = @ + 1] \in StagedItem
  BY DEF StagedItem, Item
<1> QED
  BY <1>1, <1>2

\* An interrupted job is pinned to where its payload is.
LEMMA ResumedIsStaged ==
    ASSUME NEW h \in Hosts, NEW x \in StagedOn(h)
    PROVE  ResumeItem(x, h) \in StagedItem
BY DEF StagedOn, StagedItem, Item, ResumeItem

LEMMA ListsStayStaged ==
    ASSUME Invs, StagedInv, [Next]_vars
    PROVE  StagedLists'
<1>0. TypeInv /\ <<>> \in Seq(StagedItem)
  BY DEF Invs
<1> SUFFICES /\ queue' \in Seq(StagedItem) /\ deferred' \in Seq(StagedItem)
             /\ moving' \in Seq(StagedItem) /\ held' \in Seq(StagedItem)
  <2>1. StagedItem \subseteq StagedItem'
    BY StagedStays
  <2> QED
    BY <2>1, SeqGrows DEF StagedLists
<1> USE DEF StagedInv, StagedLists
<1>1. CASE PollAndPrune
  BY <1>1 DEF PollAndPrune, Start, Poll, PruneHost, PruneEnds, SavePruned,
              FileCompleted, FileFailed
<1>2. CASE Claim \/ \E h \in Hosts : DequeueForHost(h)
  <2>1. PICK i \in DOMAIN queue : queue' = RemoveAt(queue, i)
    BY <1>2 DEF Claim, DequeueForHost, Positions, BestIndex, Earliest,
                Candidates
  <2>2. queue' \in Seq(StagedItem)
    BY <2>1, RemoveAtType
  <2> QED
    BY <1>2, <2>2 DEF Claim, DequeueForHost
<1>3. CASE DispatchEnds \/ \E h \in Hosts : SkipHost(h)
  BY <1>3 DEF SkipHost, DispatchEnds
<1>4. CASE LaunchJob
  <2>1. CASE RequeueBack \/ RequeueFailed \/ DeferJob
    <3>1. hand[1] \in StagedItem
      BY <2>1 DEF StagedHand, RequeueBack, RequeueFailed, DeferJob
    <3>2. /\ [hand[1] EXCEPT !.fails = 0] \in StagedItem
          /\ [hand[1] EXCEPT !.fails = @ + 1] \in StagedItem
      BY <3>1, StagedRewritten
    <3> QED
      BY <2>1, <3>2, AppendType, ConsType
         DEF RequeueBack, RequeueFailed, DeferJob
  <2>2. CASE ~(RequeueBack \/ RequeueFailed \/ DeferJob)
    BY <1>4, <2>2 DEF LaunchJob, StageNothing, StagePayload, StageFails,
            StageMissing, Launch, Verify, Track, RecordDead, BenchLoad,
            BenchSave, FileStartFailure
  <2> QED
    BY <2>1, <2>2
<1>5. CASE Preempting /\ ~Claim
  <2>1. CASE StandDown
    <3>1. hand[1] \in StagedItem
      BY <2>1 DEF StagedHand, StandDown
    <3> QED
      BY <2>1, <3>1, ConsType DEF StandDown
  <2>2. CASE UntrackVictim
    <3>1. at \in Hosts /\ tracked[at] # <<>>
      BY <1>0, <2>2, Parts DEF UntrackVictim, StagesOK, AboutHost, Holding
    <3>2. tracked[at][1] \in StagedOn(at)
      BY <3>1, FirstOf
    <3>3. ResumeItem(tracked[at][1], at) \in StagedItem
      BY <3>1, <3>2, ResumedIsStaged
    <3>4. held' \in Seq(StagedItem)
      BY <2>2, <3>3, OneOf DEF UntrackVictim
    <3> QED
      BY <2>2, <3>4 DEF UntrackVictim
  <2>3. CASE RequeueVictim
    <3>1. held[1] \in StagedItem
      BY <1>0, <2>3, Parts, FirstOf DEF RequeueVictim, StagesOK
    <3>2. queue' \in Seq(StagedItem)
      BY <2>3, <3>1, ConsType DEF RequeueVictim
    <3> QED
      BY <1>0, <2>3, <3>2 DEF RequeueVictim
  <2>4. CASE ChoosePreemption \/ ChooseNothing \/ ClaimNothing \/ KillVictim
    BY <2>4 DEF ChoosePreemption, ChooseNothing, ClaimNothing, KillVictim
  <2> QED
    BY <1>5, <2>1, <2>2, <2>3, <2>4 DEF Preempting
<1>6. CASE OpsStep
  <2>0. held' = held
    BY <1>6, NoRerun DEF OpsStep, Submit, Qdel, Clear, EnableHost,
            PopDeferred, DropDeferred, CommandDies, CommandFinishes,
            EnqueueMoving
  <2>1. CASE \E j \in Jobs : Submit(j)
    <3>1. PICK j \in Jobs : Submit(j)
      BY <2>1
    <3>2. NewItem(j) \in StagedItem
      BY HostStateAssumption
         DEF HostStateAssumption, NewItem, StagedItem, Item
    <3>3. queue' \in Seq(StagedItem)
      BY <3>1, <3>2, AppendType DEF Submit
    <3> QED
      BY <2>0, <3>1, <3>3 DEF Submit
  <2>2. CASE \E s \in SUBSET DOMAIN queue : Qdel(s)
    <3>1. PICK s \in SUBSET DOMAIN queue : Qdel(s)
      BY <2>2
    <3>2. queue' \in Keeping(queue, DOMAIN queue \ s)
      BY <3>1 DEF Qdel
    <3>3. queue' \in Seq(StagedItem)
      BY <3>2, KeepingType
    <3> QED
      BY <2>0, <3>1, <3>3 DEF Qdel
  <2>3. CASE \E s \in SUBSET DOMAIN deferred : PopDeferred(s) \/ DropDeferred(s)
    <3>1. PICK s \in SUBSET DOMAIN deferred : PopDeferred(s) \/ DropDeferred(s)
      BY <2>3
    <3>2. deferred' \in Keeping(deferred, DOMAIN deferred \ s)
      BY <3>1 DEF PopDeferred, DropDeferred
    <3>3. deferred' \in Seq(StagedItem)
      BY <3>2, KeepingType
    <3>4. moving' \in Seq(StagedItem)
      <4>1. CASE moving' = moving
        BY <4>1
      <4>2. CASE moving' \in Keeping(deferred, s)
        BY <4>2, KeepingType
      <4> QED
        BY <3>1, <4>1, <4>2 DEF PopDeferred, DropDeferred
    <3> QED
      BY <2>0, <3>1, <3>3, <3>4 DEF PopDeferred, DropDeferred
  <2>4. CASE EnqueueMoving
    <3>1. moving # <<>> /\ queue' = Append(queue, Head(moving))
          /\ moving' = Tail(moving)
      BY <2>4 DEF EnqueueMoving
    <3>2. Head(moving) \in StagedItem /\ Tail(moving) \in Seq(StagedItem)
      BY <3>1
    <3>3. queue' \in Seq(StagedItem)
      BY <3>1, <3>2, AppendType
    <3> QED
      BY <2>0, <2>4, <3>1, <3>2, <3>3 DEF EnqueueMoving
  <2>5. CASE Clear \/ CommandDies \/ \E h \in Hosts : EnableHost(h)
    BY <1>0, <2>5 DEF Clear, CommandDies, EnableHost
  <2> QED
    BY <1>6, <2>1, <2>2, <2>3, <2>4, <2>5, NoRerun DEF OpsStep, CommandFinishes
<1>7. CASE \/ WorkerStep \/ UNCHANGED vars
           \/ \E h \in Hosts : CooldownExpires(h)
  BY <1>7 DEF WorkerStep, JobEnds, Reboot, CooldownExpires, vars
<1>8. CASE Stop \/ Crash
  BY <1>0, <1>8 DEF Stop, Crash, MemoryLost
<1> QED
  BY <1>1, <1>2, <1>3, <1>4, <1>5, <1>6, <1>7, <1>8
     DEF Next, MonitorStep, Dispatch, Preempting


LEMMA EntriesStayStaged ==
    ASSUME Invs, StagedInv, [Next]_vars, NEW h \in Hosts
    PROVE  /\ running'[h] \in Seq(StagedOn(h)')
           /\ tracked'[h] \in Seq(StagedOn(h)')
<1>1. StagedOn(h) \subseteq StagedOn(h)' /\ <<>> \in Seq(StagedOn(h)')
  BY StagedStays
<1>2. CASE Track /\ h = at
  <2> DEFINE x == [hand[1] EXCEPT !.preempt = FALSE, !.fails = 0,
                                  !.resume = NoHost]
  <2>1. mpc = "track" /\ tracked' = [tracked EXCEPT ![at] = <<x>>]
        /\ running' = tracked' /\ staged' = staged
    BY <1>2 DEF Track
  <2>2. hand[1] \in Item /\ (hand[1].dir => <<at, hand[1].job>> \in staged)
    BY <2>1, InHandItem DEF Invs, Holding, StagedInv, StagedHand, job
  <2>3. x \in StagedOn(at)
    BY <2>2 DEF StagedOn, Item
  <2>4. tracked \in [Hosts -> Opt(Item)]
    BY ItemLists DEF Invs
  <2> HIDE DEF x
  <2>5. tracked'[h] = <<x>>
    BY <1>2, <2>1, <2>4
  <2>6. <<x>> \in Seq(StagedOn(h)')
    BY <1>1, <1>2, <2>3
  <2> QED
    BY <2>1, <2>5, <2>6
<1>3. CASE ~(Track /\ h = at)
  <2>1. running[h] \in Seq(StagedOn(h)') /\ tracked[h] \in Seq(StagedOn(h)')
    BY <1>1, SeqGrows DEF StagedInv
  <2> QED
    BY <1>1, <1>3, <2>1, EntriesChange
<1> QED
  BY <1>2, <1>3

\* Steps that leave the monitor where it is, with the item it holds.
LEMMA StandsStill ==
    ASSUME Invs,
           \/ OpsStep \/ WorkerStep \/ UNCHANGED vars
           \/ \E h \in Hosts : CooldownExpires(h) \/ SkipHost(h) \/ PruneHost(h)
    PROVE  UNCHANGED <<mpc, hand, at, target, staged, pids>>
<1>1. CASE OpsStep
  BY <1>1, NoRerun DEF OpsStep, Submit, Qdel, Clear, EnableHost,
          PopDeferred, DropDeferred, CommandDies, CommandFinishes,
          EnqueueMoving
<1>2. CASE \/ WorkerStep \/ UNCHANGED vars
           \/ \E h \in Hosts : CooldownExpires(h) \/ SkipHost(h) \/ PruneHost(h)
  BY <1>2 DEF WorkerStep, JobEnds, Reboot, CooldownExpires, vars, SkipHost,
              PruneHost
<1> QED
  BY <1>1, <1>2

\* The launch script leaves the job's pidfile.
LEMMA LaunchLeavesPidfile ==
    ASSUME Invs, Launch, ScriptRuns(at, job)
    PROVE  HasPidfile(at, job)'
<1>1. at \in Hosts /\ job \in Jobs /\ at' = at /\ hand' = hand
  BY InHandItem DEF Invs, Launch, Holding
<1>2. pids \in [Hosts -> Seq(Jobs)]
  BY Parts DEF Invs, WorkersOK
<1>3. PICK left \in Without(pids[at], {job}) :
        pids' = [pids EXCEPT ![at] = Append(left, job)]
  BY DEF ScriptRuns
<1>4. left \in Seq(Jobs)
  BY <1>1, <1>2, WithoutType
<1> DEFINE new == Append(left, job)
<1>5. Len(new) \in DOMAIN new /\ new[Len(new)] = job
  BY <1>1, <1>4
<1>6. pids'[at] = new
  BY <1>1, <1>2, <1>3
<1>7. job' = job
  BY <1>1 DEF job
<1> HIDE DEF new
<1> QED
  BY <1>1, <1>5, <1>6, <1>7 DEF HasPidfile

\* A staged item that may run on a host names a path only if its payload is
\* there.
LEMMA StagedHere ==
    ASSUME NEW x \in StagedItem, NEW h, Eligible(x, h), x.dir
    PROVE  <<h, x.job>> \in staged
BY DEF StagedItem, Eligible

\* The steps that move an item towards its launch.
LEMMA TakenIsStaged ==
    ASSUME Invs, StagedInv,
           Claim \/ KillVictim \/ UntrackVictim \/ RequeueVictim
             \/ \E h \in Hosts : DequeueForHost(h)
    PROVE  StagedHand'
<1> USE DEF StagedInv, StagedHand, Goto
<1>1. StagedItem' = StagedItem /\ staged' = staged
  <2>1. staged' = staged
    BY DEF Claim, KillVictim, UntrackVictim, RequeueVictim, DequeueForHost
  <2> QED
    BY <2>1 DEF StagedItem
<1>2. CASE \E h \in Hosts : DequeueForHost(h)
  <2>1. PICK h \in Hosts : DequeueForHost(h)
    BY <1>2
  <2>2. PICK i \in BestIndex(queue, h) : hand' = <<queue[i]>>
    BY <2>1 DEF DequeueForHost
  <2>3. i \in DOMAIN queue /\ Eligible(queue[i], h)
    BY <2>2 DEF BestIndex, Earliest, Candidates
  <2>4. queue[i] \in StagedItem
    BY <2>3 DEF StagedLists
  <2>5. hand'[1] = queue[i] /\ at' = h /\ mpc' = "stage"
    BY <2>1, <2>2 DEF DequeueForHost
  <2> QED
    BY <1>1, <2>3, <2>4, <2>5
<1>3. CASE Claim
  <2>1. PICK i \in Positions(queue, target) : hand' = <<queue[i]>>
    BY <1>3 DEF Claim
  <2>2. i \in DOMAIN queue /\ queue[i].job = target
    BY <2>1 DEF Positions, Earliest
  <2>3. queue[i] \in StagedItem /\ Eligible(queue[i], at)
    BY <1>3, <2>2 DEF StagedLists, ClaimInv, Claim
  <2>4. hand'[1] = queue[i] /\ at' = at /\ mpc' = "kill"
    BY <1>3, <2>1 DEF Claim
  <2> QED
    BY <1>1, <2>3, <2>4
<1>4. CASE KillVictim \/ UntrackVictim \/ RequeueVictim
  <2>1. /\ mpc \in {"kill", "untrack", "resume"}
        /\ mpc' \in {"untrack", "kill_failed", "resume", "stage"}
        /\ hand' = hand /\ at' = at
    BY <1>4 DEF KillVictim, UntrackVictim, RequeueVictim
  <2> QED
    BY <1>1, <2>1
<1> QED
  BY <1>2, <1>3, <1>4

LEMMA LaunchedIsStaged ==
    ASSUME Invs, StagedInv,
           \/ StageNothing \/ StagePayload \/ StageFails \/ StageMissing
           \/ Launch \/ Verify
    PROVE  StagedHand'
<1> USE DEF StagedInv, StagedHand, Goto
<1>0. mpc \in Holding /\ hand[1] \in Item /\ job = hand[1].job
  <2>1. mpc \in Holding
    BY DEF StageNothing, StagePayload, StageFails, StageMissing, Launch,
           Verify, Holding
  <2> QED
    BY <2>1, InHandItem DEF Invs, job
<1>1. CASE StageNothing
  <2>1. /\ mpc = "stage" /\ mpc' = "launch" /\ hand' = hand /\ at' = at
        /\ staged' = staged /\ (Payload[job] = "none" \/ hand[1].dir)
    BY <1>1 DEF StageNothing
  <2>2. hand[1].dir => <<at, job>> \in staged
    BY <1>0, <2>1, StagedHere
  <2> QED
    BY <2>1, <2>2 DEF job
<1>2. CASE StagePayload
  <2>1. /\ mpc' = "launch" /\ at' = at /\ <<at, job>> \in staged'
        /\ hand' = <<[hand[1] EXCEPT !.dir = TRUE]>>
    BY <1>2 DEF StagePayload, WithDir
  <2>2. job' = job
    BY <1>0, <2>1 DEF job, Item
  <2> QED
    BY <2>1, <2>2
<1>3. CASE StageFails \/ StageMissing
  <2>1. ~Fault({"download"}) /\ ~Fault({"mkdir"})
    BY DEF Fault, StagingTells
  <2>2. /\ mpc = "stage" /\ mpc' \in {"host_failed", "job_failed"}
        /\ hand' = hand /\ staged' = staged
    BY <1>3, <2>1 DEF StageFails, StageMissing
  <2>3. StagedItem' = StagedItem
    BY <2>2 DEF StagedItem
  <2> QED
    BY <2>2, <2>3
<1>4. CASE Launch
  <2>1. /\ mpc = "launch" /\ mpc' = "verify" /\ hand' = hand /\ at' = at
        /\ staged' = staged
    BY <1>4 DEF Launch
  <2>2. ScriptRuns(at, job)
    BY <1>4 DEF Launch, Fault, StagingTells
  <2>3. HasPidfile(at, job)'
    BY <1>4, <2>2, LaunchLeavesPidfile
  <2> QED
    BY <2>1, <2>3 DEF job
<1>5. CASE Verify
  <2>1. PICK place \in {"track", "outcome", "job_failed", "host_failed"} :
           VerifySees(place) /\ mpc' = place
    BY <1>5 DEF Verify
  <2>2. mpc = "verify" /\ hand' = hand /\ at' = at /\ staged' = staged
    BY <1>5 DEF Verify
  <2>3. ~Fault({"probe"})
    BY DEF Fault, StagingTells
  <2>4. place \in {"track", "outcome"}
    BY <2>1, <2>2, <2>3 DEF VerifySees
  <2> QED
    BY <2>1, <2>2, <2>4 DEF job
<1> QED
  BY <1>1, <1>2, <1>3, <1>4, <1>5

LEMMA HandStaysStaged ==
    ASSUME Invs, StagedInv, [Next]_vars
    PROVE  StagedHand'
<1>1. ASSUME UNCHANGED <<mpc, hand, at, target, staged, pids>>
      PROVE  StagedHand'
  BY <1>1 DEF StagedInv, StagedHand, StagedItem, HasPidfile, job
<1>2. ASSUME mpc' \notin {"stage", "host_failed", "job_failed", "kill",
                          "kill_failed", "untrack", "resume", "launch",
                          "verify", "track"}
      PROVE  StagedHand'
  BY <1>2 DEF StagedHand
<1>3. CASE PollAndPrune
  <2>1. CASE \E h \in Hosts : PruneHost(h)
    BY <1>1, <2>1, StandsStill
  <2>2. CASE ~\E h \in Hosts : PruneHost(h)
    BY <1>2, <1>3, <2>2 DEF PollAndPrune, Start, Poll, PruneEnds, SavePruned,
                            FileCompleted, FileFailed, Goto
  <2> QED
    BY <2>1, <2>2
<1>4. CASE Dispatch
  <2>1. CASE \E h \in Hosts : DequeueForHost(h)
    BY <2>1, TakenIsStaged
  <2>2. CASE \E h \in Hosts : SkipHost(h)
    BY <1>1, <2>2, StandsStill
  <2>3. CASE DispatchEnds
    BY <1>2, <2>3 DEF DispatchEnds, Goto
  <2> QED
    BY <1>4, <2>1, <2>2, <2>3 DEF Dispatch
<1>5. CASE LaunchJob
  <2>1. CASE \/ StageNothing \/ StagePayload \/ StageFails \/ StageMissing
             \/ Launch \/ Verify
    BY <2>1, LaunchedIsStaged
  <2>2. CASE \/ Track \/ RecordDead \/ RequeueBack \/ BenchLoad \/ BenchSave
             \/ RequeueFailed \/ DeferJob \/ FileStartFailure
    BY <1>2, <2>2 DEF Track, RecordDead, RequeueBack, BenchLoad, BenchSave,
              RequeueFailed, DeferJob, FileStartFailure, Goto, AfterLaunch
  <2> QED
    BY <1>5, <2>1, <2>2 DEF LaunchJob
<1>6. CASE Preempting
  <2>1. CASE Claim \/ KillVictim \/ UntrackVictim \/ RequeueVictim
    BY <2>1, TakenIsStaged
  <2>2. CASE ChoosePreemption \/ ChooseNothing \/ ClaimNothing \/ StandDown
    BY <1>2, <2>2 DEF ChoosePreemption, ChooseNothing, ClaimNothing,
                      StandDown, Goto
  <2> QED
    BY <1>6, <2>1, <2>2 DEF Preempting
<1>7. CASE \/ OpsStep \/ WorkerStep \/ UNCHANGED vars
           \/ \E h \in Hosts : CooldownExpires(h)
  BY <1>1, <1>7, StandsStill
<1>8. CASE Stop \/ Crash
  BY <1>2, <1>8 DEF Stop, Crash, Goto
<1> QED
  BY <1>3, <1>4, <1>5, <1>6, <1>7, <1>8 DEF Next, MonitorStep


\* A queued job is queued once, and is not among those being requeued.
LEMMA QueuedOnly ==
    ASSUME Invs, NEW j \in Jobs, j \in JobsIn(queue)
    PROVE  /\ j \notin JobsIn(moving)
           /\ \A i, k \in DOMAIN queue :
                 queue[i].job = j /\ queue[k].job = j => i = k
<1> DEFINE on == Cardinality(Hosting(RunningMap, j))
           mine == Count(queue, j)
           move == Count(moving, j)
           rest == Count(deferred, j) + Count(InHand, j) + Count(held, j)
                     + Count(done, j) + Count(bad, j)
                     + Ends(completed, j) + Ends(failed, j)
<1>1. on \in Nat /\ mine \in Nat /\ move \in Nat /\ rest \in Nat /\ mine # 0
  BY CountsOf, WhereCounts
<1>2. Occurrences(j) \in {0, 1} /\ Occurrences(j) = mine + move + on + rest
  BY CountsOf, OccurrencesAre
<1>3. mine = 1 /\ move = 0
  <2> HIDE DEF on, mine, move, rest
  <2> QED
    BY <1>1, <1>2
<1> DEFINE at_ == {i \in DOMAIN queue : queue[i].job = j}
<1>4. IsFiniteSet(at_)
  <2>1. IsFiniteSet(DOMAIN queue)
    <3>1. DOMAIN queue = 1..Len(queue) /\ Len(queue) \in Nat
      BY ItemLists DEF Invs
    <3> QED
      BY <3>1, FS_Interval
  <2> QED
    BY <2>1, FS_Subset
<1>5. PICK x : at_ = {x}
  <2>1. Cardinality(at_) = 1
    BY <1>3 DEF Count
  <2> HIDE DEF at_
  <2> QED
    BY <1>4, <2>1, FS_Singleton
<1>6. ASSUME NEW i \in DOMAIN queue, NEW k \in DOMAIN queue,
             queue[i].job = j, queue[k].job = j
      PROVE  i = k
  <2>1. i \in at_ /\ k \in at_
    BY <1>6
  <2> QED
    BY <1>5, <2>1
<1>7. j \notin JobsIn(moving)
  BY <1>3, WhereCounts
<1> QED
  BY <1>6, <1>7

Claimable == {x \in Item : x.job = target => Eligible(x, at)}

LEMMA ChosenIsClaimable ==
    ASSUME Invs, ChoosePreemption
    PROVE  ClaimInv'
<1>1. PICK i \in Preemptor : \E h \in Weakest(Victims(queue[i])) :
        target' = queue[i].job /\ at' = h
  BY DEF ChoosePreemption
<1>2. PICK h \in Weakest(Victims(queue[i])) :
        target' = queue[i].job /\ at' = h
  BY <1>1
<1>3. i \in DOMAIN queue /\ Eligible(queue[i], h)
  BY <1>2 DEF Preemptor, Preemptors, Earliest, Weakest, Victims
<1>4. queue' = queue
  BY DEF ChoosePreemption
<1>5. queue[i].job \in JobsIn(queue) /\ queue[i].job \in Jobs
  BY <1>3, ItemLists, JobsOfItems DEF Invs, JobsIn
<1>6. ASSUME NEW k \in DOMAIN queue, queue[k].job = queue[i].job PROVE k = i
  BY <1>3, <1>5, <1>6, QueuedOnly
<1> QED
  BY <1>2, <1>3, <1>4, <1>5, <1>6 DEF ClaimInv

\* Meanwhile operators may delete the job, but nobody queues it again.
LEMMA ClaimStays ==
    ASSUME Invs, ClaimInv, mpc = "claim", OpsStep
    PROVE  ClaimInv'
<1>0. mpc' = mpc /\ at' = at /\ target' = target
  BY StandsStill
<1>1. /\ queue \in Seq(Item) /\ deferred \in Seq(Item) /\ moving \in Seq(Item)
      /\ target \in JobsIn(queue) \cup withdrawn
  BY ItemLists DEF Invs, ClaimInv
<1>2. queue \in Seq(Claimable)
  <2>1. \A i \in DOMAIN queue : queue[i] \in Claimable
    BY <1>1 DEF ClaimInv, Claimable
  <2> QED
    BY <1>1, <2>1
<1>3. target \in submitted /\ target \in Jobs /\ target \notin JobsIn(moving)
  <2>1. target \in submitted
    BY <1>1, PlacesSubmitted DEF Invs, OneInv, OnDisk
  <2>2. target \in Jobs
    BY <2>1, Parts DEF Invs, GhostsOK
  <2>3. target \in withdrawn => target \in Gone
    BY DEF Gone
  <2> QED
    BY <1>1, <2>1, <2>2, <2>3, QueuedOnly, GoneOnly
<1> SUFFICES /\ queue' \in Seq(Claimable)
             /\ target \in JobsIn(queue') \cup withdrawn'
  <2>1. \A i \in DOMAIN queue' : queue'[i] \in Claimable
    OBVIOUS
  <2> QED
    BY <1>0, <2>1 DEF ClaimInv, Claimable
<1>4. CASE \E j \in Jobs : Submit(j)
  <2>1. PICK j \in Jobs : Submit(j)
    BY <1>4
  <2>2. queue' = Append(queue, NewItem(j)) /\ withdrawn' = withdrawn /\ j # target
    BY <1>3, <2>1 DEF Submit
  <2>3. NewItem(j) \in Claimable /\ NewItem(j) \in Item
    BY <2>2, HostStateAssumption
       DEF HostStateAssumption, NewItem, Claimable, Item
  <2>4. queue' \in Seq(Claimable)
    BY <1>2, <2>2, <2>3, AppendType
  <2>5. JobsIn(queue) \subseteq JobsIn(queue')
    BY <1>1, <2>2, <2>3, JobsInAppend
  <2> QED
    BY <1>1, <2>2, <2>4, <2>5
<1>5. CASE \E s \in SUBSET DOMAIN queue : Qdel(s)
  <2>1. PICK s \in SUBSET DOMAIN queue : Qdel(s)
    BY <1>5
  <2>2. /\ queue' \in Keeping(queue, DOMAIN queue \ s)
        /\ withdrawn' = withdrawn \cup {queue[i].job : i \in s}
    BY <2>1 DEF Qdel
  <2>3. queue' \in Seq(Claimable)
    BY <1>2, <2>2, KeepingType
  <2>4. {queue[i].job : i \in DOMAIN queue \ s} \subseteq JobsIn(queue')
    BY <1>1, <2>2, JobsInKeeping
  <2> QED
    BY <1>1, <2>2, <2>3, <2>4 DEF JobsIn
<1>6. CASE EnqueueMoving
  <2>1. moving # <<>> /\ queue' = Append(queue, Head(moving))
        /\ withdrawn' = withdrawn
    BY <1>6 DEF EnqueueMoving
  <2>2. Head(moving) \in Item /\ Head(moving) = moving[1]
        /\ 1 \in DOMAIN moving
    BY <1>1, <2>1
  <2>3. Head(moving).job # target
    BY <1>3, <2>2 DEF JobsIn
  <2>4. queue' \in Seq(Claimable)
    <3>1. Head(moving) \in Claimable
      BY <2>2, <2>3 DEF Claimable
    <3> QED
      BY <1>2, <2>1, <3>1, AppendType
  <2>5. JobsIn(queue) \subseteq JobsIn(queue')
    BY <1>1, <2>1, <2>2, JobsInAppend
  <2> QED
    BY <1>1, <2>1, <2>4, <2>5
<1>7. CASE Clear
  <2>1. <<>> \in Seq(Claimable)
    OBVIOUS
  <2> QED
    BY <1>1, <1>7, <2>1 DEF Clear
<1>8. CASE \/ CommandDies \/ \E h \in Hosts : EnableHost(h)
           \/ \E s \in SUBSET DOMAIN deferred : PopDeferred(s) \/ DropDeferred(s)
  BY <1>1, <1>2, <1>8 DEF CommandDies, EnableHost, PopDeferred, DropDeferred
<1> QED
  BY <1>4, <1>5, <1>6, <1>7, <1>8, NoRerun DEF OpsStep, CommandFinishes

LEMMA StepClaim == Invs /\ ClaimInv /\ [Next]_vars => ClaimInv'
<1> SUFFICES ASSUME Invs, ClaimInv, [Next]_vars PROVE ClaimInv'
  OBVIOUS
<1>1. ASSUME mpc' # "claim" PROVE ClaimInv'
  BY <1>1 DEF ClaimInv
<1>2. CASE OpsStep
  BY <1>1, <1>2, ClaimStays, StandsStill
<1>3. CASE \/ WorkerStep \/ UNCHANGED vars
           \/ \E h \in Hosts : CooldownExpires(h)
  BY <1>3 DEF WorkerStep, JobEnds, Reboot, CooldownExpires, vars, ClaimInv
<1>4. CASE PollAndPrune \/ Dispatch
  BY <1>1, <1>4 DEF PollAndPrune, Start, Poll, PruneHost, PruneEnds,
        SavePruned, FileCompleted, FileFailed, Dispatch, DequeueForHost,
        SkipHost, DispatchEnds, Goto
<1>5. CASE LaunchJob
  BY <1>1, <1>5 DEF LaunchJob, StageNothing, StagePayload, StageFails,
        StageMissing, Launch, Verify, Track, RecordDead, RequeueBack, BenchLoad,
        BenchSave, RequeueFailed, DeferJob, FileStartFailure, Goto, AfterLaunch
<1>6. CASE Preempting
  <2>1. CASE ChoosePreemption
    BY <2>1, ChosenIsClaimable
  <2>2. CASE ~ChoosePreemption
    BY <1>1, <1>6, <2>2 DEF Preempting, ChooseNothing, Claim, ClaimNothing,
          KillVictim, StandDown, UntrackVictim, RequeueVictim, Goto
  <2> QED
    BY <2>1, <2>2
<1>7. CASE Stop \/ Crash
  BY <1>1, <1>7 DEF Stop, Crash, Goto
<1> QED
  BY <1>2, <1>3, <1>4, <1>5, <1>6, <1>7 DEF Next, MonitorStep

LEMMA StepStaged == Invs /\ StagedInv /\ [Next]_vars => StagedInv'
<1> SUFFICES ASSUME Invs, StagedInv, [Next]_vars PROVE StagedInv'
  OBVIOUS
<1>1. StagingTells'
  BY DEF StagedInv, StagingTells
<1>2. ClaimInv'
  BY StepClaim DEF StagedInv
<1> QED
  BY <1>1, <1>2, ListsStayStaged, EntriesStayStaged, HandStaysStaged
     DEF StagedInv

\* A job that was submitted with a payload starts only on a host that holds
\* it, although it may have been staged, interrupted or put back in between
\* (submit_to_host, build_resume_item; docs/submitting.rst: "with PAYLOAD_DIR
\* set to the remote payload path").
THEOREM PayloadsArePresent ==
    NothingRequeuedByHand /\ StagingTells => (Spec => PayloadPresent)
<1>1. StagingTells /\ Init => StagedInv
  <2> SUFFICES ASSUME StagingTells, Init PROVE StagedInv
    OBVIOUS
  <2>1. /\ <<>> \in Seq(StagedItem)
        /\ \A h \in Hosts : <<>> \in Seq(StagedOn(h))
    OBVIOUS
  <2> QED
    BY <2>1 DEF Init, StagedInv, StagedLists, StagedHand, ClaimInv
<1>2. Invs /\ StagedInv /\ [Next]_vars => StagedInv'
  BY StepStaged
<1>3. Invs /\ StagedInv /\ [Next]_vars
        => [\A h \in Hosts, j \in Jobs :
              Begins(h, j) /\ Payload[j] # "none" => <<h, j>> \in staged]_vars
  <2> SUFFICES ASSUME Invs, StagedInv, Next, NEW h \in Hosts, NEW j \in Jobs,
                      Begins(h, j), Payload[j] # "none"
               PROVE  <<h, j>> \in staged
    OBVIOUS
  <2>1. Launch /\ h = at
    BY OnlyLaunchBegins DEF Invs
  <2>2. j = job
    <3>1. procs \in [Hosts -> SUBSET Jobs]
      BY Parts DEF Invs, WorkersOK
    <3> QED
      BY <2>1, <3>1 DEF Launch, ScriptRuns, Begins
  <2> QED
    BY <2>1, <2>2 DEF Launch, StagedInv, StagedHand
<1> QED
  BY <1>1, <1>2, <1>3, OneInvariant, PTL DEF Spec, PayloadPresent


=============================================================================

--------------------------- MODULE Lifecycle_proofs --------------------------
(***************************************************************************)
(* The queue host implements JobLifecycle and HostView, as long as no      *)
(* operator runs requeue-running: every step of the monitor, of an         *)
(* operator and of a worker, every crash included, moves jobs only as      *)
(* JobLifecycle allows, and changes the files only as HostView allows.     *)
(***************************************************************************)
EXTENDS WorkerRuns_proofs

USE DEF files, workers, memory, commands, ghosts, bounds,
        queueOnly, launching, quiet, others

-----------------------------------------------------------------------------
(* What the status of a job stands for.                                    *)

Parked == JobsIn(deferred) \cup JobsIn(moving)
Ended == EndedIn(completed) \cup EndedIn(failed)
Moving == InMemory \ OnHosts(running)

\* A job that is gone went once.
RetiredOnce ==
    /\ withdrawn \cap dropped = {}
    /\ evicted \cap (withdrawn \cup dropped) = {}

Life == Invs /\ NoJobLost /\ RetiredOnce

\* The places exclude one another, except that the record of a finished job
\* is in memory while the job is still in running.json.
LEMMA PlacesApart ==
    ASSUME Invs, NEW j \in Jobs
    PROVE  /\ j \in JobsIn(queue)
                => /\ j \notin OnHosts(running) /\ j \notin Parked
                   /\ j \notin Ended /\ j \notin InMemory
           /\ j \in OnHosts(running) => j \notin Parked /\ j \notin Ended
           /\ j \in Parked => j \notin Ended /\ j \notin InMemory
           /\ j \in JobsIn(moving) => j \notin JobsIn(deferred)
           /\ j \in Ended => j \notin InMemory
           /\ j \in OnDisk \cup InMemory \cup JobsIn(moving)
                => j \notin Gone
<1> DEFINE q == Count(queue, j)
           d == Count(deferred, j)
           m == Count(moving, j)
           on == Cardinality(Hosting(RunningMap, j))
           file == Cardinality(Hosting(running, j))
           c == Count(done, j)
           b == Count(bad, j)
           mine == Count(InHand, j) + Count(held, j)
           ended == Ends(completed, j) + Ends(failed, j)
<1>1. /\ q \in Nat /\ d \in Nat /\ m \in Nat /\ on \in Nat /\ file \in Nat
      /\ c \in Nat /\ b \in Nat /\ mine \in Nat /\ ended \in Nat
      /\ mine = 0 <=> Count(InHand, j) = 0 /\ Count(held, j) = 0
      /\ ended = 0 <=> Ends(completed, j) = 0 /\ Ends(failed, j) = 0
  BY CountsOf
<1>2. file = on + c + b \/ file = on
  BY FilesBehind
<1>3. /\ Occurrences(j) = q + d + m + on + mine + c + b + ended
      /\ Occurrences(j) \in {0, 1}
  BY OccurrencesAre, CountsOf
<1>4. /\ q = 0 <=> j \notin JobsIn(queue)
      /\ d = 0 <=> j \notin JobsIn(deferred)
      /\ m = 0 <=> j \notin JobsIn(moving)
      /\ file = 0 <=> j \notin OnHosts(running)
      /\ c = 0 <=> j \notin JobsIn(done)
      /\ b = 0 <=> j \notin JobsIn(bad)
  BY WhereCounts
<1>5. /\ mine = 0 <=> j \notin JobsIn(InHand) \cup JobsIn(held)
      /\ ended = 0 <=> j \notin Ended
  BY <1>1, WhereCounts DEF Ended
<1>6. j \in Gone => j \notin OnDisk \cup InMemory \cup JobsIn(moving)
  BY CountsOf, NowhereIsZero
<1> HIDE DEF q, d, m, on, file, c, b, mine, ended
<1>7. /\ q # 0 => file = 0 /\ d = 0 /\ m = 0 /\ ended = 0 /\ mine = 0
                       /\ c = 0 /\ b = 0
      /\ file # 0 => d = 0 /\ m = 0 /\ ended = 0
      /\ d # 0 \/ m # 0 => ended = 0 /\ mine = 0 /\ c = 0 /\ b = 0
      /\ m # 0 => d = 0
      /\ ended # 0 => mine = 0 /\ c = 0 /\ b = 0
  BY <1>1, <1>2, <1>3
<1> QED
  BY <1>4, <1>5, <1>6, <1>7 DEF Parked, InMemory

ClassStatus(j) ==
    /\ j \in JobsIn(queue) => StatusOf(j) = "queued"
    /\ j \in OnHosts(running) => StatusOf(j) = "running"
    /\ j \in Parked => StatusOf(j) = "deferred"
    /\ j \in Ended \cup evicted => StatusOf(j) = "finished"
    /\ j \in Moving => StatusOf(j) = "moving"
    /\ j \in withdrawn => StatusOf(j) = "deleted"
    /\ j \in dropped => StatusOf(j) = "lost"
    /\ j \notin submitted => StatusOf(j) = "new"
    /\ \/ j \in JobsIn(queue) \cup OnHosts(running) \cup Parked \cup Ended
                  \cup evicted \cup Moving \cup withdrawn \cup dropped
       \/ j \notin submitted

StatusesAre == \A j \in Jobs : ClassStatus(j)

LEMMA StatusIs == Life => StatusesAre
<1> SUFFICES ASSUME Life, NEW j \in Jobs PROVE ClassStatus(j)
  BY DEF StatusesAre
<1>1. Invs /\ NoJobLost /\ RetiredOnce
  BY DEF Life
<1>2. withdrawn \cup dropped \cup evicted \subseteq submitted
  BY <1>1 DEF Invs, OneInv
<1>3. CASE j \in JobsIn(queue)
  BY <1>1, <1>2, <1>3, PlacesApart
     DEF ClassStatus, StatusOf, Parked, Ended, Moving, Gone, OnDisk
<1>4. CASE j \in OnHosts(running)
  BY <1>1, <1>2, <1>4, PlacesApart
     DEF ClassStatus, StatusOf, Parked, Ended, Moving, Gone, OnDisk
<1>5. CASE j \in Parked
  BY <1>1, <1>2, <1>5, PlacesApart
     DEF ClassStatus, StatusOf, Parked, Ended, Moving, Gone, OnDisk
<1>6. CASE j \in Ended
  BY <1>1, <1>2, <1>6, PlacesApart
     DEF ClassStatus, StatusOf, Parked, Ended, Moving, Gone, OnDisk
<1>7. CASE j \in Moving
  BY <1>1, <1>2, <1>7, PlacesApart
     DEF ClassStatus, StatusOf, Parked, Ended, Moving, Gone, OnDisk
<1>8. CASE j \in Gone
  BY <1>1, <1>2, <1>8, PlacesApart
     DEF ClassStatus, StatusOf, Parked, Ended, Moving, Gone, OnDisk, RetiredOnce
<1>9. j \in JobsIn(queue) \cup OnHosts(running) \cup Parked \cup Ended
              \cup Moving \cup Gone
  BY <1>1 DEF NoJobLost, OnDisk, Parked, Ended, Moving, Gone
<1> QED
  BY <1>3, <1>4, <1>5, <1>6, <1>7, <1>8, <1>9

LEMMA StatusIsThen == Life' => \A j \in Jobs : ClassStatus(j)'
<1>1. Life' => StatusesAre'
  BY StatusIs, PTL
<1> QED
  BY <1>1 DEF StatusesAre

-----------------------------------------------------------------------------
(* How steps of the host are steps of JobLifecycle.                        *)

\* j stays where it is.
Steady(j) ==
    /\ j \in JobsIn(queue) => j \in JobsIn(queue')
    /\ j \in OnHosts(running) => j \in OnHosts(running')
    /\ j \in JobsIn(deferred) => j \in JobsIn(deferred')
    /\ j \in JobsIn(moving) => j \in JobsIn(moving')
    /\ j \in Ended \cup evicted => j \in Ended' \cup evicted'
    /\ j \in Moving => j \in Moving'
    /\ j \in withdrawn => j \in withdrawn'
    /\ j \in dropped => j \in dropped'
    /\ j \notin submitted => j \notin submitted'

LEMMA SteadyStays ==
    ASSUME Life, Life', NEW j \in Jobs, Steady(j)
    PROVE  StatusOf(j)' = StatusOf(j)
<1>1. ClassStatus(j) /\ ClassStatus(j)'
  BY StatusIs, StatusIsThen DEF StatusesAre
<1> QED
  BY <1>1 DEF ClassStatus, Steady, Parked

\* One job, or some, go from the places A to the places B; the others stay.
ShiftsOne(A, B) ==
    \E j \in Jobs : j \in A /\ j \in B /\ \A k \in Jobs \ {j} : Steady(k)
Shift(A, B) ==
    \E S \in SUBSET Jobs : S \subseteq A /\ S \subseteq B
                            /\ \A k \in Jobs \ S : Steady(k)

LEMMA SomeGo ==
    ASSUME Life, Life', NEW S \in SUBSET Jobs, NEW from, NEW to,
           \A j \in S : StatusOf(j) = from /\ StatusOf(j)' = to,
           \A j \in Jobs \ S : Steady(j)
    PROVE  Lifecycle!Go(S, from, to)
<1>1. \A j \in Jobs \ S : StatusOf(j)' = StatusOf(j)
  BY SteadyStays
<1> QED
  BY <1>1 DEF Lifecycle!Go

\* Nothing moves.
AllSteady == \A j \in Jobs : Steady(j)

\* The abstract specification's variable.
StatusNow == [j \in Jobs |-> StatusOf(j)]

LEMMA AllStay ==
    ASSUME Life, Life', AllSteady
    PROVE  UNCHANGED StatusNow
<1>1. \A j \in Jobs : StatusOf(j)' = StatusOf(j)
  BY SteadyStays DEF AllSteady
<1> QED
  BY <1>1 DEF StatusNow

\* Where nothing leaves a file or a memory, every job stays.
LEMMA NothingLeaves ==
    ASSUME UNCHANGED <<queue, running, deferred, moving, completed, submitted,
                       withdrawn, dropped>>,
           EndedIn(failed) \cup evicted \subseteq EndedIn(failed') \cup evicted',
           InMemory \subseteq InMemory',
           NEW j
    PROVE  Steady(j)
BY DEF Steady, Parked, Ended, Moving

LEMMA FailedGrowsTo ==
    ASSUME Invs, NEW r \in Seq(Record), FailedGrowsBy(r)
    PROVE  /\ EndedIn(failed) \cup EndedIn(r) \cup evicted
                \subseteq EndedIn(failed') \cup evicted'
           /\ evicted' \subseteq evicted \cup EndedIn(failed) \cup EndedIn(r)
<1>1. failed \in Seq(Record)
  BY ItemLists DEF Invs
<1>2. EndedIn(failed \o r) = EndedIn(failed) \cup EndedIn(r)
  BY <1>1, JobsInConcat
<1> QED
  BY <1>1, <1>2, FailedKept DEF FailedGrowsBy

\* The record of a job found dead one second after its launch.
LEMMA DeadRecord ==
    ASSUME Invs, RecordDead
    PROVE  /\ EndedIn(failed) \cup evicted \subseteq EndedIn(failed') \cup evicted'
           /\ EndedIn(completed) \subseteq EndedIn(completed')
           /\ job \in Ended' \cup evicted'
           /\ evicted' \subseteq evicted \cup EndedIn(failed) \cup {job}
<1>1. PICK r \in Record :
        /\ Fetched(r, at, job, TRUE)
        /\ completed' = IF Success(r) THEN Append(completed, r) ELSE completed
        /\ FailedGrowsBy(IF Success(r) THEN <<>> ELSE <<r>>)
  BY DEF RecordDead
<1>2. r.job = job /\ r.status # "start_failed"
  <2>1. Fetched(r, at, job, TRUE)
    BY <1>1
  <2> QED
    BY <2>1, FetchedIs
<1> DEFINE t == IF Success(r) THEN <<>> ELSE <<r>>
<1>3. t \in Seq(Record) /\ EndedIn(t) = IF Success(r) THEN {} ELSE {job}
  BY <1>2 DEF EndedIn
<1>4. FailedGrowsBy(t)
  BY <1>1
<1>5. completed \in Seq(Record)
  BY ItemLists DEF Invs
<1>6. EndedIn(completed')
        = IF Success(r) THEN EndedIn(completed) \cup {job} ELSE EndedIn(completed)
  BY <1>1, <1>2, <1>5, EndedInAppend
<1> HIDE DEF t
<1>7. /\ EndedIn(failed) \cup EndedIn(t) \cup evicted
              \subseteq EndedIn(failed') \cup evicted'
      /\ evicted' \subseteq evicted \cup EndedIn(failed) \cup EndedIn(t)
  BY <1>3, <1>4, FailedGrowsTo
<1> QED
  BY <1>3, <1>6, <1>7 DEF Ended

\* The record of a failed start is not an end.
LEMMA StartFailureRecord ==
    ASSUME Invs, FileStartFailure
    PROVE  /\ EndedIn(failed) \cup evicted \subseteq EndedIn(failed') \cup evicted'
           /\ evicted' \subseteq evicted \cup EndedIn(failed)
<1> DEFINE r == <<[job |-> job, fresh |-> TRUE, status |-> "start_failed"]>>
<1>1. r \in Seq(Record) /\ EndedIn(r) = {}
  BY InHandItem DEF Invs, FileStartFailure, Holding, Record, EndedIn
<1>2. FailedGrowsBy(r)
  BY DEF FileStartFailure
<1> HIDE DEF r
<1> QED
  BY <1>1, <1>2, FailedGrowsTo

Here == OnDisk \cup InMemory \cup JobsIn(moving)

\* What a step withdraws, drops or evicts was somewhere, and a step does only
\* one of these.
LEMMA OneRetirement ==
    ASSUME Invs, [Next]_vars
    PROVE  \/ /\ withdrawn' \subseteq withdrawn \cup Here
              /\ UNCHANGED <<dropped, evicted>>
           \/ /\ dropped' \subseteq dropped \cup Here
              /\ UNCHANGED <<withdrawn, evicted>>
           \/ /\ evicted' \subseteq evicted \cup Here
              /\ UNCHANGED <<withdrawn, dropped>>
<1>0. /\ JobsIn(queue) \subseteq Here /\ JobsIn(deferred) \subseteq Here
      /\ EndedIn(failed) \subseteq Here /\ JobsIn(bad) \subseteq Here
      /\ JobsIn(InHand) \subseteq Here /\ JobsIn(moving) \subseteq Here
      /\ InMemory \subseteq Here
      /\ \A s \in SUBSET DOMAIN queue : {queue[i].job : i \in s} \subseteq Here
      /\ \A s \in SUBSET DOMAIN deferred :
            {deferred[i].job : i \in s} \subseteq Here
  BY DEF Here, OnDisk, InMemory, JobsIn
<1>1. CASE PollAndPrune
  <2>1. CASE FileFailed
    <3>1. bad \in Seq(Record) /\ FailedGrowsBy(bad)
      BY <2>1, ItemLists DEF FileFailed, Invs
    <3>2. evicted' \subseteq evicted \cup EndedIn(failed) \cup EndedIn(bad)
      BY <3>1, FailedGrowsTo
    <3>3. EndedIn(bad) \subseteq JobsIn(bad)
      BY DEF EndedIn, JobsIn
    <3> QED
      BY <1>0, <2>1, <3>2, <3>3 DEF FileFailed
  <2>2. CASE ~FileFailed
    BY <1>1, <2>2 DEF PollAndPrune, Start, Poll, PruneHost, PruneEnds,
                      SavePruned, FileCompleted
  <2> QED
    BY <2>1, <2>2
<1>2. CASE Dispatch
  BY <1>2 DEF Dispatch, DequeueForHost, SkipHost, DispatchEnds
<1>3. CASE LaunchJob
  <2>1. CASE RecordDead
    <3>1. job \in JobsIn(InHand)
      BY <2>1, InHandOnly DEF RecordDead, Holding
    <3> QED
      BY <1>0, <2>1, <3>1, DeadRecord DEF RecordDead
  <2>2. CASE FileStartFailure
    BY <1>0, <2>2, StartFailureRecord DEF FileStartFailure
  <2>3. CASE ~RecordDead /\ ~FileStartFailure
    BY <1>3, <2>3 DEF LaunchJob, StageNothing, StagePayload, StageFails,
              StageMissing, Launch, Verify, Track, RequeueBack, BenchLoad,
              BenchSave, RequeueFailed, DeferJob
  <2> QED
    BY <2>1, <2>2, <2>3
<1>4. CASE Preempting
  BY <1>4 DEF Preempting, ChoosePreemption, ChooseNothing, Claim,
              ClaimNothing, KillVictim, StandDown, UntrackVictim, RequeueVictim
<1>5. CASE OpsStep
  BY <1>0, <1>5, NoRerun DEF OpsStep, Submit, Qdel, Clear, EnableHost, PopDeferred,
              DropDeferred, CommandDies, CommandFinishes, EnqueueMoving
<1>6. CASE \/ WorkerStep \/ UNCHANGED vars \/ Stop \/ Crash
           \/ \E h \in Hosts : CooldownExpires(h)
  BY <1>0, <1>6 DEF WorkerStep, JobEnds, Reboot, vars, Stop, Crash, CooldownExpires
<1> QED
  BY <1>1, <1>2, <1>3, <1>4, <1>5, <1>6 DEF Next, MonitorStep

LEMMA StepRetired == Invs /\ RetiredOnce /\ [Next]_vars => RetiredOnce'
<1> SUFFICES ASSUME Invs, RetiredOnce, [Next]_vars PROVE RetiredOnce'
  OBVIOUS
<1>1. Here \subseteq Jobs
  BY PlacesSubmitted, Parts DEF Invs, GhostsOK, Here
<1>2. \A j \in Here : j \notin withdrawn \cup dropped \cup evicted
  BY <1>1, PlacesApart DEF Gone, Here
<1>3. \/ /\ withdrawn' \subseteq withdrawn \cup Here
         /\ UNCHANGED <<dropped, evicted>>
      \/ /\ dropped' \subseteq dropped \cup Here
         /\ UNCHANGED <<withdrawn, evicted>>
      \/ /\ evicted' \subseteq evicted \cup Here
         /\ UNCHANGED <<withdrawn, dropped>>
  BY OneRetirement
<1> QED
  BY <1>2, <1>3 DEF RetiredOnce


-----------------------------------------------------------------------------
(* The monitor's steps.                                                    *)

\* Steps that move no job at all.
LEMMA IdleSteps ==
    ASSUME Life,
           \/ Start \/ Poll \/ PruneEnds \/ DispatchEnds \/ Launch \/ Verify
           \/ StageNothing \/ StageMissing \/ BenchLoad \/ BenchSave
           \/ ChoosePreemption \/ ChooseNothing \/ ClaimNothing \/ KillVictim
           \/ (\E h \in Hosts : SkipHost(h) \/ EnableHost(h)
                                  \/ CooldownExpires(h))
           \/ WorkerStep \/ UNCHANGED vars
    PROVE  AllSteady
<1>1. /\ UNCHANGED <<queue, running, deferred, moving, completed, failed,
                     submitted, withdrawn, dropped, evicted>>
      /\ UNCHANGED <<hand, held, done, bad>>
  BY DEF Start, Poll, PruneEnds, DispatchEnds, Launch, Verify, StageNothing,
         StageMissing, BenchLoad, BenchSave, ChoosePreemption, ChooseNothing,
         ClaimNothing, KillVictim, SkipHost, EnableHost, CooldownExpires,
         WorkerStep, JobEnds, Reboot, vars
<1>2. InHand' = InHand
  BY <1>1 DEF Start, Poll, PruneEnds, DispatchEnds, Launch, Verify, StageNothing,
         StageMissing, BenchLoad, BenchSave, ChoosePreemption, ChooseNothing,
         ClaimNothing, KillVictim, SkipHost, EnableHost, CooldownExpires,
         WorkerStep, JobEnds, Reboot, vars, InHand, Goto, VerifySees
<1>3. InMemory' = InMemory
  BY <1>1, <1>2 DEF InMemory
<1>4. \A j \in Jobs : Steady(j)
  BY <1>1, <1>3, NothingLeaves
<1> QED
  BY <1>4 DEF AllSteady

\* Staging, the record of a failed start, a monitor told to stop: nothing
\* moves either.
LEMMA StandingSteps ==
    ASSUME Life,
           \/ StagePayload \/ StageFails \/ FileStartFailure \/ Stop
           \/ \E h \in Hosts : PruneHost(h)
    PROVE  AllSteady
<1>0. Invs /\ TypeInv
  BY DEF Life, Invs
<1>1. UNCHANGED <<queue, running, deferred, moving, completed, submitted,
                  withdrawn, dropped>>
  BY DEF StagePayload, StageFails, FileStartFailure, Stop, PruneHost
<1>2. EndedIn(failed) \cup evicted \subseteq EndedIn(failed') \cup evicted'
  <2>1. CASE FileStartFailure
    BY <1>0, <2>1, StartFailureRecord
  <2>2. CASE ~FileStartFailure
    BY <2>2 DEF StagePayload, StageFails, Stop, PruneHost
  <2> QED
    BY <2>1, <2>2
<1>3. InMemory \subseteq InMemory'
  <2>1. CASE StagePayload \/ StageFails
    <3>1. hand = <<hand[1]>> /\ hand[1] \in Item
      BY <1>0, <2>1, ItemInHand DEF StagePayload, StageFails, Holding
    <3>2. hand' = hand \/ hand' = <<[hand[1] EXCEPT !.dir = TRUE]>>
      BY <2>1 DEF StagePayload, StageFails, WithDir
    <3>3. [hand[1] EXCEPT !.dir = TRUE].job = hand[1].job
      BY <3>1 DEF Item
    <3>4. JobsIn(hand') = JobsIn(hand)
      BY <3>1, <3>2, <3>3, JobsInOne
    <3> QED
      BY <2>1, <3>4 DEF StagePayload, StageFails, InMemory, InHand, Goto
  <2>2. CASE FileStartFailure
    BY <2>2, JobsInNone DEF FileStartFailure, InMemory, InHand
  <2>3. CASE Stop
    <3>1. hand = <<>> /\ held = <<>> /\ done = <<>> /\ bad = <<>>
      BY <1>0, <2>3 DEF Stop, Invs, HandsInv, Holding, DiskInv
    <3> QED
      BY <2>3, <3>1, JobsInNone DEF InMemory, InHand
  <2>4. ASSUME NEW h \in Hosts, PruneHost(h) PROVE InMemory \subseteq InMemory'
    <3>1. PICK r \in Record : Collect(r)
      BY <2>4 DEF PruneHost
    <3>2. JobsIn(done) \subseteq JobsIn(done') /\ JobsIn(bad) \subseteq JobsIn(bad')
      BY <1>0, <3>1, ItemLists, JobsInAppend DEF Collect
    <3> QED
      BY <2>4, <3>2 DEF PruneHost, InMemory, InHand
  <2> QED
    BY <2>1, <2>2, <2>3, <2>4
<1>4. \A j \in Jobs : Steady(j)
  BY <1>1, <1>2, <1>3, NothingLeaves
<1> QED
  BY <1>4 DEF AllSteady

\* Outside the pruning of a cycle, running.json has what the map in force has.
LEMMA MapIsFile ==
    ASSUME Invs, mpc \notin {"prune", "save"}
    PROVE  RunningMap = running
<1>1. CASE mpc = "down"
  BY <1>1 DEF RunningMap
<1>2. CASE mpc # "down"
  <2>1. \A h \in Hosts : running[h] = tracked[h]
    BY <1>2 DEF Invs, DiskInv, DiskFollowsMemory
  <2>2. running = tracked
    BY <2>1, ItemLists DEF Invs
  <2> QED
    BY <1>2, <2>2 DEF RunningMap
<1> QED
  BY <1>1, <1>2

\* There, no job in the monitor's memory is in running.json.
LEMMA MemoryNotRunning ==
    ASSUME Invs, mpc \notin {"prune", "save"}, NEW j \in Jobs, j \in InMemory
    PROVE  j \notin OnHosts(running)
<1>1. RunningMap = running
  BY MapIsFile
<1> QED
  BY <1>1, RunningOnly DEF OnHosts, InMemory

\* Finished jobs leave running.json in one write...
LEMMA SavePrunedShifts ==
    ASSUME Life, SavePruned
    PROVE  Shift(OnHosts(running), Moving')
<1>0. Invs /\ TypeInv
  BY DEF Life, Invs
<1> DEFINE S == OnHosts(running) \ OnHosts(tracked)
<1>1. /\ running' = tracked
      /\ UNCHANGED <<queue, deferred, completed, failed, moving, hand, held,
                     done, bad, submitted, withdrawn, dropped, evicted>>
      /\ mpc = "save" /\ mpc' \in {"file_completed", "file_failed"}
  BY DEF SavePruned, Goto
<1>2. InMemory' = InMemory
  BY <1>1 DEF InMemory, InHand
<1>3. OnHosts(running') = OnHosts(tracked)
  BY <1>1 DEF OnHosts
<1>4. OnHosts(running) \subseteq Jobs /\ S \subseteq InMemory
  <2>1. OnHosts(running) \subseteq OnDisk
    BY DEF OnDisk
  <2>2. OnHosts(running) \subseteq Jobs
    BY <1>0, <2>1, PlacesSubmitted, Parts DEF GhostsOK
  <2> QED
    BY <1>0, <1>1, <2>2 DEF Invs, RecordsInv, InMemory
<1>5. OnHosts(tracked) \subseteq OnHosts(running)
  <2>1. \A h \in Hosts : running[h] = tracked[h] \/ tracked[h] = <<>>
    BY <1>0, <1>1 DEF Invs, DiskInv, DiskFollowsMemory
  <2> QED
    BY <2>1, JobsInNone DEF OnHosts
<1>6. S \subseteq OnHosts(running) /\ S \subseteq Moving'
  BY <1>2, <1>3, <1>4 DEF Moving
<1>7. ASSUME NEW j \in Jobs \ S PROVE Steady(j)
  BY <1>1, <1>2, <1>3, <1>5 DEF Steady, Ended, Moving
<1>8. S \in SUBSET Jobs
  BY <1>4
<1> HIDE DEF S
<1> QED
  BY <1>6, <1>7, <1>8 DEF Shift

\* ... and are filed in one or two.
LEMMA FiledMove ==
    ASSUME Life, FileCompleted \/ FileFailed,
           NEW S, S = IF FileCompleted THEN JobsIn(done) ELSE JobsIn(bad)
    PROVE  /\ S \in SUBSET Jobs
           /\ S \subseteq Moving /\ S \subseteq Ended' \cup evicted'
           /\ \A j \in Jobs \ S : Steady(j)
<1>0. Invs /\ TypeInv
  BY DEF Life, Invs
<1>1. /\ mpc \in {"file_completed", "file_failed"} /\ mpc' # "defer"
      /\ UNCHANGED <<queue, running, deferred, moving, hand, held, submitted,
                     withdrawn, dropped>>
  BY DEF FileCompleted, FileFailed, Goto
<1>2. /\ EndedIn(completed) \cup EndedIn(failed) \cup evicted
            \subseteq Ended' \cup evicted'
      /\ S \subseteq Ended' \cup evicted'
      /\ InMemory \ S \subseteq InMemory'
  <2>1. CASE FileCompleted
    <3>1. EndedIn(done) = JobsIn(done)
      BY <1>0, JobsEnded DEF Invs, RecordsInv
    <3>2. EndedIn(completed') = EndedIn(completed) \cup JobsIn(done)
      BY <1>0, <2>1, <3>1, ItemLists, JobsInConcat DEF FileCompleted
    <3>3. failed' = failed /\ evicted' = evicted /\ bad' = bad
      BY <2>1 DEF FileCompleted
    <3> QED
      BY <1>1, <2>1, <3>2, <3>3 DEF Ended, InMemory, InHand
  <2>2. CASE ~FileCompleted
    <3>1. FileFailed
      BY <2>2
    <3>2. EndedIn(bad) = JobsIn(bad)
      BY <1>0, JobsEnded DEF Invs, RecordsInv
    <3>3. EndedIn(failed) \cup JobsIn(bad) \cup evicted
            \subseteq EndedIn(failed') \cup evicted'
      BY <1>0, <3>1, <3>2, ItemLists, FailedGrowsTo DEF FileFailed
    <3>4. completed' = completed /\ done' = done
      BY <3>1 DEF FileFailed
    <3> QED
      BY <1>1, <2>2, <3>3, <3>4 DEF Ended, InMemory, InHand
  <2> QED
    BY <2>1, <2>2
<1>3. S \subseteq InMemory /\ InMemory \subseteq Jobs
  BY <1>0, InMemoryType DEF InMemory
<1>4. S \in SUBSET Jobs /\ S \subseteq Moving
  BY <1>0, <1>1, <1>3, MemoryNotRunning DEF Moving
<1>5. ASSUME NEW j \in Jobs \ S PROVE Steady(j)
  BY <1>1, <1>2 DEF Steady, Ended, Moving
<1> QED
  BY <1>2, <1>4, <1>5

LEMMA FileShifts ==
    ASSUME Life, FileCompleted \/ FileFailed
    PROVE  Shift(Moving, Ended' \cup evicted')
<1> DEFINE S == IF FileCompleted THEN JobsIn(done) ELSE JobsIn(bad)
<1>1. /\ S \in SUBSET Jobs
      /\ S \subseteq Moving /\ S \subseteq Ended' \cup evicted'
      /\ \A j \in Jobs \ S : Steady(j)
  BY FiledMove
<1> QED
  BY <1>1 DEF Shift

\* An item leaves the queue for the monitor's hands.
LEMMA TakingShifts ==
    ASSUME Life, Claim \/ \E h \in Hosts : DequeueForHost(h)
    PROVE  ShiftsOne(JobsIn(queue), Moving')
<1>0. Invs /\ TypeInv
  BY DEF Life, Invs
<1>1. PICK i \in DOMAIN queue :
        hand' = <<queue[i]>> /\ queue' = RemoveAt(queue, i)
  BY DEF Claim, DequeueForHost, Positions, BestIndex, Earliest, Candidates
<1>2. /\ mpc \in {"claim", "dispatch"} /\ mpc' \in {"kill", "stage"}
      /\ UNCHANGED <<running, deferred, completed, failed, moving, held, done,
                     bad, submitted, withdrawn, dropped, evicted>>
  BY DEF Claim, DequeueForHost, Goto
<1>3. hand = <<>>
  BY <1>0, <1>2 DEF Invs, HandsInv, Holding
<1>4. queue \in Seq(Item)
  BY <1>0, ItemLists
<1>5. PICK j \in Jobs : j = queue[i].job /\ j \in JobsIn(queue)
  BY <1>4, JobsOfItems DEF JobsIn
<1>6. JobsIn(InHand') = {j} /\ JobsIn(InHand) = {}
  BY <1>1, <1>2, <1>3, <1>5, JobsInOne, JobsInNone DEF InHand
<1>7. JobsIn(queue) \subseteq JobsIn(queue') \cup {j}
  BY <1>1, <1>4, <1>5, JobsInRemoveAt
<1>8. InMemory \cup {j} \subseteq InMemory' /\ j \in InMemory'
  BY <1>2, <1>6 DEF InMemory
<1>9. j \notin OnHosts(running')
  BY <1>0, <1>2, <1>5, PlacesApart
<1>10. j \in Moving'
  BY <1>8, <1>9 DEF Moving
<1>11. ASSUME NEW k \in Jobs \ {j} PROVE Steady(k)
  BY <1>2, <1>7, <1>8 DEF Steady, Ended, Moving
<1> QED
  BY <1>5, <1>10, <1>11 DEF ShiftsOne

\* What a step does to the job in the monitor's hands when it empties them.
LEMMA HandEmptied ==
    ASSUME Life, mpc \in Holding \ {"defer"}, hand' = <<>>,
           mpc \notin {"resume"},
           UNCHANGED <<held, done, bad>>
    PROVE  \E j \in Jobs : /\ j = job /\ j = hand[1].job /\ hand[1] \in Item
                           /\ j \in Moving
                           /\ InMemory \subseteq InMemory' \cup {j}
<1>0. Invs /\ TypeInv
  BY DEF Life, Invs
<1>1. hand = <<hand[1]>> /\ hand[1] \in Item /\ InHand = hand
  BY <1>0, ItemInHand DEF InHand
<1>2. PICK j \in Jobs :
      /\ j = job /\ j = hand[1].job /\ j \notin OnHosts(running)
      /\ j \in JobsIn(InHand)
  BY <1>0, InHandOnly
<1>3. j \in InMemory
  BY <1>2 DEF InMemory
<1>4. j \in Moving
  BY <1>2, <1>3 DEF Moving
<1>5. JobsIn(InHand) = {j}
  BY <1>1, <1>2, JobsInOne
<1>6. InMemory \subseteq InMemory' \cup {j}
  BY <1>5 DEF InMemory
<1> QED
  BY <1>1, <1>2, <1>4, <1>6

\* The item in hand is put back into the queue.
LEMMA PuttingBackShifts ==
    ASSUME Life, RequeueBack \/ RequeueFailed \/ StandDown
    PROVE  ShiftsOne(Moving, JobsIn(queue'))
<1>0. Invs /\ TypeInv
  BY DEF Life, Invs
<1>1. /\ mpc \in Holding \ {"defer"} /\ mpc # "resume" /\ hand' = <<>>
      /\ UNCHANGED <<running, deferred, completed, failed, moving, held, done,
                     bad, submitted, withdrawn, dropped, evicted>>
  BY DEF RequeueBack, RequeueFailed, StandDown, Holding
<1>2. PICK j \in Jobs :
      /\ j = hand[1].job /\ hand[1] \in Item
      /\ j \in Moving
      /\ InMemory \subseteq InMemory' \cup {j}
  BY <1>1, HandEmptied
<1>3. PICK x \in Item : /\ queue' = Append(queue, x) \/ queue' = Cons(x, queue)
                        /\ x.job = hand[1].job
  <2>1. /\ [hand[1] EXCEPT !.fails = 0] \in Item
        /\ [hand[1] EXCEPT !.fails = @ + 1] \in Item
        /\ [hand[1] EXCEPT !.fails = 0].job = hand[1].job
        /\ [hand[1] EXCEPT !.fails = @ + 1].job = hand[1].job
    BY <1>2 DEF Item
  <2> QED
    BY <1>2, <2>1 DEF RequeueBack, RequeueFailed, StandDown
<1>4. JobsIn(queue') = JobsIn(queue) \cup {j}
  <2>1. queue \in Seq(Item) /\ x.job = j
    BY <1>0, <1>2, <1>3, ItemLists
  <2>2. /\ JobsIn(Append(queue, x)) = JobsIn(queue) \cup {j}
        /\ JobsIn(Cons(x, queue)) = {j} \cup JobsIn(queue)
    BY <2>1, JobsInAppend, JobsInCons
  <2> QED
    BY <1>3, <2>2
<1>5. ASSUME NEW k \in Jobs \ {j} PROVE Steady(k)
  BY <1>1, <1>2, <1>4 DEF Steady, Ended, Moving
<1> QED
  BY <1>2, <1>4, <1>5 DEF ShiftsOne

LEMMA TrackShifts ==
    ASSUME Life, Track
    PROVE  ShiftsOne(Moving, OnHosts(running'))
<1>0. Invs /\ TypeInv
  BY DEF Life, Invs
<1>1. /\ mpc = "track" /\ hand' = <<>>
      /\ UNCHANGED <<queue, deferred, completed, failed, moving, held, done,
                     bad, submitted, withdrawn, dropped, evicted>>
  BY DEF Track
<1>2. PICK j \in Jobs :
      /\ j = hand[1].job /\ hand[1] \in Item
      /\ j \in Moving
  BY <1>1, HandEmptied DEF Holding
<1>3. InMemory = {j}
  <2>1. held = <<>> /\ done = <<>> /\ bad = <<>>
    BY <1>0, <1>1 DEF Invs, HandsInv, DiskInv
  <2>2. InHand = <<hand[1]>>
    BY <1>0, <1>1, ItemInHand DEF Holding, InHand
  <2> QED
    BY <1>2, <2>1, <2>2, JobsInOne, JobsInNone DEF InMemory
<1> DEFINE new == [hand[1] EXCEPT !.preempt = FALSE, !.fails = 0,
                                  !.resume = NoHost]
<1>4. new.job = j /\ at \in Hosts
  BY <1>0, <1>1, <1>2, ItemInHand DEF Holding, Item
<1>5. /\ running' = [tracked EXCEPT ![at] = <<new>>]
      /\ tracked[at] = <<>>
      /\ \A h \in Hosts : running[h] = tracked[h]
      /\ tracked \in [Hosts -> Opt(Item)]
  BY <1>0, <1>1, ItemLists DEF Track, Invs, HandsInv, DiskInv, DiskFollowsMemory
<1> HIDE DEF new
<1>6. running'[at] = <<new>> /\ \A h \in Hosts : h # at => running'[h] = running[h]
  BY <1>4, <1>5
<1>7. OnHosts(running) \cup {j} \subseteq OnHosts(running')
  BY <1>4, <1>5, <1>6, JobsInOne, JobsInNone DEF OnHosts
<1>8. ASSUME NEW k \in Jobs \ {j} PROVE Steady(k)
  BY <1>1, <1>3, <1>7 DEF Steady, Ended, Moving
<1> QED
  BY <1>2, <1>7, <1>8 DEF ShiftsOne

LEMMA RecordDeadMove ==
    ASSUME Life, RecordDead
    PROVE  /\ job \in Jobs
           /\ job \in Moving /\ job \in Ended' \cup evicted'
           /\ \A k \in Jobs \ {job} : Steady(k)
<1>0. Invs /\ TypeInv
  BY DEF Life, Invs
<1>1. /\ mpc = "outcome" /\ hand' = <<>>
      /\ UNCHANGED <<queue, running, deferred, moving, held, done, bad,
                     submitted, withdrawn, dropped>>
  BY DEF RecordDead
<1>2. PICK j \in Jobs :
      /\ j = job /\ j \in Moving
      /\ InMemory \subseteq InMemory' \cup {j}
  BY <1>1, HandEmptied DEF Holding
<1>3. /\ Ended \cup evicted \subseteq Ended' \cup evicted'
      /\ j \in Ended' \cup evicted'
  BY <1>0, <1>2, DeadRecord DEF Ended
<1>4. ASSUME NEW k \in Jobs \ {j} PROVE Steady(k)
  BY <1>1, <1>2, <1>3 DEF Steady, Moving
<1> QED
  BY <1>2, <1>3, <1>4

LEMMA RecordDeadShifts ==
    ASSUME Life, RecordDead
    PROVE  Shift(Moving, Ended' \cup evicted')
<1>1. {job} \in SUBSET Jobs
  BY RecordDeadMove
<1> QED
  BY <1>1, RecordDeadMove DEF Shift

LEMMA DeferJobMove ==
    ASSUME Life, DeferJob
    PROVE  /\ job \in Jobs
           /\ job \in Moving /\ job \in JobsIn(deferred')
           /\ \A k \in Jobs \ {job} : Steady(k)
<1>0. Invs /\ TypeInv
  BY DEF Life, Invs
<1>1. /\ mpc = "job_failed" /\ mpc' = "defer"
      /\ UNCHANGED <<queue, running, completed, failed, moving, hand, held,
                     done, bad, submitted, withdrawn, dropped, evicted>>
  BY DEF DeferJob, Goto
<1>2. PICK j \in Jobs :
      /\ j = job /\ j = hand[1].job /\ j \notin OnHosts(running)
      /\ j \in JobsIn(InHand) /\ hand = <<hand[1]>> /\ hand[1] \in Item
      /\ InHand = hand
  BY <1>0, <1>1, InHandOnly, ItemInHand DEF Holding, InHand
<1>3. j \in Moving
  BY <1>2 DEF InMemory, Moving
<1>4. InMemory \subseteq InMemory' \cup {j}
  BY <1>1, <1>2, JobsInOne DEF InMemory
<1>5. PICK x \in Item : deferred' = Append(deferred, x) /\ x.job = j
  <2>1. /\ [hand[1] EXCEPT !.fails = 0] \in Item
        /\ [hand[1] EXCEPT !.fails = 0].job = j
    BY <1>2 DEF Item
  <2> QED
    BY <2>1 DEF DeferJob
<1>6. JobsIn(deferred') = JobsIn(deferred) \cup {j}
  <2>1. deferred \in Seq(Item)
    BY <1>0, ItemLists
  <2> QED
    BY <1>5, <2>1, JobsInAppend
<1>7. ASSUME NEW k \in Jobs \ {j} PROVE Steady(k)
  BY <1>1, <1>4, <1>6 DEF Steady, Ended, Moving
<1> QED
  BY <1>2, <1>3, <1>6, <1>7

LEMMA DeferJobShifts ==
    ASSUME Life, DeferJob
    PROVE  ShiftsOne(Moving, JobsIn(deferred'))
BY DeferJobMove DEF ShiftsOne

LEMMA UntrackVictimShifts ==
    ASSUME Life, UntrackVictim
    PROVE  ShiftsOne(OnHosts(running), Moving')
<1>0. Invs /\ TypeInv
  BY DEF Life, Invs
<1>1. /\ mpc = "untrack" /\ mpc' = "resume"
      /\ held' = <<ResumeItem(tracked[at][1], at)>>
      /\ running' = [tracked EXCEPT ![at] = <<>>]
      /\ UNCHANGED <<queue, deferred, completed, failed, moving, hand, done,
                     bad, submitted, withdrawn, dropped, evicted>>
  BY DEF UntrackVictim, Goto
<1>2. /\ at \in Hosts /\ tracked[at] # <<>> /\ held = <<>>
      /\ \A h \in Hosts : running[h] = tracked[h]
      /\ tracked \in [Hosts -> Opt(Item)]
  BY <1>0, <1>1, Parts DEF Invs, HandsInv, DiskInv, DiskFollowsMemory,
                           StagesOK, AboutHost, Holding, MemoryOK
<1>3. tracked[at] = <<tracked[at][1]>> /\ tracked[at][1] \in Item
  BY <1>2, OptOne
<1>4. PICK j \in Jobs : j = tracked[at][1].job
  BY <1>3 DEF Item
<1>5. ResumeItem(tracked[at][1], at).job = j
  BY <1>3, <1>4 DEF ResumeItem, Item
<1>6. JobsIn(held') = {j} /\ JobsIn(running[at]) = {j}
  BY <1>1, <1>2, <1>3, <1>4, <1>5, JobsInOne
<1>7. RunningMap = running
  BY <1>0, <1>1, MapIsFile
<1>8. PICK h \in Hosts : h = at
  BY <1>2
<1>9. \A g \in Hosts : j \in JobsIn(running[g]) => g = h
  BY <1>0, <1>6, <1>7, <1>8, RunningOnly
<1>10. running'[h] = <<>> /\ \A g \in Hosts : g # h => running'[g] = running[g]
  BY <1>1, <1>2, <1>8
<1>11. /\ j \in OnHosts(running) /\ j \notin OnHosts(running')
       /\ OnHosts(running') \subseteq OnHosts(running)
       /\ OnHosts(running) \subseteq OnHosts(running') \cup {j}
  BY <1>6, <1>8, <1>9, <1>10, JobsInNone DEF OnHosts
<1>12. InMemory \cup {j} \subseteq InMemory'
  BY <1>1, <1>2, <1>6, JobsInNone DEF InMemory, InHand
<1>13. j \in Moving'
  BY <1>11, <1>12 DEF Moving
<1>14. ASSUME NEW k \in Jobs \ {j} PROVE Steady(k)
  BY <1>1, <1>11, <1>12 DEF Steady, Ended, Moving
<1> QED
  BY <1>4, <1>11, <1>13, <1>14 DEF ShiftsOne

LEMMA RequeueVictimShifts ==
    ASSUME Life, RequeueVictim
    PROVE  ShiftsOne(Moving, JobsIn(queue'))
<1>0. Invs /\ TypeInv
  BY DEF Life, Invs
<1>1. /\ mpc = "resume" /\ mpc' = "stage" /\ held' = <<>>
      /\ queue' = Cons(held[1], queue)
      /\ UNCHANGED <<running, deferred, completed, failed, moving, hand, done,
                     bad, submitted, withdrawn, dropped, evicted>>
  BY DEF RequeueVictim, Goto
<1>2. held = <<held[1]>> /\ held[1] \in Item
  BY <1>0, <1>1, Parts, OptOne DEF StagesOK, MemoryOK
<1>3. PICK j \in Jobs : j = held[1].job
  BY <1>2 DEF Item
<1>4. JobsIn(held) = {j}
  BY <1>2, <1>3, JobsInOne
<1>5. JobsIn(queue') = {j} \cup JobsIn(queue)
  <2>1. queue \in Seq(Item)
    BY <1>0, ItemLists
  <2> QED
    BY <1>1, <1>2, <1>3, <2>1, JobsInCons
<1>6. /\ InMemory \subseteq InMemory' \cup {j}
      /\ j \in InMemory /\ j \notin OnHosts(running)
  <2>1. j \in InMemory
    BY <1>4 DEF InMemory
  <2> QED
    BY <1>0, <1>1, <1>4, <2>1, MemoryNotRunning DEF InMemory, InHand
<1>7. ASSUME NEW k \in Jobs \ {j} PROVE Steady(k)
  BY <1>1, <1>5, <1>6 DEF Steady, Ended, Moving
<1> QED
  BY <1>3, <1>5, <1>6, <1>7 DEF ShiftsOne, Moving

\* The monitor dies: what was only in its memory is lost.
LEMMA CrashShifts ==
    ASSUME Life, Crash
    PROVE  Shift(Moving, dropped')
<1>0. Invs /\ TypeInv
  BY DEF Life, Invs
<1>1. /\ dropped' = dropped \cup (InMemory \ (OnDisk \cup JobsIn(moving)))
      /\ UNCHANGED <<queue, running, deferred, completed, failed, moving,
                     submitted, withdrawn, evicted>>
  BY DEF Crash
<1>2. PICK S \in SUBSET Jobs : S = InMemory \ (OnDisk \cup JobsIn(moving))
  BY <1>0, InMemoryType DEF InMemory
<1>3. S \subseteq Moving /\ S \subseteq dropped'
  BY <1>1, <1>2 DEF Moving, OnDisk
<1>4. ASSUME NEW j \in Jobs \ S PROVE Steady(j)
  <2>1. j \notin Moving
    BY <1>0, <1>2, PlacesApart DEF Moving, OnDisk, Parked, Ended
  <2> QED
    BY <1>1, <2>1 DEF Steady, Ended
<1> QED
  BY <1>3, <1>4 DEF Shift

-----------------------------------------------------------------------------
(* Steps of other processes.                                               *)

\* The commands leave the monitor's memory and the running jobs alone.
LEMMA OpsLeave ==
    ASSUME Invs, OpsStep
    PROVE  /\ InMemory' = InMemory
           /\ UNCHANGED <<running, completed, failed, evicted>>
<1>1. UNCHANGED <<running, completed, failed, evicted>>
  BY NoRerun DEF OpsStep, Submit, Qdel, Clear, EnableHost, PopDeferred,
              DropDeferred, CommandDies, CommandFinishes, EnqueueMoving
<1>2. UNCHANGED <<mpc, hand, held, done, bad>>
  BY NoRerun DEF OpsStep, Submit, Qdel, Clear, EnableHost, PopDeferred,
              DropDeferred, CommandDies, CommandFinishes, EnqueueMoving
<1> QED
  BY <1>1, <1>2 DEF InMemory, InHand

LEMMA SubmitShifts ==
    ASSUME Life, NEW j \in Jobs, Submit(j)
    PROVE  ShiftsOne(Jobs \ submitted, JobsIn(queue'))
<1>0. Invs /\ TypeInv /\ OpsStep
  BY DEF Life, Invs, OpsStep
<1>1. /\ UNCHANGED <<deferred, moving, withdrawn, dropped>>
      /\ submitted' = submitted \cup {j} /\ j \notin submitted
      /\ queue' = Append(queue, NewItem(j))
  BY DEF Submit
<1>2. InMemory' = InMemory /\ UNCHANGED <<running, completed, failed, evicted>>
  BY <1>0, OpsLeave
<1>3. NewItem(j) \in Item /\ NewItem(j).job = j
  BY HostStateAssumption DEF HostStateAssumption, NewItem, Item
<1>4. JobsIn(queue') = JobsIn(queue) \cup {j}
  <2>1. queue \in Seq(Item)
    BY <1>0, ItemLists
  <2> QED
    BY <1>1, <1>3, <2>1, JobsInAppend
<1>5. ASSUME NEW k \in Jobs \ {j} PROVE Steady(k)
  BY <1>1, <1>2, <1>4 DEF Steady, Ended, Moving
<1> QED
  BY <1>1, <1>4, <1>5 DEF ShiftsOne

\* qdel and clear.
LEMMA QueueCutShifts ==
    ASSUME Life, Clear \/ \E s \in SUBSET DOMAIN queue : Qdel(s)
    PROVE  Shift(JobsIn(queue), withdrawn')
<1>0. Invs /\ TypeInv /\ OpsStep /\ queue \in Seq(Item)
  BY ItemLists DEF Life, Invs, OpsStep
<1>1. PICK S \in SUBSET Jobs :
        /\ S \subseteq JobsIn(queue)
        /\ withdrawn' = withdrawn \cup S
        /\ JobsIn(queue) \subseteq JobsIn(queue') \cup S
  <2>0. JobsIn(queue) \subseteq Jobs
    BY <1>0, JobsOfItems
  <2>1. CASE Clear
    BY <2>0, <2>1 DEF Clear
  <2>2. ASSUME NEW s \in SUBSET DOMAIN queue, Qdel(s)
        PROVE  \E S \in SUBSET Jobs :
                 /\ S \subseteq JobsIn(queue)
                 /\ withdrawn' = withdrawn \cup S
                 /\ JobsIn(queue) \subseteq JobsIn(queue') \cup S
    <3>1. {queue[i].job : i \in DOMAIN queue \ s} \subseteq JobsIn(queue')
      BY <1>0, <2>2, JobsInKeeping DEF Qdel
    <3> DEFINE S == {queue[i].job : i \in s}
    <3>2. S \subseteq JobsIn(queue) /\ JobsIn(queue) \subseteq JobsIn(queue') \cup S
      BY <3>1 DEF JobsIn
    <3>3. withdrawn' = withdrawn \cup S
      BY <2>2 DEF Qdel
    <3> HIDE DEF S
    <3> QED
      BY <2>0, <3>2, <3>3
  <2> QED
    BY <2>1, <2>2
<1>2. /\ InMemory' = InMemory /\ UNCHANGED <<running, completed, failed, evicted>>
      /\ UNCHANGED <<deferred, moving, dropped, submitted>>
  BY <1>0, OpsLeave DEF Clear, Qdel
<1>3. ASSUME NEW j \in Jobs \ S PROVE Steady(j)
  BY <1>1, <1>2 DEF Steady, Ended, Moving
<1> QED
  BY <1>1, <1>3 DEF Shift

LEMMA DropDeferredShifts ==
    ASSUME Life, NEW s \in SUBSET DOMAIN deferred, DropDeferred(s)
    PROVE  Shift(JobsIn(deferred), withdrawn')
<1>0. Invs /\ TypeInv /\ OpsStep /\ deferred \in Seq(Item)
  BY ItemLists DEF Life, Invs, OpsStep
<1>1. PICK S \in SUBSET Jobs : S = {deferred[i].job : i \in s}
  BY <1>0, JobsOfItems DEF JobsIn
<1>2. /\ withdrawn' = withdrawn \cup S /\ S \subseteq JobsIn(deferred)
      /\ JobsIn(deferred) \subseteq JobsIn(deferred') \cup S
  <2>1. {deferred[i].job : i \in DOMAIN deferred \ s} \subseteq JobsIn(deferred')
    BY <1>0, JobsInKeeping DEF DropDeferred
  <2> QED
    BY <1>1, <2>1 DEF JobsIn, DropDeferred
<1>3. /\ InMemory' = InMemory /\ UNCHANGED <<running, completed, failed, evicted>>
      /\ UNCHANGED <<queue, moving, dropped, submitted>>
  BY <1>0, OpsLeave DEF DropDeferred
<1>4. ASSUME NEW j \in Jobs \ S PROVE Steady(j)
  BY <1>2, <1>3 DEF Steady, Ended, Moving
<1> QED
  BY <1>2, <1>4 DEF Shift

\* Popping keeps a job deferred; it is queued when it is in the queue again.
LEMMA PopDeferredShifts ==
    ASSUME Life, NEW s \in SUBSET DOMAIN deferred, PopDeferred(s)
    PROVE  Shift(JobsIn(deferred), JobsIn(moving'))
<1>0. Invs /\ TypeInv /\ OpsStep /\ deferred \in Seq(Item)
  BY ItemLists DEF Life, Invs, OpsStep
<1>1. /\ {deferred[i].job : i \in DOMAIN deferred \ s} \subseteq JobsIn(deferred')
      /\ {deferred[i].job : i \in s} \subseteq JobsIn(moving')
  BY <1>0, JobsInKeeping DEF PopDeferred
<1>2. PICK S \in SUBSET Jobs : S = {deferred[i].job : i \in s}
  BY <1>0, JobsOfItems DEF JobsIn
<1>3. /\ S \subseteq JobsIn(deferred) /\ S \subseteq JobsIn(moving')
      /\ JobsIn(deferred) \subseteq JobsIn(deferred') \cup S
  BY <1>1, <1>2 DEF JobsIn
<1>4. JobsIn(moving) = {}
  BY JobsInNone DEF PopDeferred, LockFree
<1>5. /\ InMemory' = InMemory /\ UNCHANGED <<running, completed, failed, evicted>>
      /\ UNCHANGED <<queue, withdrawn, dropped, submitted>>
  BY <1>0, OpsLeave DEF PopDeferred
<1>6. ASSUME NEW j \in Jobs \ S PROVE Steady(j)
  BY <1>3, <1>4, <1>5 DEF Steady, Ended, Moving
<1> QED
  BY <1>3, <1>6 DEF Shift

LEMMA EnqueueMovingShifts ==
    ASSUME Life, EnqueueMoving
    PROVE  ShiftsOne(JobsIn(moving), JobsIn(queue'))
<1>0. Invs /\ TypeInv /\ OpsStep /\ moving \in Seq(Item) /\ queue \in Seq(Item)
  BY ItemLists DEF Life, Invs, OpsStep, CommandFinishes
<1>1. /\ moving # <<>> /\ moving' = Tail(moving)
      /\ queue' = Append(queue, Head(moving))
      /\ UNCHANGED <<deferred, withdrawn, dropped, submitted>>
  BY DEF EnqueueMoving
<1>2. /\ Head(moving) \in Item
      /\ JobsIn(moving) \subseteq {Head(moving).job} \cup JobsIn(Tail(moving))
  BY <1>0, <1>1, JobsInTail
<1>3. PICK j \in Jobs : j = Head(moving).job
  BY <1>2 DEF Item
<1>4. j \in JobsIn(moving)
  <2>1. 1 \in DOMAIN moving /\ moving[1] = Head(moving)
    BY <1>0, <1>1
  <2> QED
    BY <1>3, <2>1 DEF JobsIn
<1>5. JobsIn(queue') = JobsIn(queue) \cup {j}
  BY <1>0, <1>1, <1>2, <1>3, JobsInAppend
<1>6. JobsIn(moving) \subseteq JobsIn(moving') \cup {j}
  BY <1>1, <1>2, <1>3
<1>7. InMemory' = InMemory /\ UNCHANGED <<running, completed, failed, evicted>>
  BY <1>0, OpsLeave
<1>8. ASSUME NEW k \in Jobs \ {j} PROVE Steady(k)
  BY <1>1, <1>5, <1>6, <1>7 DEF Steady, Ended, Moving
<1> QED
  BY <1>4, <1>5, <1>8 DEF ShiftsOne

LEMMA CommandDiesShifts ==
    ASSUME Life, CommandDies
    PROVE  Shift(JobsIn(moving), dropped')
<1>0. Invs /\ TypeInv /\ OpsStep /\ moving \in Seq(Item)
  BY ItemLists DEF Life, Invs, OpsStep
<1>1. PICK S \in SUBSET Jobs : S = JobsIn(moving)
  BY <1>0, JobsOfItems
<1>2. S \cap (OnDisk \cup InMemory) = {}
  BY <1>0, <1>1, PlacesApart DEF OnDisk, Parked, Ended
<1>3. /\ dropped' = dropped \cup S
      /\ UNCHANGED <<queue, deferred, withdrawn, submitted>>
  BY <1>1, <1>2 DEF CommandDies
<1>4. InMemory' = InMemory /\ UNCHANGED <<running, completed, failed, evicted>>
  BY <1>0, OpsLeave
<1>5. ASSUME NEW j \in Jobs \ S PROVE Steady(j)
  BY <1>1, <1>3, <1>4 DEF Steady, Ended, Moving
<1> QED
  BY <1>1, <1>3, <1>5 DEF Shift

-----------------------------------------------------------------------------
(* The lives of jobs.                                                      *)

\* A step of JobLifecycle, or none.
Lived == Lifecycle!Next \/ UNCHANGED StatusNow

\* The status of a job in each of the places.
LEMMA StatusFrom ==
    ASSUME Life, Life', NEW j \in Jobs
    PROVE  /\ j \in JobsIn(queue) => StatusOf(j) = "queued"
           /\ j \in OnHosts(running) => StatusOf(j) = "running"
           /\ j \in Parked => StatusOf(j) = "deferred"
           /\ j \in Moving => StatusOf(j) = "moving"
           /\ j \notin submitted => StatusOf(j) = "new"
           /\ j \in JobsIn(queue') => StatusOf(j)' = "queued"
           /\ j \in OnHosts(running') => StatusOf(j)' = "running"
           /\ j \in Parked' => StatusOf(j)' = "deferred"
           /\ j \in Ended' \cup evicted' => StatusOf(j)' = "finished"
           /\ j \in Moving' => StatusOf(j)' = "moving"
           /\ j \in withdrawn' => StatusOf(j)' = "deleted"
           /\ j \in dropped' => StatusOf(j)' = "lost"
<1>1. ClassStatus(j) /\ ClassStatus(j)'
  BY StatusIs, StatusIsThen DEF StatusesAre
<1> QED
  BY <1>1 DEF ClassStatus

LEMMA OneLives ==
    ASSUME Life, Life',
           \/ ShiftsOne(Jobs \ submitted, JobsIn(queue'))
           \/ ShiftsOne(JobsIn(queue), Moving')
           \/ ShiftsOne(Moving, JobsIn(queue'))
           \/ ShiftsOne(Moving, OnHosts(running'))
           \/ ShiftsOne(OnHosts(running), Moving')
           \/ ShiftsOne(Moving, JobsIn(deferred'))
           \/ ShiftsOne(JobsIn(moving), JobsIn(queue'))
    PROVE  Lived
<1>1. CASE ShiftsOne(Jobs \ submitted, JobsIn(queue'))
  <2>1. PICK j \in Jobs : /\ j \in Jobs \ submitted /\ j \in JobsIn(queue')
                         /\ \A k \in Jobs \ {j} : Steady(k)
    BY <1>1 DEF ShiftsOne
  <2>2. StatusOf(j) = "new" /\ StatusOf(j)' = "queued"
    BY <2>1, StatusFrom DEF Parked
  <2>3. Lifecycle!Go({j}, "new", "queued")
    BY <2>1, <2>2, SomeGo
  <2> QED
    BY <2>3 DEF Lived, Lifecycle!Next, Lifecycle!Accept
<1>2. CASE ShiftsOne(JobsIn(queue), Moving')
  <2>1. PICK j \in Jobs : /\ j \in JobsIn(queue) /\ j \in Moving'
                         /\ \A k \in Jobs \ {j} : Steady(k)
    BY <1>2 DEF ShiftsOne
  <2>2. StatusOf(j) = "queued" /\ StatusOf(j)' = "moving"
    BY <2>1, StatusFrom DEF Parked
  <2>3. Lifecycle!Go({j}, "queued", "moving")
    BY <2>1, <2>2, SomeGo
  <2> QED
    BY <2>3 DEF Lived, Lifecycle!Next, Lifecycle!Take
<1>3. CASE ShiftsOne(Moving, JobsIn(queue'))
  <2>1. PICK j \in Jobs : /\ j \in Moving /\ j \in JobsIn(queue')
                         /\ \A k \in Jobs \ {j} : Steady(k)
    BY <1>3 DEF ShiftsOne
  <2>2. StatusOf(j) = "moving" /\ StatusOf(j)' = "queued"
    BY <2>1, StatusFrom DEF Parked
  <2>3. Lifecycle!Go({j}, "moving", "queued")
    BY <2>1, <2>2, SomeGo
  <2> QED
    BY <2>3 DEF Lived, Lifecycle!Next, Lifecycle!PutBack
<1>4. CASE ShiftsOne(Moving, OnHosts(running'))
  <2>1. PICK j \in Jobs : /\ j \in Moving /\ j \in OnHosts(running')
                         /\ \A k \in Jobs \ {j} : Steady(k)
    BY <1>4 DEF ShiftsOne
  <2>2. StatusOf(j) = "moving" /\ StatusOf(j)' = "running"
    BY <2>1, StatusFrom DEF Parked
  <2>3. Lifecycle!Go({j}, "moving", "running")
    BY <2>1, <2>2, SomeGo
  <2> QED
    BY <2>3 DEF Lived, Lifecycle!Next, Lifecycle!Confirm
<1>5. CASE ShiftsOne(OnHosts(running), Moving')
  <2>1. PICK j \in Jobs : /\ j \in OnHosts(running) /\ j \in Moving'
                         /\ \A k \in Jobs \ {j} : Steady(k)
    BY <1>5 DEF ShiftsOne
  <2>2. StatusOf(j) = "running" /\ StatusOf(j)' = "moving"
    BY <2>1, StatusFrom DEF Parked
  <2>3. Lifecycle!Go({j}, "running", "moving")
    BY <2>1, <2>2, SomeGo
  <2> QED
    BY <2>3 DEF Lived, Lifecycle!Next, Lifecycle!Interrupt
<1>6. CASE ShiftsOne(Moving, JobsIn(deferred'))
  <2>1. PICK j \in Jobs : /\ j \in Moving /\ j \in JobsIn(deferred')
                         /\ \A k \in Jobs \ {j} : Steady(k)
    BY <1>6 DEF ShiftsOne
  <2>2. StatusOf(j) = "moving" /\ StatusOf(j)' = "deferred"
    BY <2>1, StatusFrom DEF Parked
  <2>3. Lifecycle!Go({j}, "moving", "deferred")
    BY <2>1, <2>2, SomeGo
  <2> QED
    BY <2>3 DEF Lived, Lifecycle!Next, Lifecycle!Park
<1>7. CASE ShiftsOne(JobsIn(moving), JobsIn(queue'))
  <2>1. PICK j \in Jobs : /\ j \in JobsIn(moving) /\ j \in JobsIn(queue')
                         /\ \A k \in Jobs \ {j} : Steady(k)
    BY <1>7 DEF ShiftsOne
  <2>2. StatusOf(j) = "deferred" /\ StatusOf(j)' = "queued"
    BY <2>1, StatusFrom DEF Parked
  <2>3. Lifecycle!Go({j}, "deferred", "queued")
    BY <2>1, <2>2, SomeGo
  <2> QED
    BY <2>3 DEF Lived, Lifecycle!Next, Lifecycle!Unpark
<1> QED
  BY <1>1, <1>2, <1>3, <1>4, <1>5, <1>6, <1>7

\* Popping keeps a job deferred; it is queued when it is in the queue again.
LEMMA SomeLive ==
    ASSUME Life, Life',
           \/ Shift(OnHosts(running), Moving')
           \/ Shift(Moving, Ended' \cup evicted')
           \/ Shift(JobsIn(queue), withdrawn')
           \/ Shift(JobsIn(deferred), withdrawn')
           \/ Shift(Moving, dropped')
           \/ Shift(JobsIn(moving), dropped')
           \/ Shift(JobsIn(deferred), JobsIn(moving'))
    PROVE  Lived
<1>1. CASE Shift(OnHosts(running), Moving')
  <2>1. PICK S \in SUBSET Jobs : /\ S \subseteq OnHosts(running) /\ S \subseteq Moving'
                                 /\ \A k \in Jobs \ S : Steady(k)
    BY <1>1 DEF Shift
  <2>2. \A j \in S : StatusOf(j) = "running" /\ StatusOf(j)' = "moving"
    BY <2>1, StatusFrom DEF Parked
  <2>3. Lifecycle!Go(S, "running", "moving")
    BY <2>1, <2>2, SomeGo
  <2> QED
    BY <2>3 DEF Lived, Lifecycle!Next, Lifecycle!Over
<1>2. CASE Shift(Moving, Ended' \cup evicted')
  <2>1. PICK S \in SUBSET Jobs : /\ S \subseteq Moving /\ S \subseteq Ended' \cup evicted'
                                 /\ \A k \in Jobs \ S : Steady(k)
    BY <1>2 DEF Shift
  <2>2. \A j \in S : StatusOf(j) = "moving" /\ StatusOf(j)' = "finished"
    BY <2>1, StatusFrom DEF Parked
  <2>3. Lifecycle!Go(S, "moving", "finished")
    BY <2>1, <2>2, SomeGo
  <2> QED
    BY <2>3 DEF Lived, Lifecycle!Next, Lifecycle!File
<1>3. CASE Shift(JobsIn(queue), withdrawn')
  <2>1. PICK S \in SUBSET Jobs : /\ S \subseteq JobsIn(queue) /\ S \subseteq withdrawn'
                                 /\ \A k \in Jobs \ S : Steady(k)
    BY <1>3 DEF Shift
  <2>2. \A j \in S : StatusOf(j) = "queued" /\ StatusOf(j)' = "deleted"
    BY <2>1, StatusFrom DEF Parked
  <2>3. Lifecycle!Go(S, "queued", "deleted")
    BY <2>1, <2>2, SomeGo
  <2> QED
    BY <2>3 DEF Lived, Lifecycle!Next, Lifecycle!Delete
<1>4. CASE Shift(JobsIn(deferred), withdrawn')
  <2>1. PICK S \in SUBSET Jobs : /\ S \subseteq JobsIn(deferred) /\ S \subseteq withdrawn'
                                 /\ \A k \in Jobs \ S : Steady(k)
    BY <1>4 DEF Shift
  <2>2. \A j \in S : StatusOf(j) = "deferred" /\ StatusOf(j)' = "deleted"
    BY <2>1, StatusFrom DEF Parked
  <2>3. Lifecycle!Go(S, "deferred", "deleted")
    BY <2>1, <2>2, SomeGo
  <2> QED
    BY <2>3 DEF Lived, Lifecycle!Next, Lifecycle!Delete
<1>5. CASE Shift(Moving, dropped')
  <2>1. PICK S \in SUBSET Jobs : /\ S \subseteq Moving /\ S \subseteq dropped'
                                 /\ \A k \in Jobs \ S : Steady(k)
    BY <1>5 DEF Shift
  <2>2. \A j \in S : StatusOf(j) = "moving" /\ StatusOf(j)' = "lost"
    BY <2>1, StatusFrom DEF Parked
  <2>3. Lifecycle!Go(S, "moving", "lost")
    BY <2>1, <2>2, SomeGo
  <2> QED
    BY <2>3 DEF Lived, Lifecycle!Next, Lifecycle!Lose
<1>6. CASE Shift(JobsIn(moving), dropped')
  <2>1. PICK S \in SUBSET Jobs : /\ S \subseteq JobsIn(moving) /\ S \subseteq dropped'
                                 /\ \A k \in Jobs \ S : Steady(k)
    BY <1>6 DEF Shift
  <2>2. \A j \in S : StatusOf(j) = "deferred" /\ StatusOf(j)' = "lost"
    BY <2>1, StatusFrom DEF Parked
  <2>3. Lifecycle!Go(S, "deferred", "lost")
    BY <2>1, <2>2, SomeGo
  <2> QED
    BY <2>3 DEF Lived, Lifecycle!Next, Lifecycle!Lose
<1>7. CASE Shift(JobsIn(deferred), JobsIn(moving'))
  <2>1. PICK S \in SUBSET Jobs :
          /\ S \subseteq JobsIn(deferred) /\ S \subseteq JobsIn(moving')
          /\ \A k \in Jobs \ S : Steady(k)
    BY <1>7 DEF Shift
  <2>2. \A k \in S : StatusOf(k)' = StatusOf(k)
    BY <2>1, StatusFrom DEF Parked
  <2>3. \A k \in Jobs \ S : StatusOf(k)' = StatusOf(k)
    BY <2>1, SteadyStays
  <2> QED
    BY <2>2, <2>3 DEF Lived, StatusNow
<1> QED
  BY <1>1, <1>2, <1>3, <1>4, <1>5, <1>6, <1>7

LEMMA StepLives == Life /\ Life' /\ [Next]_vars => Lived
<1> SUFFICES ASSUME Life, Life', [Next]_vars PROVE Lived
  OBVIOUS
<1>0. Invs
  BY DEF Life
<1>1. CASE PollAndPrune
  <2>1. CASE SavePruned \/ FileCompleted \/ FileFailed
    BY <2>1, SavePrunedShifts, FileShifts, SomeLive
  <2>2. CASE ~(SavePruned \/ FileCompleted \/ FileFailed)
    BY <1>1, <2>2, IdleSteps, StandingSteps, AllStay DEF PollAndPrune, Lived
  <2> QED
    BY <2>1, <2>2
<1>2. CASE Dispatch
  BY <1>2, IdleSteps, TakingShifts, AllStay, OneLives DEF Dispatch, Lived
<1>3. CASE LaunchJob
  <2>1. CASE RequeueBack \/ RequeueFailed \/ Track \/ DeferJob
    BY <2>1, PuttingBackShifts, TrackShifts, DeferJobShifts, OneLives
  <2>2. CASE RecordDead
    BY <2>2, RecordDeadShifts, SomeLive
  <2>3. CASE ~(RequeueBack \/ RequeueFailed \/ Track \/ DeferJob \/ RecordDead)
    BY <1>3, <2>3, IdleSteps, StandingSteps, AllStay DEF LaunchJob, Lived
  <2> QED
    BY <2>1, <2>2, <2>3
<1>4. CASE Preempting
  <2>1. CASE Claim \/ StandDown \/ UntrackVictim \/ RequeueVictim
    BY <2>1, TakingShifts, PuttingBackShifts, UntrackVictimShifts,
       RequeueVictimShifts, OneLives
  <2>2. CASE ~(Claim \/ StandDown \/ UntrackVictim \/ RequeueVictim)
    BY <1>4, <2>2, IdleSteps, AllStay DEF Preempting, Lived
  <2> QED
    BY <2>1, <2>2
<1>5. CASE OpsStep
  <2>1. CASE \E j \in Jobs : Submit(j)
    BY <2>1, SubmitShifts, OneLives
  <2>2. CASE Clear \/ \E s \in SUBSET DOMAIN queue : Qdel(s)
    BY <2>2, QueueCutShifts, SomeLive
  <2>3. CASE \E s \in SUBSET DOMAIN deferred : PopDeferred(s) \/ DropDeferred(s)
    BY <2>3, PopDeferredShifts, DropDeferredShifts, SomeLive
  <2>4. CASE EnqueueMoving \/ CommandDies
    BY <2>4, EnqueueMovingShifts, CommandDiesShifts, OneLives, SomeLive
  <2>5. CASE \E h \in Hosts : EnableHost(h)
    BY <2>5, IdleSteps, AllStay DEF Lived
  <2> QED
    BY <1>0, <1>5, <2>1, <2>2, <2>3, <2>4, <2>5, NoRerun
       DEF OpsStep, CommandFinishes
<1>6. CASE Stop \/ Crash
  BY <1>6, StandingSteps, CrashShifts, AllStay, SomeLive DEF Lived
<1>7. CASE \/ WorkerStep \/ UNCHANGED vars
           \/ \E h \in Hosts : CooldownExpires(h)
  BY <1>7, IdleSteps, AllStay DEF Lived
<1> QED
  BY <1>1, <1>2, <1>3, <1>4, <1>5, <1>6, <1>7 DEF Next, MonitorStep

LEMMA LifeHolds == NothingRequeuedByHand => (Spec => []Life)
<1> SUFFICES ASSUME NothingRequeuedByHand PROVE Spec => []Life
  OBVIOUS
<1>1. Spec => []Invs
  BY OneInvariant
<1>2. Init => RetiredOnce
  BY DEF Init, RetiredOnce
<1>3. Invs /\ RetiredOnce /\ [Next]_vars => RetiredOnce'
  BY StepRetired
<1>4. Spec => []RetiredOnce
  BY <1>1, <1>2, <1>3, PTL DEF Spec
<1>5. Invs /\ NoJobLost /\ RetiredOnce <=> Life
  BY DEF Life
<1> QED
  BY <1>1, <1>4, <1>5, NothingIsLost, PTL

\* The host implements the abstract lives of jobs: a job is accepted once,
\* dispatched, tracked, put back, interrupted, finished, deferred and deleted
\* only from where JobLifecycle has it, and lost only out of the memory of a
\* process that died.  This is so for every crash between two writes of a
\* move (_launch_job_on_host, monitor_loop, handle_requeue_deferred), but not
\* with requeue-running, which queues a job that still runs.
THEOREM HostImplementsLifecycle ==
    NothingRequeuedByHand => (Spec => ImplementsLifecycle)
<1> SUFFICES ASSUME NothingRequeuedByHand PROVE Spec => ImplementsLifecycle
  OBVIOUS
<1>6. Spec => []Life
  BY LifeHolds
<1>7. Init /\ Life => Lifecycle!Init
  <2> SUFFICES ASSUME Init, Life PROVE Lifecycle!Init
    OBVIOUS
  <2>1. \A j \in Jobs : StatusOf(j) = "new"
    BY StatusIs DEF Init, StatusesAre, ClassStatus
  <2> QED
    BY <2>1 DEF Lifecycle!Init
<1>8. Life /\ Life' /\ [Next]_vars => [Lifecycle!Next]_StatusNow
  BY StepLives DEF Lived
<1> QED
  BY <1>6, <1>7, <1>8, PTL DEF Spec, ImplementsLifecycle, Lifecycle!Spec,
                               StatusNow

-----------------------------------------------------------------------------
(* What readers of the files see: HostView.  Its histories add to the      *)
(* places that a job that is over is recorded in the same write.           *)

\* failed.json holds the failures of one cycle: one for each host at most.
HistoryHoldsACycle ==
    IsFiniteSet(Hosts) /\ Cardinality(Hosts) <= MaxFailedRecords

SuccessRecord == {r \in Record : Success(r)}
Tracking == {h \in Hosts : tracked[h] # <<>>}

\* What is collected in a cycle, and completed.json.
FiledInv ==
    /\ completed \in Seq(SuccessRecord) /\ done \in Seq(SuccessRecord)
    /\ bad # <<>> => Len(bad) + Cardinality(Tracking) <= Cardinality(Hosts)

\* The histories change where they are filed.
LEMMA HistoriesKept ==
    ASSUME Invs, [Next]_vars
    PROVE  /\ completed' = completed \/ FileCompleted \/ RecordDead
           /\ failed' = failed \/ FileFailed \/ RecordDead \/ FileStartFailure
<1>1. CASE PollAndPrune
  BY <1>1 DEF PollAndPrune, Start, Poll, PruneHost, PruneEnds, SavePruned,
              FileCompleted, FileFailed
<1>2. CASE Dispatch
  BY <1>2 DEF Dispatch, DequeueForHost, SkipHost, DispatchEnds
<1>3. CASE LaunchJob
  BY <1>3 DEF LaunchJob, StageNothing, StagePayload, StageFails,
       StageMissing, Launch, Verify, Track, RequeueBack, BenchLoad,
       BenchSave, RequeueFailed, DeferJob, FileStartFailure
<1>4. CASE Preempting
  BY <1>4 DEF Preempting, ChoosePreemption, ChooseNothing, Claim,
       ClaimNothing, KillVictim, StandDown, UntrackVictim, RequeueVictim
<1>5. CASE OpsStep
  BY <1>5, NoRerun DEF OpsStep, Submit, Qdel, Clear, EnableHost, PopDeferred,
       DropDeferred, CommandDies, CommandFinishes, EnqueueMoving
<1>6. CASE \/ WorkerStep \/ UNCHANGED vars \/ Stop \/ Crash
           \/ \E h \in Hosts : CooldownExpires(h)
  BY <1>6 DEF WorkerStep, JobEnds, Reboot, vars, Stop, Crash, CooldownExpires
<1> QED
  BY <1>1, <1>2, <1>3, <1>4, <1>5, <1>6 DEF Next, MonitorStep

LEMMA CompletedStays ==
    ASSUME Invs, FiledInv, [Next]_vars
    PROVE  completed' \in Seq(SuccessRecord)
<1>0. completed \in Seq(SuccessRecord) /\ done \in Seq(SuccessRecord)
  BY DEF FiledInv
<1>1. CASE FileCompleted
  BY <1>0, <1>1, ConcatAt DEF FileCompleted
<1>2. CASE RecordDead
  <2>1. PICK r \in Record :
          completed' = IF Success(r) THEN Append(completed, r) ELSE completed
    BY <1>2 DEF RecordDead
  <2>2. CASE Success(r)
    <3>1. r \in SuccessRecord
      BY <2>2 DEF SuccessRecord
    <3> QED
      BY <1>0, <2>1, <2>2, <3>1, AppendType
  <2>3. CASE ~Success(r)
    BY <1>0, <2>1, <2>3
  <2> QED
    BY <2>2, <2>3
<1>3. CASE ~FileCompleted /\ ~RecordDead
  <2>1. completed' = completed
    BY <1>3, HistoriesKept
  <2> QED
    BY <1>0, <2>1
<1> QED
  BY <1>1, <1>2, <1>3

\* What a cycle has collected changes only by a finished job, or goes.
LEMMA CollectedChanges ==
    ASSUME Invs, [Next]_vars
    PROVE  \/ \E h \in Hosts : PruneHost(h)
           \/ /\ done' = done \/ done' = <<>>
              /\ bad' = <<>> \/ (bad' = bad /\ (tracked' = tracked \/ bad = <<>>))
<1>0. mpc \notin {"prune", "save", "file_completed", "file_failed"} => bad = <<>>
  BY DEF Invs, DiskInv
<1>1. CASE PollAndPrune
  BY <1>0, <1>1 DEF PollAndPrune, Start, Poll, PruneEnds, SavePruned,
                    FileCompleted, FileFailed
<1>2. CASE Dispatch
  BY <1>2 DEF Dispatch, DequeueForHost, SkipHost, DispatchEnds
<1>3. CASE LaunchJob
  BY <1>0, <1>3 DEF LaunchJob, StageNothing, StagePayload, StageFails,
       StageMissing, Launch, Verify, Track, RecordDead, RequeueBack, BenchLoad,
       BenchSave, RequeueFailed, DeferJob, FileStartFailure
<1>4. CASE Preempting
  BY <1>0, <1>4 DEF Preempting, ChoosePreemption, ChooseNothing, Claim,
       ClaimNothing, KillVictim, StandDown, UntrackVictim, RequeueVictim
<1>5. CASE OpsStep
  BY <1>5, NoRerun DEF OpsStep, Submit, Qdel, Clear, EnableHost, PopDeferred,
       DropDeferred, CommandDies, CommandFinishes, EnqueueMoving
<1>6. CASE \/ WorkerStep \/ UNCHANGED vars \/ Stop \/ Crash
           \/ \E h \in Hosts : CooldownExpires(h)
  BY <1>6 DEF WorkerStep, JobEnds, Reboot, vars, Stop, Crash, CooldownExpires,
              MemoryLost
<1> QED
  BY <1>1, <1>2, <1>3, <1>4, <1>5, <1>6 DEF Next, MonitorStep

LEMMA StepFiled ==
    ASSUME HistoryHoldsACycle, Invs, FiledInv, [Next]_vars
    PROVE  FiledInv'
<1>0. completed' \in Seq(SuccessRecord)
  BY CompletedStays
<1>1. /\ done \in Seq(SuccessRecord) /\ <<>> \in Seq(SuccessRecord)
      /\ IsFiniteSet(Hosts) /\ bad \in Seq(Record)
  BY ItemLists DEF FiledInv, HistoryHoldsACycle, Invs
<1>2. ASSUME NEW h \in Hosts, PruneHost(h)
      PROVE  /\ done' \in Seq(SuccessRecord)
             /\ Len(bad') + Cardinality(Tracking') <= Cardinality(Hosts)
  <2>1. PICK r \in Record : Collect(r)
    BY <1>2 DEF PruneHost
  <2>2. done' \in Seq(SuccessRecord)
    <3>1. CASE Success(r)
      <4>1. r \in SuccessRecord
        BY <3>1 DEF SuccessRecord
      <4> QED
        BY <1>1, <2>1, <3>1, <4>1, AppendType DEF Collect
    <3>2. CASE ~Success(r)
      BY <1>1, <2>1, <3>2 DEF Collect
    <3> QED
      BY <3>1, <3>2
  <2>3. Tracking' = Tracking \ {h} /\ h \in Tracking
    <3>1. tracked' = [tracked EXCEPT ![h] = <<>>] /\ tracked[h] # <<>>
      BY <1>2 DEF PruneHost
    <3>2. tracked \in [Hosts -> Opt(Item)]
      BY ItemLists DEF Invs
    <3> QED
      BY <3>1, <3>2 DEF Tracking
  <2>4. /\ IsFiniteSet(Tracking) /\ Cardinality(Hosts) \in Nat
        /\ Cardinality(Tracking) \in Nat
        /\ Cardinality(Tracking) <= Cardinality(Hosts)
    BY <1>1, FS_Subset, FS_CardinalityType DEF Tracking
  <2>5. Cardinality(Tracking') = Cardinality(Tracking) - 1
    BY <2>3, <2>4, FS_RemoveElement
  <2>6. Len(bad') <= Len(bad) + 1 /\ Len(bad) \in Nat /\ Len(bad') \in Nat
    BY <1>1, <2>1 DEF Collect
  <2>7. Len(bad) + Cardinality(Tracking) <= Cardinality(Hosts)
    <3>1. CASE bad = <<>>
      <4>1. Len(bad) = 0
        BY <3>1
      <4> QED
        BY <2>4, <4>1
    <3>2. CASE bad # <<>>
      BY <3>2 DEF FiledInv
    <3> QED
      BY <3>1, <3>2
  <2> QED
    BY <2>2, <2>4, <2>5, <2>6, <2>7
<1>3. CASE \E h \in Hosts : PruneHost(h)
  BY <1>0, <1>2, <1>3 DEF FiledInv
<1>4. CASE /\ done' = done \/ done' = <<>>
           /\ bad' = <<>> \/ (bad' = bad /\ (tracked' = tracked \/ bad = <<>>))
  <2>1. done' \in Seq(SuccessRecord)
    BY <1>1, <1>4
  <2>2. ASSUME bad' # <<>>
        PROVE  Len(bad') + Cardinality(Tracking') <= Cardinality(Hosts)
    <3>1. bad' = bad /\ tracked' = tracked
      BY <1>4, <2>2
    <3>2. Tracking' = Tracking
      BY <3>1 DEF Tracking
    <3> QED
      BY <2>2, <3>1, <3>2 DEF FiledInv
  <2> QED
    BY <1>0, <2>1, <2>2 DEF FiledInv
<1> QED
  BY <1>3, <1>4, CollectedChanges

\* The fields of a view.
DoneIn(s, j) ==
    IF \E i \in DOMAIN s : s[i].job = j
    THEN LET last == CHOOSE i \in DOMAIN s :
                         /\ s[i].job = j
                         /\ \A k \in DOMAIN s : s[k].job = j => k <= i
         IN  s[last].status
    ELSE "none"
FailIn(s, j) == \E i \in DOMAIN s : s[i].job = j
DueOf(j) == mpc = "defer" /\ hand[1].job = j
PlaceOf(j) == ViewOf(j).at

LEMMA ViewIs ==
    ASSUME NEW j
    PROVE  /\ ViewOf(j) = [at |-> PlaceOf(j), done |-> DoneIn(completed, j),
                           fail |-> FailIn(failed, j), due |-> DueOf(j)]
           /\ ViewOf(j)' = [at |-> PlaceOf(j)', done |-> DoneIn(completed', j),
                            fail |-> FailIn(failed', j), due |-> DueOf(j)']
BY DEF ViewOf, PlaceOf, DoneIn, FailIn, DueOf

Once(s, j) ==
    \A i, k \in DOMAIN s : s[i].job = j /\ s[k].job = j => i = k

LEMMA DoneIs ==
    ASSUME NEW s \in Seq(SuccessRecord), NEW j, Once(s, j)
    PROVE  /\ j \notin JobsIn(s) => DoneIn(s, j) = "none"
           /\ \A i \in DOMAIN s : s[i].job = j =>
                 /\ DoneIn(s, j) = s[i].status
                 /\ DoneIn(s, j) \in {"completed", "unknown"}
<1>1. ASSUME j \notin JobsIn(s) PROVE DoneIn(s, j) = "none"
  BY <1>1 DEF JobsIn, DoneIn
<1>2. ASSUME NEW i \in DOMAIN s, s[i].job = j
      PROVE  /\ DoneIn(s, j) = s[i].status
             /\ DoneIn(s, j) \in {"completed", "unknown"}
  <2> DEFINE IsLast(n) == /\ s[n].job = j
                          /\ \A k \in DOMAIN s : s[k].job = j => k <= n
             last == CHOOSE n \in DOMAIN s : IsLast(n)
  <2>1. IsLast(i)
    BY <1>2 DEF Once
  <2>2. last \in DOMAIN s /\ IsLast(last)
    BY <2>1
  <2>3. last = i
    BY <1>2, <2>2 DEF Once
  <2>4. DoneIn(s, j) = s[last].status
    BY <1>2 DEF DoneIn
  <2>5. s[i] \in SuccessRecord
    BY <1>2
  <2> QED
    BY <2>3, <2>4, <2>5 DEF SuccessRecord, Success
<1> QED
  BY <1>1, <1>2

LEMMA DoneConcat ==
    ASSUME NEW s \in Seq(SuccessRecord), NEW r \in Seq(SuccessRecord), NEW j,
           Once(s, j), Once(s \o r, j)
    PROVE  /\ j \notin JobsIn(r) => DoneIn(s \o r, j) = DoneIn(s, j)
           /\ j \in JobsIn(r) => DoneIn(s \o r, j) \in {"completed", "unknown"}
<1> DEFINE t == s \o r
<1>1. /\ t \in Seq(SuccessRecord) /\ Len(t) = Len(s) + Len(r)
      /\ \A i \in 1..Len(s) : t[i] = s[i]
      /\ \A i \in 1..Len(r) : t[Len(s) + i] = r[i]
  BY ConcatAt
<1>2. JobsIn(t) = JobsIn(s) \cup JobsIn(r)
  BY JobsInConcat
<1>3. DOMAIN s \subseteq DOMAIN t
  BY <1>1
<1>4. CASE j \in JobsIn(r)
  <2>1. PICK k \in DOMAIN r : r[k].job = j
    BY <1>4 DEF JobsIn
  <2>2. Len(s) + k \in DOMAIN t /\ t[Len(s) + k].job = j
    BY <1>1, <2>1
  <2>3. Once(t, j)
    OBVIOUS
  <2>4. DoneIn(t, j) \in {"completed", "unknown"}
    <3> HIDE DEF t
    <3> QED
      BY <1>1, <2>2, <2>3, DoneIs
  <2> QED
    BY <1>4, <2>4
<1>5. CASE j \in JobsIn(s) /\ j \notin JobsIn(r)
  <2>1. PICK k \in DOMAIN s : s[k].job = j
    BY <1>5 DEF JobsIn
  <2>2. k \in DOMAIN t /\ t[k] = s[k]
    BY <1>1, <2>1
  <2>3. DoneIn(s, j) = s[k].status
    BY <2>1, DoneIs
  <2>5. Once(t, j)
    OBVIOUS
  <2>4. DoneIn(t, j) = t[k].status
    <3> HIDE DEF t
    <3> QED
      BY <1>1, <2>1, <2>2, <2>5, DoneIs
  <2> QED
    BY <1>5, <2>2, <2>3, <2>4
<1>6. CASE j \notin JobsIn(s) /\ j \notin JobsIn(r)
  <2>1. DoneIn(s, j) = "none"
    BY <1>6, DoneIs
  <2>2. DoneIn(t, j) = "none"
    <3>1. Once(t, j)
      OBVIOUS
    <3> HIDE DEF t
    <3> QED
      BY <1>1, <1>2, <1>6, <3>1, DoneIs
  <2> QED
    BY <1>6, <2>1, <2>2
<1> QED
  BY <1>4, <1>5, <1>6

\* No job has two records in completed.json.
LEMMA RecordedOnce ==
    Invs /\ FiledInv => \A j \in Jobs : Once(completed, j)
<1> SUFFICES ASSUME Invs, FiledInv, NEW j \in Jobs,
                    NEW i \in DOMAIN completed, NEW k \in DOMAIN completed,
                    completed[i].job = j, completed[k].job = j
             PROVE  i = k
  BY DEF Once
<1> DEFINE mine == Ends(completed, j)
           on == Cardinality(Hosting(RunningMap, j))
           rest == Count(queue, j) + Count(deferred, j) + Count(moving, j)
                     + Count(InHand, j) + Count(held, j)
                     + Count(done, j) + Count(bad, j) + Ends(failed, j)
           at_ == {n \in DOMAIN completed :
                     /\ completed[n].job = j
                     /\ completed[n].status # "start_failed"}
<1>1. mine \in Nat /\ rest \in Nat /\ on \in Nat
  BY CountsOf
<1>2. Occurrences(j) \in {0, 1} /\ Occurrences(j) = mine + on + rest
  BY CountsOf, OccurrencesAre
<1>3. mine \in {0, 1}
  <2> HIDE DEF mine, on, rest
  <2> QED
    BY <1>1, <1>2
<1>4. i \in at_ /\ k \in at_
  <2>1. completed[i] \in SuccessRecord /\ completed[k] \in SuccessRecord
    BY DEF FiledInv
  <2> QED
    BY <2>1 DEF SuccessRecord, Success
<1>5. IsFiniteSet(at_)
  <2>1. DOMAIN completed = 1..Len(completed) /\ Len(completed) \in Nat
    BY ItemLists DEF Invs
  <2>2. IsFiniteSet(DOMAIN completed)
    BY <2>1, FS_Interval
  <2> QED
    BY <2>2, FS_Subset
<1>6. Cardinality(at_) \in {0, 1}
  BY <1>3 DEF Ends
<1> HIDE DEF at_
<1>7. CASE Cardinality(at_) = 0
  BY <1>4, <1>5, <1>7, FS_EmptySet
<1>8. CASE Cardinality(at_) = 1
  <2>1. PICK x : at_ = {x}
    BY <1>5, <1>8, FS_Singleton
  <2> QED
    BY <1>4, <2>1
<1> QED
  BY <1>6, <1>7, <1>8

LEMMA RecordedOnceThen ==
    Invs' /\ FiledInv' => \A j \in Jobs : Once(completed', j)
<1>1. Invs /\ FiledInv => \A j \in Jobs : Once(completed, j)
  BY RecordedOnce
<1> DEFINE AllOnce == \A j \in Jobs : Once(completed, j)
<1>2. Invs' /\ FiledInv' => AllOnce'
  BY <1>1, RecordedOnce, PTL
<1> QED
  BY <1>2

LEMMA FailsAfter ==
    ASSUME Invs, NEW r \in Seq(Record), Len(r) <= MaxFailedRecords,
           FailedGrowsBy(r), NEW j
    PROVE  /\ j \in JobsIn(r) => FailIn(failed', j)
           /\ j \notin JobsIn(r) /\ FailIn(failed', j) => FailIn(failed, j)
<1> DEFINE t == failed \o r
           n == Len(t)
           cut == n - MaxFailedRecords
<1>1. failed \in Seq(Record) /\ MaxFailedRecords \in Nat
  BY ItemLists, HostStateAssumption DEF Invs, HostStateAssumption
<1>2. /\ t \in Seq(Record) /\ Len(t) = Len(failed) + Len(r)
      /\ \A i \in 1..Len(failed) : t[i] = failed[i]
      /\ \A i \in 1..Len(r) : t[Len(failed) + i] = r[i]
  BY <1>1, ConcatAt
<1>3. failed' = IF n <= MaxFailedRecords THEN t ELSE SubSeq(t, cut + 1, n)
  BY DEF FailedGrowsBy, Capped
<1>4. PICK c \in Nat : /\ c <= Len(failed)
                       /\ Len(failed') = n - c
                       /\ DOMAIN failed' = 1..(n - c)
                       /\ \A i \in 1..(n - c) : failed'[i] = t[c + i]
  <2>1. CASE n <= MaxFailedRecords
    <3>1. failed' = t /\ 0 \in Nat /\ 0 <= Len(failed)
      BY <1>1, <1>3, <2>1
    <3> HIDE DEF t
    <3>2. /\ Len(failed') = n - 0 /\ DOMAIN failed' = 1..(n - 0)
          /\ \A i \in 1..(n - 0) : failed'[i] = t[0 + i]
      BY <1>2, <3>1
    <3> QED
      BY <3>1, <3>2
  <2>2. CASE ~(n <= MaxFailedRecords)
    <3>1. failed' = SubSeq(t, cut + 1, n)
      BY <1>3, <2>2
    <3>2. n \in Nat /\ cut \in Nat /\ cut <= Len(failed) /\ cut + 1 <= n
      <4>1. Len(failed) \in Nat /\ Len(r) \in Nat /\ n = Len(failed) + Len(r)
        BY <1>1, <1>2
      <4>2. Len(r) <= MaxFailedRecords /\ 1 <= MaxFailedRecords
        BY HostStateAssumption DEF HostStateAssumption
      <4> HIDE DEF n
      <4> QED
        BY <1>1, <2>2, <4>1, <4>2
    <3> HIDE DEF t
    <3>3. /\ Len(failed') = n - cut /\ DOMAIN failed' = 1..(n - cut)
          /\ \A i \in 1..(n - cut) : failed'[i] = t[cut + i]
      <4> HIDE DEF cut, n
      <4>1. t \in Seq(Record) /\ n = Len(t)
        BY <1>2 DEF n
      <4> QED
        BY <3>1, <3>2, <4>1
    <3> QED
      BY <3>2, <3>3
  <2> QED
    BY <2>1, <2>2
<1>5. ASSUME j \in JobsIn(r) PROVE FailIn(failed', j)
  <2>1. PICK k \in DOMAIN r : r[k].job = j
    BY <1>5 DEF JobsIn
  <2>2. /\ Len(failed) + k - c \in 1..(n - c)
        /\ t[c + (Len(failed) + k - c)] = r[k]
    <3> HIDE DEF t
    <3> QED
      BY <1>1, <1>2, <1>4, <2>1
  <2> QED
    BY <1>4, <2>1, <2>2 DEF FailIn
<1>6. ASSUME j \notin JobsIn(r), FailIn(failed', j) PROVE FailIn(failed, j)
  <2>1. PICK i \in 1..(n - c) : t[c + i].job = j
    BY <1>4, <1>6 DEF FailIn
  <2>2. c + i \in 1..Len(failed)
    <3>1. CASE c + i > Len(failed)
      <4>1. PICK k \in 1..Len(r) : c + i = Len(failed) + k
        <5>1. c + i - Len(failed) \in 1..Len(r)
          <6> HIDE DEF t
          <6> QED
            BY <1>1, <1>2, <1>4, <3>1
        <5>2. c + i = Len(failed) + (c + i - Len(failed))
          BY <1>1, <1>4
        <5> QED
          BY <5>1, <5>2
      <4>2. r[k].job = j
        BY <1>2, <2>1, <4>1
      <4> QED
        BY <1>6, <4>1, <4>2 DEF JobsIn
    <3>2. CASE ~(c + i > Len(failed))
      <4> HIDE DEF t
      <4> QED
        BY <1>1, <1>2, <1>4, <3>2
    <3> QED
      BY <3>1, <3>2
  <2>3. failed[c + i].job = j /\ c + i \in DOMAIN failed
    BY <1>1, <1>2, <2>1, <2>2
  <2> QED
    BY <2>3 DEF FailIn
<1> QED
  BY <1>5, <1>6


\* A view with these fields, and two views that a step may take it through.
ViewWith(p, d, f, u) == [at |-> p, done |-> d, fail |-> f, due |-> u]
Seen(v, w) == w \in Files!Moves(v) \cup {v}

LEMMA DoneChange ==
    ASSUME NEW p, NEW d, NEW f, NEW u, NEW x
    PROVE  [ViewWith(p, d, f, u) EXCEPT !.done = x] = ViewWith(p, x, f, u)
BY DEF ViewWith

LEMMA FailChange ==
    ASSUME NEW p, NEW d, NEW f, NEW u, NEW x
    PROVE  /\ [ViewWith(p, d, f, u) EXCEPT !.fail = x] = ViewWith(p, d, x, u)
           /\ ViewWith(p, d, f, u).fail = f
BY DEF ViewWith

LEMMA DueChange ==
    ASSUME NEW p, NEW d, NEW f, NEW u, NEW x
    PROVE  /\ [ViewWith(p, d, f, u) EXCEPT !.due = x] = ViewWith(p, d, f, x)
           /\ ViewWith(p, d, f, u).due = u
BY DEF ViewWith

\* A job moves from place to place and its records stay.
Route(p, q) ==
    \/ p = q
    \/ p = "new" /\ q = "queue"
    \/ p = "queue" /\ q = "gone"
    \/ p = "hand" /\ q \in {"queue", "running", "gone"}
    \/ p = "running" /\ q = "hand"
    \/ p = "deferred" /\ q \in {"hand", "gone"}

LEMMA PlaceSeen ==
    ASSUME NEW p, NEW q, NEW d, NEW f, NEW u,
           Route(p, q) \/ (p = "queue" /\ q = "hand" /\ ~u)
    PROVE  Seen(ViewWith(p, d, f, u), ViewWith(q, d, f, u))
<1> DEFINE v == ViewWith(p, d, f, u)
           w == ViewWith(q, d, f, u)
<1>1. w = [v EXCEPT !.at = q] /\ v.at = p /\ w.due = u
  BY DEF ViewWith
<1> HIDE DEF v, w
<1>2. w \in Files!To(Files!From(v, p), q)
  BY <1>1 DEF Files!To, Files!From
<1>3. CASE p = q
  BY <1>3 DEF Seen, v, w
<1>4. CASE p = "new" /\ q = "queue"
  BY <1>2, <1>4 DEF Seen, v, w, Files!Moves, Files!OperatorMoves, Files!Accepted
<1>5. CASE p = "queue" /\ q = "gone"
  BY <1>2, <1>5 DEF Seen, v, w, Files!Moves, Files!OperatorMoves, Files!Deleted
<1>6. CASE p = "queue" /\ q = "hand" /\ ~u
  <2>1. w \in Files!Taken(v)
    BY <1>1, <1>2, <1>6 DEF Files!Taken
  <2> QED
    BY <2>1 DEF Seen, v, w, Files!Moves, Files!MonitorMoves
<1>7. CASE p = "hand" /\ q \in {"queue", "running", "gone"}
  BY <1>2, <1>7 DEF Seen, v, w, Files!Moves, Files!MonitorMoves, Files!PutBack,
                    Files!Tracked, Files!Lost
<1>8. CASE p = "running" /\ q = "hand"
  BY <1>2, <1>8 DEF Seen, v, w, Files!Moves, Files!MonitorMoves, Files!Untracked
<1>9. CASE p = "deferred" /\ q \in {"hand", "gone"}
  BY <1>2, <1>9 DEF Seen, v, w, Files!Moves, Files!OperatorMoves,
                    Files!Unparked, Files!Dropped
<1> QED
  BY <1>3, <1>4, <1>5, <1>6, <1>7, <1>8, <1>9 DEF Route

\* A job that is over is recorded in the same write.
LEMMA EndSeen ==
    ASSUME NEW d, NEW f, NEW u
    PROVE  /\ \A e \in {"completed", "unknown"} :
                 Seen(ViewWith("hand", d, f, u), ViewWith("over", e, f, u))
           /\ Seen(ViewWith("hand", d, f, u), ViewWith("over", d, TRUE, u))
           /\ Seen(ViewWith("hand", d, f, u), ViewWith("deferred", d, f, TRUE))
<1> DEFINE v == ViewWith("hand", d, f, u)
           o == ViewWith("over", d, f, u)
           p == ViewWith("deferred", d, f, u)
<1>1. /\ o = [v EXCEPT !.at = "over"] /\ p = [v EXCEPT !.at = "deferred"]
      /\ v.at = "hand"
  BY DEF ViewWith
<1>2. \A e : ViewWith("over", e, f, u) = [o EXCEPT !.done = e]
  BY DoneChange
<1>3. \A e : ViewWith("over", d, e, u) = [o EXCEPT !.fail = e]
  BY FailChange
<1>4. \A e : ViewWith("deferred", d, f, e) = [p EXCEPT !.due = e]
  BY DueChange
<1> HIDE DEF v, o, p
<1>5. /\ o \in Files!To(Files!From(v, "hand"), "over")
      /\ p \in Files!To(Files!From(v, "hand"), "deferred")
  BY <1>1 DEF Files!To, Files!From
<1>6. \A e \in {"completed", "unknown"} :
         ViewWith("over", e, f, u) \in Files!Succeeded(v)
  BY <1>2, <1>5 DEF Files!Succeeded
<1>7. ViewWith("over", d, TRUE, u) \in Files!Failed(v)
  BY <1>5, <1>3 DEF Files!Failed
<1>8. ViewWith("deferred", d, f, TRUE) \in Files!Parked(v)
  BY <1>5, <1>4 DEF Files!Parked
<1> QED
  BY <1>6, <1>7, <1>8 DEF Seen, v, Files!Moves, Files!MonitorMoves

\* A start failure that is due is filed or lost, and old failures go.
LEMMA RecordSeen ==
    ASSUME NEW p, NEW d, NEW f, NEW u
    PROVE  /\ Seen(ViewWith(p, d, f, TRUE), ViewWith(p, d, TRUE, FALSE))
           /\ Seen(ViewWith(p, d, TRUE, u), ViewWith(p, d, FALSE, u))
           /\ Seen(ViewWith(p, d, f, u), ViewWith(p, d, f, FALSE))
<1>1. ViewWith(p, d, TRUE, FALSE)
        \in Files!StartFailed(ViewWith(p, d, f, TRUE))
  <2>1. \A x : ViewWith(p, d, f, x).due = x
    BY DueChange
  <2>2. ASSUME NEW v, NEW t, v = ViewWith(p, d, f, t), v.due
        PROVE  [v EXCEPT !.fail = TRUE, !.due = FALSE] \in Files!StartFailed(v)
    BY <2>2 DEF Files!StartFailed
  <2>4. \A t, x : [ViewWith(p, d, f, t) EXCEPT !.fail = x] = ViewWith(p, d, x, t)
    BY FailChange
  <2>5. \A t, x : [ViewWith(p, d, TRUE, t) EXCEPT !.due = x]
                    = ViewWith(p, d, TRUE, x)
    <3>1. \A s, t, x : [ViewWith(p, d, s, t) EXCEPT !.due = x]
                        = ViewWith(p, d, s, x)
      BY DueChange
    <3> QED
      BY <3>1
  <2>6. \A t : [ViewWith(p, d, f, t) EXCEPT !.fail = TRUE, !.due = FALSE]
                 = ViewWith(p, d, TRUE, FALSE)
    <3> SUFFICES ASSUME NEW t
                 PROVE  [ViewWith(p, d, f, t) EXCEPT !.fail = TRUE, !.due = FALSE]
                          = ViewWith(p, d, TRUE, FALSE)
      OBVIOUS
    <3>1. [ViewWith(p, d, f, t) EXCEPT !.fail = TRUE, !.due = FALSE]
            = [[ViewWith(p, d, f, t) EXCEPT !.fail = TRUE] EXCEPT !.due = FALSE]
      OBVIOUS
    <3>2. [ViewWith(p, d, f, t) EXCEPT !.fail = TRUE] = ViewWith(p, d, TRUE, t)
      BY <2>4
    <3>3. [ViewWith(p, d, TRUE, t) EXCEPT !.due = FALSE]
            = ViewWith(p, d, TRUE, FALSE)
      BY <2>5
    <3> QED
      BY <3>1, <3>2, <3>3
  <2> QED
    BY <2>1, <2>2, <2>6
<1>2. ViewWith(p, d, FALSE, u) \in Files!Evicted(ViewWith(p, d, TRUE, u))
  <2>1. \A x, y : /\ ViewWith(p, d, x, u).fail = x
                  /\ ViewWith(p, d, y, u) = [ViewWith(p, d, x, u) EXCEPT !.fail = y]
    BY FailChange
  <2> QED
    BY <2>1 DEF Files!Evicted
<1>3. ViewWith(p, d, f, FALSE) \in Files!Lost(ViewWith(p, d, f, u))
  <2>1. \A x : ViewWith(p, d, f, x) = [ViewWith(p, d, f, u) EXCEPT !.due = x]
    BY DueChange
  <2> QED
    BY <2>1 DEF Files!Lost
<1> QED
  BY <1>1, <1>2, <1>3 DEF Seen, Files!Moves, Files!MonitorMoves

\* The place a job is shown at.
Placed(j) ==
    /\ j \in JobsIn(queue) => PlaceOf(j) = "queue"
    /\ j \in OnHosts(running) => PlaceOf(j) = "running"
    /\ j \in JobsIn(deferred) => PlaceOf(j) = "deferred"
    /\ j \in Ended \cup evicted => PlaceOf(j) = "over"
    /\ j \in Moving \cup JobsIn(moving) => PlaceOf(j) = "hand"
    /\ j \in withdrawn \cup dropped => PlaceOf(j) = "gone"
    /\ j \notin submitted => PlaceOf(j) = "new"
    /\ \/ j \in JobsIn(queue) \cup OnHosts(running) \cup JobsIn(deferred)
                  \cup Ended \cup evicted \cup Moving \cup JobsIn(moving)
                  \cup withdrawn \cup dropped
       \/ j \notin submitted

AllPlaced == \A j \in Jobs : Placed(j)

LEMMA PlaceIs == Life => AllPlaced
<1> SUFFICES ASSUME Life, NEW j \in Jobs PROVE Placed(j)
  BY DEF AllPlaced
<1>1. Invs /\ NoJobLost /\ RetiredOnce
  BY DEF Life
<1>2. withdrawn \cup dropped \cup evicted \subseteq submitted
  BY <1>1 DEF Invs, OneInv
<1> DEFINE p == PlaceOf(j)
<1>3. p = CASE j \in JobsIn(queue) -> "queue"
              [] j \in OnHosts(running) -> "running"
              [] j \in JobsIn(deferred) -> "deferred"
              [] j \in EndedIn(completed) \cup EndedIn(failed) \cup evicted
                   -> "over"
              [] j \in (InMemory \ OnHosts(running)) \cup JobsIn(moving)
                   -> "hand"
              [] j \in withdrawn \cup dropped -> "gone"
              [] OTHER -> "new"
  BY DEF PlaceOf, ViewOf
<1> HIDE DEF p
<1>4. CASE j \in JobsIn(queue)
  BY <1>1, <1>2, <1>3, <1>4, PlacesApart
     DEF Placed, p, Parked, Ended, Moving, Gone, OnDisk
<1>5. CASE j \in OnHosts(running)
  BY <1>1, <1>2, <1>3, <1>5, PlacesApart
     DEF Placed, p, Parked, Ended, Moving, Gone, OnDisk
<1>6. CASE j \in JobsIn(deferred)
  BY <1>1, <1>2, <1>3, <1>6, PlacesApart
     DEF Placed, p, Parked, Ended, Moving, Gone, OnDisk
<1>7. CASE j \in Ended
  BY <1>1, <1>2, <1>3, <1>7, PlacesApart
     DEF Placed, p, Parked, Ended, Moving, Gone, OnDisk
<1>8. CASE j \in Moving \cup JobsIn(moving)
  BY <1>1, <1>2, <1>3, <1>8, PlacesApart
     DEF Placed, p, Parked, Ended, Moving, Gone, OnDisk
<1>9. CASE j \in Gone
  BY <1>1, <1>2, <1>3, <1>9, PlacesApart
     DEF Placed, p, Parked, Ended, Moving, Gone, OnDisk, RetiredOnce
<1>10. j \in JobsIn(queue) \cup OnHosts(running) \cup JobsIn(deferred)
              \cup Ended \cup Moving \cup JobsIn(moving) \cup Gone
  BY <1>1 DEF NoJobLost, OnDisk, Ended, Moving, Gone
<1> QED
  BY <1>4, <1>5, <1>6, <1>7, <1>8, <1>9, <1>10

LEMMA PlaceIsThen == Life' => \A j \in Jobs : Placed(j)'
<1>1. Life' => AllPlaced'
  BY PlaceIs, PTL
<1> QED
  BY <1>1 DEF AllPlaced


LEMMA SteadyPlace ==
    ASSUME Life, Life', NEW j \in Jobs, Steady(j)
    PROVE  PlaceOf(j)' = PlaceOf(j)
<1>1. Placed(j) /\ Placed(j)'
  BY PlaceIs, PlaceIsThen DEF AllPlaced
<1> QED
  BY <1>1 DEF Placed, Steady

\* What a step shows of job j.
SeenMove(j) == Seen(ViewOf(j), ViewOf(j)')
RecordsStay(j) ==
    /\ DoneIn(completed', j) = DoneIn(completed, j)
    /\ FailIn(failed', j) = FailIn(failed, j)
    /\ DueOf(j)' = DueOf(j)

LEMMA MoveSeen ==
    ASSUME NEW j, RecordsStay(j),
           \/ Route(PlaceOf(j), PlaceOf(j)')
           \/ PlaceOf(j) = "queue" /\ PlaceOf(j)' = "hand" /\ ~DueOf(j)
    PROVE  SeenMove(j)
<1> DEFINE p == PlaceOf(j)
           q == PlaceOf(j)'
           d == DoneIn(completed, j)
           f == FailIn(failed, j)
           u == DueOf(j)
<1>1. ViewOf(j) = ViewWith(p, d, f, u)
  BY ViewIs DEF ViewWith
<1>2. ViewOf(j)' = ViewWith(q, d, f, u)
  <2>1. ViewOf(j)' = ViewWith(q, DoneIn(completed', j), FailIn(failed', j),
                              DueOf(j)')
    BY ViewIs DEF ViewWith
  <2> QED
    BY <2>1 DEF RecordsStay
<1>3. Route(p, q) \/ (p = "queue" /\ q = "hand" /\ ~u)
  OBVIOUS
<1> HIDE DEF p, q, d, f, u
<1>4. Seen(ViewWith(p, d, f, u), ViewWith(q, d, f, u))
  BY <1>3, PlaceSeen
<1> QED
  BY <1>1, <1>2, <1>4 DEF SeenMove

\* A start failure falls due when the job is deferred.
LEMMA DueKept ==
    ASSUME Invs, [Next]_vars, ~DeferJob, ~FileStartFailure, ~Crash, NEW j
    PROVE  DueOf(j)' = DueOf(j)
<1>1. CASE PollAndPrune
  BY <1>1 DEF PollAndPrune, Start, Poll, PruneHost, PruneEnds, SavePruned,
              FileCompleted, FileFailed, Goto, DueOf
<1>2. CASE Dispatch
  BY <1>2 DEF Dispatch, DequeueForHost, SkipHost, DispatchEnds, Goto, DueOf
<1>3. CASE LaunchJob
  BY <1>3 DEF LaunchJob, StageNothing, StagePayload, StageFails,
       StageMissing, Launch, Verify, Track, RecordDead, RequeueBack, BenchLoad,
       BenchSave, RequeueFailed, Goto, AfterLaunch, DueOf
<1>4. CASE Preempting
  BY <1>4 DEF Preempting, ChoosePreemption, ChooseNothing, Claim,
       ClaimNothing, KillVictim, StandDown, UntrackVictim, RequeueVictim,
       Goto, DueOf
<1>5. CASE OpsStep
  BY <1>5, NoRerun DEF OpsStep, Submit, Qdel, Clear, EnableHost, PopDeferred,
       DropDeferred, CommandDies, CommandFinishes, EnqueueMoving, DueOf
<1>6. CASE \/ WorkerStep \/ UNCHANGED vars \/ Stop
           \/ \E h \in Hosts : CooldownExpires(h)
  BY <1>6 DEF WorkerStep, JobEnds, Reboot, vars, Stop, CooldownExpires, Goto,
              DueOf
<1> QED
  BY <1>1, <1>2, <1>3, <1>4, <1>5, <1>6 DEF Next, MonitorStep

AllRecordsStay == \A j \in Jobs : RecordsStay(j)
AllSeen == \A j \in Jobs : SeenMove(j)

LEMMA SteadySeen ==
    ASSUME Life, Life', AllSteady, AllRecordsStay
    PROVE  AllSeen
<1>1. \A j \in Jobs : PlaceOf(j)' = PlaceOf(j)
  BY SteadyPlace DEF AllSteady
<1> QED
  BY <1>1, MoveSeen DEF AllRecordsStay, AllSeen, Route

\* The place a job is shown at, from where it is.
LEMMA PlaceFrom ==
    ASSUME Life, Life', NEW j \in Jobs
    PROVE  /\ j \in JobsIn(queue) => PlaceOf(j) = "queue"
           /\ j \in OnHosts(running) => PlaceOf(j) = "running"
           /\ j \in JobsIn(deferred) => PlaceOf(j) = "deferred"
           /\ j \in Moving \cup JobsIn(moving) => PlaceOf(j) = "hand"
           /\ j \notin submitted => PlaceOf(j) = "new"
           /\ j \in JobsIn(queue') => PlaceOf(j)' = "queue"
           /\ j \in OnHosts(running') => PlaceOf(j)' = "running"
           /\ j \in JobsIn(deferred') => PlaceOf(j)' = "deferred"
           /\ j \in Ended' \cup evicted' => PlaceOf(j)' = "over"
           /\ j \in Moving' \cup JobsIn(moving') => PlaceOf(j)' = "hand"
           /\ j \in withdrawn' \cup dropped' => PlaceOf(j)' = "gone"
<1>1. Placed(j) /\ Placed(j)'
  BY PlaceIs, PlaceIsThen DEF AllPlaced
<1> QED
  BY <1>1 DEF Placed

LEMMA OneSeen ==
    ASSUME Life, Life', AllRecordsStay,
           \/ ShiftsOne(Jobs \ submitted, JobsIn(queue'))
           \/ ShiftsOne(JobsIn(queue), Moving') /\ mpc # "defer"
           \/ ShiftsOne(Moving, JobsIn(queue'))
           \/ ShiftsOne(Moving, OnHosts(running'))
           \/ ShiftsOne(OnHosts(running), Moving')
           \/ ShiftsOne(JobsIn(moving), JobsIn(queue'))
    PROVE  AllSeen
<1>1. PICK j \in Jobs :
        /\ \/ j \in Jobs \ submitted /\ j \in JobsIn(queue')
           \/ j \in JobsIn(queue) /\ j \in Moving' /\ mpc # "defer"
           \/ j \in Moving /\ j \in JobsIn(queue')
           \/ j \in Moving /\ j \in OnHosts(running')
           \/ j \in OnHosts(running) /\ j \in Moving'
           \/ j \in JobsIn(moving) /\ j \in JobsIn(queue')
        /\ \A k \in Jobs \ {j} : Steady(k)
  BY DEF ShiftsOne
<1>2. \/ Route(PlaceOf(j), PlaceOf(j)')
      \/ PlaceOf(j) = "queue" /\ PlaceOf(j)' = "hand" /\ ~DueOf(j)
  BY <1>1, PlaceFrom DEF Route, DueOf
<1>3. SeenMove(j)
  BY <1>2, MoveSeen DEF AllRecordsStay
<1>4. ASSUME NEW k \in Jobs \ {j} PROVE SeenMove(k)
  BY <1>1, SteadyPlace, MoveSeen DEF AllRecordsStay, Route
<1> QED
  BY <1>3, <1>4 DEF AllSeen

LEMMA SomeSeen ==
    ASSUME Life, Life', AllRecordsStay,
           \/ Shift(OnHosts(running), Moving')
           \/ Shift(JobsIn(queue), withdrawn')
           \/ Shift(JobsIn(deferred), withdrawn')
           \/ Shift(Moving, dropped')
           \/ Shift(JobsIn(moving), dropped')
           \/ Shift(JobsIn(deferred), JobsIn(moving'))
    PROVE  AllSeen
<1>1. PICK S \in SUBSET Jobs :
        /\ \/ S \subseteq OnHosts(running) /\ S \subseteq Moving'
           \/ S \subseteq JobsIn(queue) /\ S \subseteq withdrawn'
           \/ S \subseteq JobsIn(deferred) /\ S \subseteq withdrawn'
           \/ S \subseteq Moving /\ S \subseteq dropped'
           \/ S \subseteq JobsIn(moving) /\ S \subseteq dropped'
           \/ S \subseteq JobsIn(deferred) /\ S \subseteq JobsIn(moving')
        /\ \A k \in Jobs \ S : Steady(k)
  BY DEF Shift
<1>2. ASSUME NEW j \in S PROVE Route(PlaceOf(j), PlaceOf(j)')
  BY <1>1, <1>2, PlaceFrom DEF Route
<1>3. \A j \in S : SeenMove(j)
  BY <1>2, MoveSeen DEF AllRecordsStay
<1>4. ASSUME NEW k \in Jobs \ S PROVE SeenMove(k)
  BY <1>1, SteadyPlace, MoveSeen DEF AllRecordsStay, Route
<1> QED
  BY <1>3, <1>4 DEF AllSeen


-----------------------------------------------------------------------------
(* The writes of the histories.                                            *)

\* A job that stays keeps its view, but for an old failure that may go.
LEMMA StaySeen ==
    ASSUME NEW j, PlaceOf(j)' = PlaceOf(j), DueOf(j)' = DueOf(j),
           DoneIn(completed', j) = DoneIn(completed, j),
           FailIn(failed', j) => FailIn(failed, j)
    PROVE  SeenMove(j)
<1>1. CASE FailIn(failed', j) = FailIn(failed, j)
  BY <1>1, MoveSeen DEF RecordsStay, Route
<1>2. CASE FailIn(failed, j) /\ ~FailIn(failed', j)
  <2> DEFINE p == PlaceOf(j)
             d == DoneIn(completed, j)
             u == DueOf(j)
  <2>1. FailIn(failed, j) = TRUE /\ FailIn(failed', j) = FALSE
    BY <1>2 DEF FailIn
  <2>2. ViewOf(j) = ViewWith(p, d, FailIn(failed, j), u)
    BY ViewIs DEF ViewWith
  <2>3. ViewOf(j)' = ViewWith(p, d, FailIn(failed', j), u)
    BY ViewIs DEF ViewWith
  <2> HIDE DEF p, d, u
  <2>4. Seen(ViewWith(p, d, TRUE, u), ViewWith(p, d, FALSE, u))
    BY RecordSeen
  <2> QED
    BY <2>1, <2>2, <2>3, <2>4 DEF SeenMove
<1> QED
  BY <1>1, <1>2 DEF FailIn

\* A job is over and its record is written.
LEMMA OverSeen ==
    ASSUME NEW j, PlaceOf(j) = "hand", PlaceOf(j)' = "over",
           DueOf(j)' = DueOf(j),
           \/ /\ DoneIn(completed', j) \in {"completed", "unknown"}
              /\ FailIn(failed', j) = FailIn(failed, j)
           \/ /\ DoneIn(completed', j) = DoneIn(completed, j)
              /\ FailIn(failed', j) = TRUE
    PROVE  SeenMove(j)
<1> DEFINE d == DoneIn(completed, j)
           e == DoneIn(completed', j)
           f == FailIn(failed, j)
           g == FailIn(failed', j)
           u == DueOf(j)
<1>1. ViewOf(j) = ViewWith("hand", d, f, u)
  BY ViewIs DEF ViewWith
<1>2. ViewOf(j)' = ViewWith("over", e, g, u)
  BY ViewIs DEF ViewWith
<1>3. \/ e \in {"completed", "unknown"} /\ g = f
      \/ e = d /\ g = TRUE
  OBVIOUS
<1> HIDE DEF d, e, f, g, u
<1>4. /\ \A x \in {"completed", "unknown"} :
            Seen(ViewWith("hand", d, f, u), ViewWith("over", x, f, u))
      /\ Seen(ViewWith("hand", d, f, u), ViewWith("over", d, TRUE, u))
  BY EndSeen
<1>5. Seen(ViewWith("hand", d, f, u), ViewWith("over", e, g, u))
  BY <1>3, <1>4
<1> QED
  BY <1>1, <1>2, <1>5 DEF SeenMove

LEMMA DeferSeen ==
    ASSUME Life, Life', DeferJob
    PROVE  AllSeen
<1>1. /\ completed' = completed /\ failed' = failed
      /\ mpc = "job_failed" /\ mpc' = "defer" /\ hand' = hand
  BY DEF DeferJob, Goto
<1>2. PICK j \in Jobs :
        /\ j = job /\ j \in Moving /\ j \in JobsIn(deferred')
        /\ \A k \in Jobs \ {j} : Steady(k)
  BY DeferJobMove
<1>3. ASSUME NEW k \in Jobs \ {j} PROVE SeenMove(k)
  <2>1. DueOf(k) = FALSE /\ DueOf(k)' = FALSE
    BY <1>1, <1>2 DEF DueOf, job
  <2> QED
    BY <1>1, <1>2, <2>1, SteadyPlace, StaySeen
<1>4. SeenMove(j)
  <2> DEFINE d == DoneIn(completed, j)
             f == FailIn(failed, j)
             u == DueOf(j)
  <2>1. ViewOf(j) = ViewWith("hand", d, f, u)
    BY <1>2, ViewIs, PlaceFrom DEF ViewWith
  <2>2. DueOf(j)' = TRUE
    BY <1>1, <1>2 DEF DueOf, job
  <2>3. ViewOf(j)' = ViewWith("deferred", d, f, DueOf(j)')
    BY <1>1, <1>2, ViewIs, PlaceFrom DEF ViewWith
  <2> HIDE DEF d, f, u
  <2>4. Seen(ViewWith("hand", d, f, u), ViewWith("deferred", d, f, TRUE))
    BY EndSeen
  <2> QED
    BY <2>1, <2>2, <2>3, <2>4 DEF SeenMove
<1> QED
  BY <1>3, <1>4 DEF AllSeen

LEMMA StartFailureSeen ==
    ASSUME Life, Life', FileStartFailure
    PROVE  AllSeen
<1>0. Invs /\ TypeInv
  BY DEF Life, Invs
<1> DEFINE r == <<[job |-> job, fresh |-> TRUE, status |-> "start_failed"]>>
<1>1. /\ completed' = completed /\ mpc = "defer" /\ mpc' # "defer"
      /\ FailedGrowsBy(r) /\ job = hand[1].job
  BY DEF FileStartFailure, AfterLaunch, Goto, job
<1>2. r \in Seq(Record) /\ JobsIn(r) = {job} /\ Len(r) <= MaxFailedRecords
  <2>1. job \in Jobs
    BY <1>0, <1>1, InHandItem DEF Holding
  <2>2. r \in Seq(Record) /\ JobsIn(r) = {job} /\ Len(r) = 1
    BY <2>1 DEF Record, JobsIn
  <2>3. 1 <= MaxFailedRecords
    BY HostStateAssumption DEF HostStateAssumption
  <2> QED
    BY <2>2, <2>3
<1> HIDE DEF r
<1>3. AllSteady
  BY StandingSteps
<1>4. ASSUME NEW j \in Jobs, j # job PROVE SeenMove(j)
  <2>1. DueOf(j) = FALSE /\ DueOf(j)' = FALSE
    BY <1>1, <1>4 DEF DueOf
  <2>2. FailIn(failed', j) => FailIn(failed, j)
    BY <1>0, <1>1, <1>2, <1>4, FailsAfter
  <2> QED
    BY <1>1, <1>3, <2>1, <2>2, SteadyPlace, StaySeen DEF AllSteady
<1>5. ASSUME NEW j \in Jobs, j = job PROVE SeenMove(j)
  <2> DEFINE p == PlaceOf(j)
             d == DoneIn(completed, j)
             f == FailIn(failed, j)
  <2>1. DueOf(j) = TRUE /\ DueOf(j)' = FALSE
    BY <1>1, <1>5 DEF DueOf
  <2>2. FailIn(failed', j) = TRUE
    <3>1. FailIn(failed', j)
      BY <1>0, <1>1, <1>2, <1>5, FailsAfter
    <3> QED
      BY <3>1 DEF FailIn
  <2>3. ViewOf(j) = ViewWith(p, d, f, DueOf(j))
    BY ViewIs DEF ViewWith
  <2>4. ViewOf(j)' = ViewWith(p, d, FailIn(failed', j), DueOf(j)')
    BY <1>1, <1>3, ViewIs, SteadyPlace DEF ViewWith, AllSteady
  <2> HIDE DEF p, d, f
  <2>5. Seen(ViewWith(p, d, f, TRUE), ViewWith(p, d, TRUE, FALSE))
    BY RecordSeen
  <2> QED
    BY <2>1, <2>2, <2>3, <2>4, <2>5 DEF SeenMove
<1> QED
  BY <1>4, <1>5 DEF AllSeen

\* The job that is deferred is in deferred.json, no more in memory.
LEMMA CrashSeen ==
    ASSUME Life, Life', Crash
    PROVE  AllSeen
<1>0. Invs /\ TypeInv
  BY DEF Life, Invs
<1>1. /\ completed' = completed /\ failed' = failed /\ mpc' = "down"
      /\ Shift(Moving, dropped')
  BY CrashShifts DEF Crash, Goto
<1>2. \A j : DueOf(j)' = FALSE
  BY <1>1 DEF DueOf
<1>3. CASE mpc # "defer"
  <2>1. \A j : DueOf(j) = FALSE
    BY <1>3 DEF DueOf
  <2>2. AllRecordsStay
    BY <1>1, <1>2, <2>1 DEF AllRecordsStay, RecordsStay
  <2> QED
    BY <1>1, <2>2, SomeSeen
<1>4. CASE mpc = "defer"
  <2>1. InMemory = {}
    <3>1. held = <<>> /\ done = <<>> /\ bad = <<>>
      BY <1>0, <1>4 DEF Invs, HandsInv, DiskInv
    <3> QED
      BY <1>4, <3>1, JobsInNone DEF InMemory, InHand
  <2>2. AllSteady
    BY <1>1, <2>1 DEF Shift, Moving, AllSteady
  <2>3. ASSUME NEW j \in Jobs PROVE SeenMove(j)
    <3> DEFINE p == PlaceOf(j)
               d == DoneIn(completed, j)
               f == FailIn(failed, j)
               u == DueOf(j)
    <3>1. ViewOf(j) = ViewWith(p, d, f, u)
      BY ViewIs DEF ViewWith
    <3>2. ViewOf(j)' = ViewWith(p, d, f, DueOf(j)')
      BY <1>1, <2>2, ViewIs, SteadyPlace DEF ViewWith, AllSteady
    <3> HIDE DEF p, d, f, u
    <3>3. Seen(ViewWith(p, d, f, u), ViewWith(p, d, f, FALSE))
      BY RecordSeen
    <3> QED
      BY <1>2, <3>1, <3>2, <3>3 DEF SeenMove
  <2> QED
    BY <2>3 DEF AllSeen
<1> QED
  BY <1>3, <1>4


LEMMA CompletedSeen ==
    ASSUME Life, Life', FiledInv, FiledInv', FileCompleted
    PROVE  AllSeen
<1>0. Invs /\ TypeInv /\ Invs'
  BY DEF Life, Invs
<1>1. /\ completed' = completed \o done /\ failed' = failed
      /\ mpc # "defer" /\ mpc' # "defer"
  BY DEF FileCompleted, Goto
<1>2. PICK S \in SUBSET Jobs :
        /\ S = JobsIn(done) /\ S \subseteq Moving /\ S \subseteq Ended' \cup evicted'
        /\ \A j \in Jobs \ S : Steady(j)
  BY FiledMove
<1>3. completed \in Seq(SuccessRecord) /\ done \in Seq(SuccessRecord)
  BY DEF FiledInv
<1>4. ASSUME NEW j \in Jobs
      PROVE  /\ j \notin S => DoneIn(completed', j) = DoneIn(completed, j)
             /\ j \in S => DoneIn(completed', j) \in {"completed", "unknown"}
  <2>1. Once(completed, j)
    BY <1>0, RecordedOnce
  <2>2. Once(completed', j)
    BY <1>0, RecordedOnceThen
  <2>3. Once(completed \o done, j)
    BY <1>1, <2>2
  <2>4. /\ j \notin JobsIn(done)
             => DoneIn(completed \o done, j) = DoneIn(completed, j)
        /\ j \in JobsIn(done)
             => DoneIn(completed \o done, j) \in {"completed", "unknown"}
    BY <1>3, <2>1, <2>3, DoneConcat
  <2> QED
    BY <1>1, <1>2, <2>4
<1>5. \A j : DueOf(j) = FALSE /\ DueOf(j)' = FALSE
  BY <1>1 DEF DueOf
<1>6. ASSUME NEW j \in S PROVE SeenMove(j)
  BY <1>1, <1>2, <1>4, <1>5, PlaceFrom, OverSeen
<1>7. ASSUME NEW j \in Jobs \ S PROVE SeenMove(j)
  BY <1>1, <1>2, <1>4, <1>5, SteadyPlace, StaySeen
<1> QED
  BY <1>6, <1>7 DEF AllSeen

LEMMA FailedSeen ==
    ASSUME HistoryHoldsACycle, Life, Life', FiledInv, FileFailed
    PROVE  AllSeen
<1>0. Invs /\ TypeInv
  BY DEF Life, Invs
<1>1. /\ completed' = completed /\ FailedGrowsBy(bad)
      /\ mpc # "defer" /\ mpc' # "defer"
  BY DEF FileFailed, Goto
<1>2. PICK S \in SUBSET Jobs :
        /\ S = JobsIn(bad) /\ S \subseteq Moving /\ S \subseteq Ended' \cup evicted'
        /\ \A j \in Jobs \ S : Steady(j)
  <2>1. ~FileCompleted
    BY DEF FileFailed, FileCompleted
  <2> QED
    BY <2>1, FiledMove
<1>3. bad \in Seq(Record) /\ Len(bad) <= MaxFailedRecords
  <2>1. bad \in Seq(Record) /\ MaxFailedRecords \in Nat
    BY <1>0, ItemLists, HostStateAssumption DEF HostStateAssumption
  <2>2. Cardinality(Hosts) <= MaxFailedRecords /\ Cardinality(Hosts) \in Nat
    BY FS_CardinalityType DEF HistoryHoldsACycle
  <2>3. Cardinality(Tracking) \in Nat
    BY FS_Subset, FS_CardinalityType DEF HistoryHoldsACycle, Tracking
  <2>4. CASE bad = <<>>
    BY <2>1, <2>4
  <2>5. CASE bad # <<>>
    <3>1. Len(bad) + Cardinality(Tracking) <= Cardinality(Hosts) /\ Len(bad) \in Nat
      BY <2>1, <2>5 DEF FiledInv
    <3> QED
      BY <2>1, <2>2, <2>3, <3>1
  <2> QED
    BY <2>4, <2>5
<1>4. ASSUME NEW j
      PROVE  /\ j \in JobsIn(bad) => FailIn(failed', j)
             /\ j \notin JobsIn(bad) /\ FailIn(failed', j) => FailIn(failed, j)
  BY <1>0, <1>1, <1>3, FailsAfter
<1>5. \A j : DueOf(j) = FALSE /\ DueOf(j)' = FALSE
  BY <1>1 DEF DueOf
<1>6. ASSUME NEW j \in S PROVE SeenMove(j)
  BY <1>1, <1>2, <1>4, <1>5, PlaceFrom, OverSeen
<1>7. ASSUME NEW j \in Jobs \ S PROVE SeenMove(j)
  BY <1>1, <1>2, <1>4, <1>5, SteadyPlace, StaySeen
<1> QED
  BY <1>6, <1>7 DEF AllSeen

LEMMA DeadSeen ==
    ASSUME Life, Life', FiledInv, FiledInv', RecordDead
    PROVE  AllSeen
<1>0. Invs /\ TypeInv /\ Invs'
  BY DEF Life, Invs
<1>1. PICK r \in Record :
        /\ Fetched(r, at, job, TRUE)
        /\ completed' = IF Success(r) THEN Append(completed, r) ELSE completed
        /\ FailedGrowsBy(IF Success(r) THEN <<>> ELSE <<r>>)
        /\ mpc # "defer" /\ mpc' # "defer"
  BY DEF RecordDead, AfterLaunch, Goto
<1>2. r.job = job
  <2>1. Fetched(r, at, job, TRUE)
    BY <1>1
  <2> QED
    BY <2>1, FetchedIs
<1>3. PICK j \in Jobs :
        /\ j = job /\ j \in Moving /\ j \in Ended' \cup evicted'
        /\ \A k \in Jobs \ {j} : Steady(k)
  BY RecordDeadMove
<1>4. \A k : DueOf(k) = FALSE /\ DueOf(k)' = FALSE
  BY <1>1 DEF DueOf
<1>5. CASE Success(r)
  <2> DEFINE t == <<r>>
  <2>1. /\ completed \in Seq(SuccessRecord) /\ t \in Seq(SuccessRecord)
        /\ JobsIn(t) = {j}
    BY <1>2, <1>3, <1>5 DEF FiledInv, SuccessRecord, JobsIn
  <2>2. completed' = completed \o t
    BY <1>1, <1>5, <2>1
  <2>3. failed' = failed
    <3>1. /\ failed \in Seq(Record) /\ Len(failed) <= MaxFailedRecords
      BY <1>0, ItemLists, Parts DEF FilesOK
    <3>2. failed \o <<>> = failed
      BY <3>1
    <3>3. failed' = Capped(failed)
      BY <1>1, <1>5, <3>2 DEF FailedGrowsBy
    <3> QED
      BY <3>1, <3>3 DEF Capped
  <2> HIDE DEF t
  <2>4. ASSUME NEW k \in Jobs
        PROVE  /\ k # j => DoneIn(completed', k) = DoneIn(completed, k)
               /\ k = j => DoneIn(completed', k) \in {"completed", "unknown"}
    <3>1. Once(completed, k)
      BY <1>0, RecordedOnce
    <3>2. Once(completed', k)
      BY <1>0, RecordedOnceThen
    <3>3. Once(completed \o t, k)
      BY <2>2, <3>2
    <3>4. /\ k \notin JobsIn(t)
               => DoneIn(completed \o t, k) = DoneIn(completed, k)
          /\ k \in JobsIn(t)
               => DoneIn(completed \o t, k) \in {"completed", "unknown"}
      BY <2>1, <3>1, <3>3, DoneConcat
    <3> QED
      BY <2>1, <2>2, <3>4
  <2>5. SeenMove(j)
    BY <1>3, <1>4, <2>3, <2>4, PlaceFrom, OverSeen
  <2>6. ASSUME NEW k \in Jobs \ {j} PROVE SeenMove(k)
    BY <1>3, <1>4, <2>3, <2>4, SteadyPlace, StaySeen
  <2> QED
    BY <2>5, <2>6 DEF AllSeen
<1>6. CASE ~Success(r)
  <2> DEFINE t == <<r>>
  <2>1. /\ t \in Seq(Record) /\ JobsIn(t) = {j} /\ Len(t) <= MaxFailedRecords
        /\ FailedGrowsBy(t) /\ completed' = completed
    <3>1. JobsIn(t) = {j} /\ Len(t) = 1 /\ t \in Seq(Record)
      BY <1>2, <1>3 DEF JobsIn
    <3>2. 1 <= MaxFailedRecords
      BY HostStateAssumption DEF HostStateAssumption
    <3> QED
      BY <1>1, <1>6, <3>1, <3>2
  <2> HIDE DEF t
  <2>2. ASSUME NEW k
        PROVE  /\ k = j => FailIn(failed', k)
               /\ k # j /\ FailIn(failed', k) => FailIn(failed, k)
    BY <1>0, <2>1, FailsAfter
  <2>3. SeenMove(j)
    BY <1>3, <1>4, <2>1, <2>2, PlaceFrom, OverSeen
  <2>4. ASSUME NEW k \in Jobs \ {j} PROVE SeenMove(k)
    BY <1>3, <1>4, <2>1, <2>2, SteadyPlace, StaySeen
  <2> QED
    BY <2>3, <2>4 DEF AllSeen
<1> QED
  BY <1>5, <1>6

Filed == Life /\ FiledInv

LEMMA StepSeen ==
    HistoryHoldsACycle /\ Filed /\ Filed' /\ [Next]_vars => AllSeen
<1> SUFFICES ASSUME HistoryHoldsACycle, Life, Life', FiledInv, FiledInv',
                    [Next]_vars
             PROVE  AllSeen
  BY DEF Filed
<1>0. Invs
  BY DEF Life
<1>1. CASE FileCompleted \/ FileFailed \/ RecordDead
  BY <1>1, CompletedSeen, FailedSeen, DeadSeen
<1>2. CASE DeferJob \/ FileStartFailure \/ Crash
  BY <1>2, DeferSeen, StartFailureSeen, CrashSeen
<1>3. CASE /\ ~FileCompleted /\ ~FileFailed /\ ~RecordDead
           /\ ~DeferJob /\ ~FileStartFailure /\ ~Crash
  <2>0. AllRecordsStay
    <3>1. completed' = completed /\ failed' = failed
      BY <1>0, <1>3, HistoriesKept
    <3>2. \A j : DueOf(j)' = DueOf(j)
      BY <1>0, <1>3, DueKept
    <3> QED
      BY <3>1, <3>2 DEF AllRecordsStay, RecordsStay
  <2>1. CASE PollAndPrune
    BY <1>3, <2>0, <2>1, SavePrunedShifts, SomeSeen, IdleSteps, StandingSteps,
       SteadySeen DEF PollAndPrune
  <2>2. CASE Dispatch
    <3>1. CASE \E h \in Hosts : DequeueForHost(h)
      <4>1. mpc # "defer"
        BY <3>1 DEF DequeueForHost
      <4> QED
        BY <2>0, <3>1, <4>1, TakingShifts, OneSeen
    <3>2. CASE ~\E h \in Hosts : DequeueForHost(h)
      BY <2>0, <2>2, <3>2, IdleSteps, SteadySeen DEF Dispatch
    <3> QED
      BY <3>1, <3>2
  <2>3. CASE LaunchJob
    <3>1. CASE RequeueBack \/ RequeueFailed \/ Track
      BY <2>0, <3>1, PuttingBackShifts, TrackShifts, OneSeen
    <3>2. CASE ~(RequeueBack \/ RequeueFailed \/ Track)
      BY <1>3, <2>0, <2>3, <3>2, IdleSteps, StandingSteps, SteadySeen
         DEF LaunchJob
    <3> QED
      BY <3>1, <3>2
  <2>4. CASE Preempting
    <3>1. CASE Claim
      <4>1. mpc # "defer"
        BY <3>1 DEF Claim
      <4> QED
        BY <2>0, <3>1, <4>1, TakingShifts, OneSeen
    <3>2. CASE StandDown \/ UntrackVictim \/ RequeueVictim
      BY <2>0, <3>2, PuttingBackShifts, UntrackVictimShifts,
         RequeueVictimShifts, OneSeen
    <3>3. CASE ~(Claim \/ StandDown \/ UntrackVictim \/ RequeueVictim)
      BY <2>0, <2>4, <3>3, IdleSteps, SteadySeen DEF Preempting
    <3> QED
      BY <3>1, <3>2, <3>3
  <2>5. CASE OpsStep
    <3>1. CASE \E j \in Jobs : Submit(j)
      BY <2>0, <3>1, SubmitShifts, OneSeen
    <3>2. CASE Clear \/ \E s \in SUBSET DOMAIN queue : Qdel(s)
      BY <2>0, <3>2, QueueCutShifts, SomeSeen
    <3>3. CASE \E s \in SUBSET DOMAIN deferred : PopDeferred(s) \/ DropDeferred(s)
      BY <2>0, <3>3, PopDeferredShifts, DropDeferredShifts, SomeSeen
    <3>4. CASE EnqueueMoving \/ CommandDies
      BY <2>0, <3>4, EnqueueMovingShifts, CommandDiesShifts, OneSeen, SomeSeen
    <3>5. CASE \E h \in Hosts : EnableHost(h)
      BY <2>0, <3>5, IdleSteps, SteadySeen
    <3> QED
      BY <1>0, <2>5, <3>1, <3>2, <3>3, <3>4, <3>5, NoRerun
         DEF OpsStep, CommandFinishes
  <2>6. CASE Stop
    BY <2>0, <2>6, StandingSteps, SteadySeen
  <2>7. CASE \/ WorkerStep \/ UNCHANGED vars
             \/ \E h \in Hosts : CooldownExpires(h)
    BY <2>0, <2>7, IdleSteps, SteadySeen
  <2> QED
    BY <1>3, <2>1, <2>2, <2>3, <2>4, <2>5, <2>6, <2>7 DEF Next, MonitorStep
<1> QED
  BY <1>1, <1>2, <1>3

\* The abstract specification's variable.
ViewNow == [j \in Jobs |-> ViewOf(j)]

\* The state files change as HostView says, and the lookups and the clients
\* that are modelled on HostView rely on it: a job moves between the files
\* only through a process's memory, the write that takes it for over records
\* it, no record of completed.json is taken back, and a start failure that is
\* due is filed or lost with the monitor (record_finished_job, monitor_loop,
\* append_failed_records).  A cycle's failures have to fit into failed.json:
\* one for each host, against MAX_FAILED_RECORDS of failure_state.py.
THEOREM HostImplementsView ==
    NothingRequeuedByHand /\ HistoryHoldsACycle => (Spec => ImplementsView)
<1> SUFFICES ASSUME NothingRequeuedByHand, HistoryHoldsACycle
             PROVE  Spec => ImplementsView
  OBVIOUS
<1>1. Spec => []Life
  BY LifeHolds
<1>2. Init => FiledInv
  BY DEF Init, FiledInv
<1>3. Life /\ FiledInv /\ [Next]_vars => FiledInv'
  BY StepFiled DEF Life
<1>4. Spec => []FiledInv
  BY <1>1, <1>2, <1>3, PTL DEF Spec
<1>5. Life /\ FiledInv <=> Filed
  BY DEF Filed
<1>6. Init /\ Life => Files!Init
  <2> SUFFICES ASSUME Init, Life PROVE Files!Init
    OBVIOUS
  <2>1. ASSUME NEW j \in Jobs PROVE ViewOf(j) = Files!Unseen
    <3>1. PlaceOf(j) = "new"
      BY PlaceIs DEF Init, AllPlaced, Placed
    <3>2. /\ DoneIn(completed, j) = "none" /\ FailIn(failed, j) = FALSE
          /\ DueOf(j) = FALSE
      BY DEF Init, DoneIn, FailIn, DueOf
    <3> QED
      BY <3>1, <3>2, ViewIs DEF Files!Unseen
  <2> QED
    BY <2>1 DEF Files!Init
<1>7. HistoryHoldsACycle /\ Filed /\ Filed' /\ [Next]_vars
        => [Files!Next]_ViewNow
  <2>1. ASSUME AllSeen PROVE Files!Next
    BY <2>1 DEF AllSeen, SeenMove, Seen, Files!Next
  <2> QED
    BY <2>1, StepSeen
<1> QED
  BY <1>1, <1>4, <1>5, <1>6, <1>7, PTL DEF Spec, ImplementsView, Files!Spec,
                                           ViewNow

=============================================================================

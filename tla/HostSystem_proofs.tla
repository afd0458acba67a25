------------------------- MODULE HostSystem_proofs --------------------------
(***************************************************************************)
(* Theorems of the queue host with its workers, for every number of hosts, *)
(* jobs, queues, faults and operator commands.                             *)
(***************************************************************************)
EXTENDS HostSystem, FiniteSetTheorems, TLAPS

-----------------------------------------------------------------------------
(* Lists and values that may be absent.                                    *)

LEMMA OptOf == ASSUME NEW S, NEW x \in S PROVE <<x>> \in Opt(S) /\ <<x>> # <<>>
BY DEF Opt

LEMMA OptEmpty == ASSUME NEW S PROVE <<>> \in Opt(S)
BY DEF Opt

LEMMA OptFirst ==
    ASSUME NEW S, NEW s \in Opt(S), s # <<>>
    PROVE  s[1] \in S
BY DEF Opt

LEMMA ConsType ==
    ASSUME NEW S, NEW x \in S, NEW s \in Seq(S)
    PROVE  Cons(x, s) \in Seq(S)
BY DEF Cons

LEMMA RemoveAtType ==
    ASSUME NEW S, NEW s \in Seq(S), NEW i \in DOMAIN s
    PROVE  RemoveAt(s, i) \in Seq(S)
BY DEF RemoveAt

\* What Keeping leaves of a list is a list of the same elements.
LEMMA KeepingType ==
    ASSUME NEW S, NEW s \in Seq(S), NEW I \in SUBSET DOMAIN s,
           NEW r \in Keeping(s, I)
    PROVE  r \in Seq(S)
<1>1. IsFiniteSet(DOMAIN s)
  BY FS_Interval, DOMAIN s = 1..Len(s), Len(s) \in Int
<1>2. IsFiniteSet(I)
  BY <1>1, FS_Subset
<1>3. Cardinality(I) \in Nat
  BY <1>2, FS_CardinalityType
<1>4. PICK f \in [1..Cardinality(I) -> I] : r = [n \in DOMAIN f |-> s[f[n]]]
  BY DEF Keeping
<1>5. r \in [1..Cardinality(I) -> S]
  <2>1. ASSUME NEW n \in 1..Cardinality(I) PROVE s[f[n]] \in S
    <3>1. f[n] \in DOMAIN s
      BY <1>4
    <3> QED
      BY <3>1
  <2> QED
    BY <1>4, <2>1
<1> QED
  BY <1>3, <1>5

LEMMA AppendType ==
    ASSUME NEW S, NEW s \in Seq(S), NEW x \in S
    PROVE  Append(s, x) \in Seq(S) /\ Append(s, x) # <<>>
<1>1. Len(Append(s, x)) = Len(s) + 1 /\ Len(s) \in Nat /\ Len(<<>>) = 0
  OBVIOUS
<1> QED
  BY <1>1

LEMMA JobsOfItems == ASSUME NEW s \in Seq(Item) PROVE JobsIn(s) \subseteq Jobs
<1>1. ASSUME NEW i \in DOMAIN s PROVE s[i].job \in Jobs
  <2>1. s[i] \in Item
    OBVIOUS
  <2> QED
    BY <2>1 DEF Item
<1> QED
  BY <1>1 DEF JobsIn

LEMMA JobsOfRecords ==
    ASSUME NEW s \in Seq(Record)
    PROVE  JobsIn(s) \subseteq Jobs /\ EndedIn(s) \subseteq Jobs
<1>1. ASSUME NEW i \in DOMAIN s PROVE s[i].job \in Jobs
  <2>1. s[i] \in Record
    OBVIOUS
  <2> QED
    BY <2>1 DEF Record
<1> QED
  BY <1>1 DEF JobsIn, EndedIn

\* The rewritings of an item.
LEMMA ItemsRewritten ==
    ASSUME NEW item \in Item, NEW h \in Hosts
    PROVE  /\ ResumeItem(item, h) \in Item
           /\ [ResumeItem(item, h) EXCEPT !.prio = 100] \in Item
           /\ [item EXCEPT !.fails = 0] \in Item
           /\ [item EXCEPT !.fails = @ + 1] \in Item
           /\ [item EXCEPT !.dir = TRUE] \in Item
           /\ [item EXCEPT !.preempt = FALSE, !.fails = 0, !.resume = NoHost]
                 \in Item
<1>1. ResumeItem(item, h) \in Item
  BY DEF Item, ResumeItem
<1>2. \A it \in Item : [it EXCEPT !.prio = 100] \in Item
  BY DEF Item
<1>3. [item EXCEPT !.fails = 0] \in Item
  BY DEF Item
<1>4. [item EXCEPT !.fails = @ + 1] \in Item
  BY DEF Item
<1>5. [item EXCEPT !.dir = TRUE] \in Item
  BY DEF Item
<1>6. [item EXCEPT !.preempt = FALSE, !.fails = 0, !.resume = NoHost] \in Item
  BY DEF Item
<1> QED
  BY <1>1, <1>2, <1>3, <1>4, <1>5, <1>6

\* The history of failures stays within its cap.
LEMMA CappedType ==
    ASSUME HostStateAssumption, NEW s \in Seq(Record)
    PROVE  Capped(s) \in Seq(Record) /\ Len(Capped(s)) <= MaxFailedRecords
<1> DEFINE n == Len(s)
<1>1. n \in Nat /\ MaxFailedRecords \in Nat \ {0}
  BY DEF HostStateAssumption
<1>2. CASE n <= MaxFailedRecords
  BY <1>2 DEF Capped
<1>3. CASE ~(n <= MaxFailedRecords)
  <2>1. n - MaxFailedRecords + 1 \in 1..n
    BY <1>1, <1>3
  <2>2. Capped(s) = SubSeq(s, n - MaxFailedRecords + 1, n)
    BY <1>3 DEF Capped
  <2> QED
    BY <1>1, <2>1, <2>2
<1> QED
  BY <1>2, <1>3

LEMMA FailedGrowsByType ==
    ASSUME HostStateAssumption, failed \in Seq(Record),
           evicted \in SUBSET Jobs, NEW r \in Seq(Record), FailedGrowsBy(r)
    PROVE  /\ failed' \in Seq(Record) /\ Len(failed') <= MaxFailedRecords
           /\ evicted' \in SUBSET Jobs
<1>1. failed \o r \in Seq(Record)
  OBVIOUS
<1>2. EndedIn(failed \o r) \subseteq Jobs
  BY <1>1, JobsOfRecords
<1> QED
  BY <1>1, <1>2, CappedType DEF FailedGrowsBy

LEMMA WithoutType ==
    ASSUME NEW s \in Seq(Jobs), NEW S, NEW left \in Without(s, S)
    PROVE  left \in Seq(Jobs)
BY KeepingType DEF Without

LEMMA KilledType ==
    ASSUME WorkersOK, current \in SUBSET (Hosts \X Jobs), NEW h \in Hosts,
           Killed(h), staged' = staged
    PROVE  WorkersOK' /\ current' \in SUBSET (Hosts \X Jobs)
<1>1. PICK recorded \in SUBSET procs[h] :
        /\ procs' = [procs EXCEPT ![h] = {}]
        /\ \E left \in Without(pids[h], procs[h]) :
              pids' = [pids EXCEPT ![h] = left]
        /\ rc' = [rc EXCEPT ![h] =
                    {e \in @ : e.job \notin recorded}
                      \cup [job : recorded, ok : {FALSE}]]
        /\ current' = current \cup ({h} \X recorded)
  BY DEF Killed
<1>2. recorded \subseteq Jobs
  BY DEF WorkersOK
<1>3. [job : recorded, ok : {FALSE}] \subseteq ExitStatus
  BY <1>2 DEF ExitStatus
<1>4. procs' \in [Hosts -> SUBSET Jobs]
  BY <1>1 DEF WorkersOK
<1>5. pids' \in [Hosts -> Seq(Jobs)]
  BY <1>1, WithoutType DEF WorkersOK
<1>6. rc' \in [Hosts -> SUBSET ExitStatus]
  BY <1>1, <1>3 DEF WorkersOK
<1> QED
  BY <1>1, <1>2, <1>4, <1>5, <1>6 DEF WorkersOK

LEMMA ScriptRunsType ==
    ASSUME WorkersOK, NEW h \in Hosts, NEW j \in Jobs, ScriptRuns(h, j),
           staged' = staged
    PROVE  WorkersOK'
<1>1. PICK left \in Without(pids[h], {j}) :
        pids' = [pids EXCEPT ![h] = Append(left, j)]
  BY DEF ScriptRuns
<1>2. Append(left, j) \in Seq(Jobs)
  BY WithoutType, AppendType DEF WorkersOK
<1>3. pids' \in [Hosts -> Seq(Jobs)]
  BY <1>1, <1>2 DEF WorkersOK
<1> QED
  BY <1>3 DEF ScriptRuns, WorkersOK

-----------------------------------------------------------------------------
(* The invariant.                                                          *)

\* Places of the monitor's loop where an item is in its hands, where it deals
\* with one host, and where it is preempting.
Holding == {"stage", "launch", "verify", "track", "outcome", "host_failed",
            "job_failed", "defer", "kill", "kill_failed", "untrack", "resume"}
AboutHost == Holding \cup {"claim", "bench_load", "bench_save"}
Interrupting == {"claim", "kill", "kill_failed", "untrack", "resume"}

StagesOK ==
    /\ mpc \in Holding => hand # <<>>
    /\ mpc \in AboutHost => at \in Hosts
    /\ mpc = "resume" => held # <<>>
    /\ mpc \in Interrupting => how = "preempt"
    /\ mpc \in {"claim", "kill", "untrack"} => tracked[at] # <<>>

TypeInv == TypeOK /\ StagesOK

USE DEF files, workers, memory, commands, ghosts, bounds,
        queueOnly, launching, quiet, others

\* A part of the state that a step leaves alone stays as it should be.
LEMMA Frames ==
    ASSUME TypeInv
    PROVE  /\ UNCHANGED files => FilesOK'
           /\ UNCHANGED workers => WorkersOK'
           /\ UNCHANGED memory => MemoryOK' /\ StagesOK'
           /\ UNCHANGED commands => CommandsOK'
           /\ UNCHANGED <<ghosts, bounds>> => GhostsOK'
<1>1. UNCHANGED files => FilesOK'
  BY DEF TypeInv, TypeOK, FilesOK
<1>2. UNCHANGED workers => WorkersOK'
  BY DEF TypeInv, TypeOK, WorkersOK
<1>3. UNCHANGED memory => MemoryOK' /\ StagesOK'
  BY DEF TypeInv, TypeOK, MemoryOK, StagesOK
<1>4. UNCHANGED commands => CommandsOK'
  BY DEF TypeInv, TypeOK, CommandsOK
<1>5. UNCHANGED <<ghosts, bounds>> => GhostsOK'
  BY DEF TypeInv, TypeOK, GhostsOK
<1> QED
  BY <1>1, <1>2, <1>3, <1>4, <1>5

LEMMA Parts ==
    ASSUME TypeInv
    PROVE  /\ FilesOK /\ WorkersOK /\ MemoryOK
           /\ CommandsOK /\ GhostsOK /\ StagesOK
BY DEF TypeInv, TypeOK

LEMMA FaultSpent ==
    ASSUME HostStateAssumption, faults \in 0..MaxFaults, NEW kinds, Fault(kinds)
    PROVE  faults' \in 0..MaxFaults
BY DEF HostStateAssumption, Fault

LEMMA CommandSpent ==
    ASSUME HostStateAssumption, ops \in 0..MaxOps, NEW kind, Command(kind)
    PROVE  ops' \in 0..MaxOps
BY DEF HostStateAssumption, Command

LEMMA InHandItem ==
    ASSUME TypeInv, mpc \in Holding
    PROVE  hand[1] \in Item /\ job \in Jobs /\ at \in Hosts
<1>1. hand[1] \in Item
  BY OptFirst DEF TypeInv, TypeOK, MemoryOK, StagesOK
<1> QED
  BY <1>1 DEF job, Item, TypeInv, StagesOK, AboutHost

LEMMA InMemoryType == ASSUME TypeInv PROVE InMemory \subseteq Jobs
<1>1. \A s \in Opt(Item) : s \in Seq(Item)
  BY DEF Opt
<1>2. InHand \in Seq(Item)
  BY <1>1, OptEmpty, Parts DEF InHand, MemoryOK
<1> QED
  BY <1>1, <1>2, Parts, JobsOfItems, JobsOfRecords DEF InMemory, MemoryOK

LEMMA StartType ==
    ASSUME HostStateAssumption, TypeInv, Start
    PROVE  TypeInv'
<1>1. MemoryOK'
  BY Parts DEF Start, Goto, Places, MemoryOK, FilesOK
<1>2. StagesOK'
  BY Parts DEF Start, Goto, Holding, AboutHost, Interrupting, StagesOK
<1> QED
  BY <1>1, <1>2, Frames DEF Start, TypeInv, TypeOK

LEMMA StopType ==
    ASSUME HostStateAssumption, TypeInv, Stop
    PROVE  TypeInv'
<1>1. MemoryOK'
  BY Parts, OptEmpty DEF Stop, Goto, MemoryLost, Places, MemoryOK
<1>2. GhostsOK'
  BY Parts, CommandSpent DEF Stop, GhostsOK
<1>3. StagesOK'
  BY Parts DEF Stop, Goto, MemoryLost, Holding, AboutHost, Interrupting,
     StagesOK
<1> QED
  BY <1>1, <1>2, <1>3, Frames DEF Stop, TypeInv, TypeOK

LEMMA CrashType ==
    ASSUME HostStateAssumption, TypeInv, Crash
    PROVE  TypeInv'
<1>1. InMemory \subseteq Jobs
  BY InMemoryType
<1>2. MemoryOK'
  BY Parts, OptEmpty DEF Crash, Goto, MemoryLost, Places, MemoryOK
<1>3. GhostsOK'
  BY Parts, <1>1, FaultSpent DEF Crash, GhostsOK
<1>4. StagesOK'
  BY Parts DEF Crash, Goto, MemoryLost, Holding, AboutHost, Interrupting,
     StagesOK
<1> QED
  BY <1>2, <1>3, <1>4, Frames DEF Crash, TypeInv, TypeOK

LEMMA PollType ==
    ASSUME HostStateAssumption, TypeInv, Poll
    PROVE  TypeInv'
<1>1. MemoryOK'
  BY Parts DEF Poll, Goto, Places, MemoryOK, Truth, FilesOK
<1>2. GhostsOK'
  BY Parts, FaultSpent DEF Poll, GhostsOK
<1>3. StagesOK'
  BY Parts DEF Poll, Goto, Holding, AboutHost, Interrupting, StagesOK
<1> QED
  BY <1>1, <1>2, <1>3, Frames DEF Poll, TypeInv, TypeOK

LEMMA PruneHostType ==
    ASSUME HostStateAssumption, TypeInv, NEW h \in Hosts, PruneHost(h)
    PROVE  TypeInv'
<1>1. MemoryOK'
  BY Parts, OptEmpty, AppendType DEF PruneHost, Places, MemoryOK, Collect
<1>2. GhostsOK'
  BY Parts, FaultSpent DEF PruneHost, GhostsOK, Fetched
<1>3. StagesOK'
  BY Parts DEF PruneHost, Holding, AboutHost, Interrupting, StagesOK
<1> QED
  BY <1>1, <1>2, <1>3, Frames DEF PruneHost, TypeInv, TypeOK

LEMMA PruneEndsType ==
    ASSUME HostStateAssumption, TypeInv, PruneEnds
    PROVE  TypeInv'
<1>1. MemoryOK'
  BY Parts DEF PruneEnds, Goto, Places, MemoryOK
<1>2. StagesOK'
  BY Parts DEF PruneEnds, Goto, Holding, AboutHost, Interrupting, StagesOK
<1> QED
  BY <1>1, <1>2, Frames DEF PruneEnds, TypeInv, TypeOK

LEMMA SavePrunedType ==
    ASSUME HostStateAssumption, TypeInv, SavePruned
    PROVE  TypeInv'
<1>1. FilesOK'
  BY Parts DEF SavePruned, FilesOK, MemoryOK
<1>2. MemoryOK'
  BY Parts DEF SavePruned, Goto, Places, MemoryOK
<1>3. StagesOK'
  BY Parts DEF SavePruned, Goto, Holding, AboutHost, Interrupting, StagesOK
<1> QED
  BY <1>1, <1>2, <1>3, Frames DEF SavePruned, TypeInv, TypeOK

LEMMA FileCompletedType ==
    ASSUME HostStateAssumption, TypeInv, FileCompleted
    PROVE  TypeInv'
<1>1. FilesOK'
  BY Parts DEF FileCompleted, FilesOK, MemoryOK
<1>2. MemoryOK'
  BY Parts DEF FileCompleted, Goto, Places, MemoryOK
<1>3. StagesOK'
  BY Parts DEF FileCompleted, Goto, Holding, AboutHost, Interrupting, StagesOK
<1> QED
  BY <1>1, <1>2, <1>3, Frames DEF FileCompleted, TypeInv, TypeOK

LEMMA FileFailedType ==
    ASSUME HostStateAssumption, TypeInv, FileFailed
    PROVE  TypeInv'
<1>1. FilesOK'
  BY Parts, FailedGrowsByType DEF FileFailed, FilesOK, GhostsOK, MemoryOK
<1>2. MemoryOK'
  BY Parts DEF FileFailed, Goto, Places, MemoryOK
<1>3. GhostsOK'
  BY Parts, FailedGrowsByType DEF FileFailed, GhostsOK, FilesOK, MemoryOK
<1>4. StagesOK'
  BY Parts DEF FileFailed, Goto, Holding, AboutHost, Interrupting, StagesOK
<1> QED
  BY <1>1, <1>2, <1>3, <1>4, Frames DEF FileFailed, TypeInv, TypeOK

LEMMA DequeueForHostType ==
    ASSUME HostStateAssumption, TypeInv, NEW h \in Hosts, DequeueForHost(h)
    PROVE  TypeInv'
<1>1. PICK i \in DOMAIN queue :
        hand' = <<queue[i]>> /\ queue' = RemoveAt(queue, i)
  BY DEF DequeueForHost, BestIndex, Earliest, Candidates
<1>2. FilesOK'
  BY Parts, <1>1, RemoveAtType DEF DequeueForHost, FilesOK
<1>3. MemoryOK'
  BY Parts, <1>1, OptOf DEF DequeueForHost, Goto, Places, MemoryOK, FilesOK
<1>4. StagesOK'
  BY Parts, <1>1 DEF DequeueForHost, Goto, Holding, AboutHost, Interrupting,
     StagesOK
<1> QED
  BY <1>2, <1>3, <1>4, Frames DEF DequeueForHost, TypeInv, TypeOK

LEMMA SkipHostType ==
    ASSUME HostStateAssumption, TypeInv, NEW h \in Hosts, SkipHost(h)
    PROVE  TypeInv'
<1>1. MemoryOK'
  BY Parts DEF SkipHost, Places, MemoryOK
<1>2. StagesOK'
  BY Parts DEF SkipHost, Holding, AboutHost, Interrupting, StagesOK
<1> QED
  BY <1>1, <1>2, Frames DEF SkipHost, TypeInv, TypeOK

LEMMA DispatchEndsType ==
    ASSUME HostStateAssumption, TypeInv, DispatchEnds
    PROVE  TypeInv'
<1>1. MemoryOK'
  BY Parts DEF DispatchEnds, Goto, Places, MemoryOK
<1>2. StagesOK'
  BY Parts DEF DispatchEnds, Goto, Holding, AboutHost, Interrupting, StagesOK
<1> QED
  BY <1>1, <1>2, Frames DEF DispatchEnds, TypeInv, TypeOK

LEMMA StageNothingType ==
    ASSUME HostStateAssumption, TypeInv, StageNothing
    PROVE  TypeInv'
<1>1. MemoryOK'
  BY Parts DEF StageNothing, Goto, Places, MemoryOK
<1>2. StagesOK'
  BY Parts DEF StageNothing, Goto, Holding, AboutHost, Interrupting, StagesOK
<1> QED
  BY <1>1, <1>2, Frames DEF StageNothing, TypeInv, TypeOK

LEMMA StagePayloadType ==
    ASSUME HostStateAssumption, TypeInv, StagePayload
    PROVE  TypeInv'
<1>1. hand[1] \in Item /\ job \in Jobs /\ at \in Hosts
  BY InHandItem DEF StagePayload, Holding
<1>2. WorkersOK'
  BY Parts, <1>1 DEF StagePayload, WorkersOK
<1>3. MemoryOK'
  BY Parts, <1>1, ItemsRewritten, OptOf DEF StagePayload, Goto, Places,
     MemoryOK, WithDir
<1>4. StagesOK'
  BY Parts, <1>1 DEF StagePayload, Goto, Holding, AboutHost, Interrupting,
     StagesOK, WithDir
<1> QED
  BY <1>2, <1>3, <1>4, Frames DEF StagePayload, TypeInv, TypeOK

LEMMA StageFailsType ==
    ASSUME HostStateAssumption, TypeInv, StageFails
    PROVE  TypeInv'
<1>1. hand[1] \in Item /\ job \in Jobs /\ at \in Hosts
  BY InHandItem DEF StageFails, Holding
<1>2. hand' \in Opt(Item) /\ hand' # <<>>
  <2>1. CASE hand' = hand
    BY <2>1, Parts DEF StageFails, MemoryOK, StagesOK, Holding
  <2>2. CASE WithDir
    BY <1>1, <2>2, ItemsRewritten, OptOf DEF WithDir
  <2> QED
    BY <2>1, <2>2 DEF StageFails
<1>3. MemoryOK'
  BY Parts, <1>2 DEF StageFails, Goto, Places, MemoryOK
<1>4. GhostsOK'
  BY Parts, FaultSpent DEF StageFails, GhostsOK
<1>5. StagesOK'
  BY Parts, <1>1, <1>2 DEF StageFails, Goto, Holding, AboutHost, Interrupting,
     StagesOK
<1> QED
  BY <1>3, <1>4, <1>5, Frames DEF StageFails, TypeInv, TypeOK

LEMMA StageMissingType ==
    ASSUME HostStateAssumption, TypeInv, StageMissing
    PROVE  TypeInv'
<1>1. MemoryOK'
  BY Parts DEF StageMissing, Goto, Places, MemoryOK
<1>2. StagesOK'
  BY Parts DEF StageMissing, Goto, Holding, AboutHost, Interrupting, StagesOK
<1> QED
  BY <1>1, <1>2, Frames DEF StageMissing, TypeInv, TypeOK

LEMMA LaunchType ==
    ASSUME HostStateAssumption, TypeInv, Launch
    PROVE  TypeInv'
<1>1. hand[1] \in Item /\ job \in Jobs /\ at \in Hosts
  BY InHandItem DEF Launch, Holding
<1>2. WorkersOK'
  BY Parts, <1>1, ScriptRunsType DEF Launch, WorkersOK
<1>3. MemoryOK'
  BY Parts DEF Launch, Goto, Places, MemoryOK
<1>4. GhostsOK'
  BY Parts, FaultSpent DEF Launch, GhostsOK, Attempt
<1>5. StagesOK'
  BY Parts DEF Launch, Goto, Holding, AboutHost, Interrupting, StagesOK
<1> QED
  BY <1>2, <1>3, <1>4, <1>5, Frames DEF Launch, TypeInv, TypeOK

LEMMA VerifyType ==
    ASSUME HostStateAssumption, TypeInv, Verify
    PROVE  TypeInv'
<1>1. MemoryOK'
  BY Parts DEF Verify, Goto, Places, MemoryOK
<1>2. GhostsOK'
  BY Parts, FaultSpent DEF Verify, GhostsOK, VerifySees
<1>3. StagesOK'
  BY Parts DEF Verify, Goto, Holding, AboutHost, Interrupting, StagesOK
<1> QED
  BY <1>1, <1>2, <1>3, Frames DEF Verify, TypeInv, TypeOK

LEMMA TrackType ==
    ASSUME HostStateAssumption, TypeInv, Track
    PROVE  TypeInv'
<1>1. hand[1] \in Item /\ job \in Jobs /\ at \in Hosts
  BY InHandItem DEF Track, Holding
<1>2. [hand[1] EXCEPT !.preempt = FALSE, !.fails = 0, !.resume = NoHost]
        \in Item
  BY <1>1, ItemsRewritten
<1>3. FilesOK'
  BY Parts, <1>1, <1>2, OptOf DEF Track, FilesOK, MemoryOK
<1>4. MemoryOK'
  BY Parts, <1>1, <1>2, OptOf, OptEmpty DEF Track, Goto, AfterLaunch, Places,
     MemoryOK
<1>5. StagesOK'
  BY Parts DEF Track, Goto, AfterLaunch, Holding, AboutHost, Interrupting,
     StagesOK
<1> QED
  BY <1>3, <1>4, <1>5, Frames DEF Track, TypeInv, TypeOK

LEMMA RecordDeadType ==
    ASSUME HostStateAssumption, TypeInv, RecordDead
    PROVE  TypeInv'
<1>1. PICK r \in Record :
        /\ Fetched(r, at, job, TRUE)
        /\ completed' = IF Success(r) THEN Append(completed, r) ELSE completed
        /\ FailedGrowsBy(IF Success(r) THEN <<>> ELSE <<r>>)
        /\ AfterLaunch(IF Success(r) THEN "dispatch" ELSE "choose")
  BY DEF RecordDead
<1>2. (IF Success(r) THEN <<>> ELSE <<r>>) \in Seq(Record)
  OBVIOUS
<1>3. /\ failed' \in Seq(Record) /\ Len(failed') <= MaxFailedRecords
      /\ evicted' \in SUBSET Jobs
  BY <1>1, <1>2, Parts, FailedGrowsByType DEF FilesOK, GhostsOK
<1>4. faults' \in 0..MaxFaults
  BY <1>1, Parts, FaultSpent DEF Fetched, GhostsOK
<1>5. FilesOK'
  BY Parts, <1>1, <1>3, AppendType DEF RecordDead, FilesOK
<1>6. MemoryOK'
  BY Parts, <1>1, OptEmpty DEF RecordDead, Goto, AfterLaunch, Places, MemoryOK
<1>7. GhostsOK'
  BY Parts, <1>3, <1>4 DEF RecordDead, GhostsOK
<1>8. StagesOK'
  BY Parts, <1>1 DEF RecordDead, Goto, AfterLaunch, Holding, AboutHost,
     Interrupting, StagesOK
<1> QED
  BY <1>5, <1>6, <1>7, <1>8, Frames DEF RecordDead, TypeInv, TypeOK

LEMMA RequeueBackType ==
    ASSUME HostStateAssumption, TypeInv, RequeueBack
    PROVE  TypeInv'
<1>1. hand[1] \in Item /\ job \in Jobs /\ at \in Hosts
  BY InHandItem DEF RequeueBack, Holding
<1>2. FilesOK'
  BY Parts, <1>1, ItemsRewritten, ConsType, AppendType DEF RequeueBack, FilesOK
<1>3. MemoryOK'
  BY Parts, OptEmpty DEF RequeueBack, Goto, AfterLaunch, Places, MemoryOK
<1>4. StagesOK'
  BY Parts DEF RequeueBack, Goto, AfterLaunch, Holding, AboutHost,
     Interrupting, StagesOK
<1> QED
  BY <1>2, <1>3, <1>4, Frames DEF RequeueBack, TypeInv, TypeOK

LEMMA BenchLoadType ==
    ASSUME HostStateAssumption, TypeInv, BenchLoad
    PROVE  TypeInv'
<1>1. at \in Hosts
  BY Parts DEF BenchLoad, StagesOK, AboutHost
<1>2. MemoryOK'
  BY Parts, <1>1 DEF BenchLoad, Goto, Places, MemoryOK, FilesOK
<1>3. StagesOK'
  BY Parts DEF BenchLoad, Goto, Holding, AboutHost, Interrupting, StagesOK
<1> QED
  BY <1>2, <1>3, Frames DEF BenchLoad, TypeInv, TypeOK

LEMMA BenchSaveType ==
    ASSUME HostStateAssumption, TypeInv, BenchSave
    PROVE  TypeInv'
<1>1. FilesOK'
  BY Parts DEF BenchSave, FilesOK, MemoryOK
<1>2. MemoryOK'
  BY Parts DEF BenchSave, Goto, Places, MemoryOK
<1>3. StagesOK'
  BY Parts DEF BenchSave, Goto, Holding, AboutHost, Interrupting, StagesOK
<1> QED
  BY <1>1, <1>2, <1>3, Frames DEF BenchSave, TypeInv, TypeOK

LEMMA RequeueFailedType ==
    ASSUME HostStateAssumption, TypeInv, RequeueFailed
    PROVE  TypeInv'
<1>1. hand[1] \in Item /\ job \in Jobs /\ at \in Hosts
  BY InHandItem DEF RequeueFailed, Holding
<1>2. FilesOK'
  BY Parts, <1>1, ItemsRewritten, ConsType, AppendType DEF RequeueFailed,
     FilesOK
<1>3. MemoryOK'
  BY Parts, OptEmpty DEF RequeueFailed, Goto, AfterLaunch, Places, MemoryOK
<1>4. StagesOK'
  BY Parts DEF RequeueFailed, Goto, AfterLaunch, Holding, AboutHost,
     Interrupting, StagesOK
<1> QED
  BY <1>2, <1>3, <1>4, Frames DEF RequeueFailed, TypeInv, TypeOK

LEMMA DeferJobType ==
    ASSUME HostStateAssumption, TypeInv, DeferJob
    PROVE  TypeInv'
<1>1. hand[1] \in Item /\ job \in Jobs /\ at \in Hosts
  BY InHandItem DEF DeferJob, Holding
<1>2. FilesOK'
  BY Parts, <1>1, ItemsRewritten, ConsType, AppendType DEF DeferJob, FilesOK
<1>3. MemoryOK'
  BY Parts, OptEmpty DEF DeferJob, Goto, Places, MemoryOK
<1>4. StagesOK'
  BY Parts DEF DeferJob, Goto, Holding, AboutHost, Interrupting, StagesOK
<1> QED
  BY <1>2, <1>3, <1>4, Frames DEF DeferJob, TypeInv, TypeOK

LEMMA FileStartFailureType ==
    ASSUME HostStateAssumption, TypeInv, FileStartFailure
    PROVE  TypeInv'
<1>1. hand[1] \in Item /\ job \in Jobs /\ at \in Hosts
  BY InHandItem DEF FileStartFailure, Holding
<1>2. PICK r \in Seq(Record) : FailedGrowsBy(r)
  <2>1. <<[job |-> job, fresh |-> TRUE, status |-> "start_failed"]>>
          \in Seq(Record)
    BY <1>1 DEF Record
  <2> QED
    BY <2>1 DEF FileStartFailure
<1>3. /\ failed' \in Seq(Record) /\ Len(failed') <= MaxFailedRecords
      /\ evicted' \in SUBSET Jobs
  BY <1>2, Parts, FailedGrowsByType DEF FilesOK, GhostsOK
<1>4. FilesOK'
  BY Parts, <1>3 DEF FileStartFailure, FilesOK
<1>5. MemoryOK'
  BY Parts, OptEmpty DEF FileStartFailure, Goto, AfterLaunch, Places, MemoryOK
<1>6. GhostsOK'
  BY Parts, <1>3 DEF FileStartFailure, GhostsOK
<1>7. StagesOK'
  BY Parts DEF FileStartFailure, Goto, AfterLaunch, Holding, AboutHost,
     Interrupting, StagesOK
<1> QED
  BY <1>4, <1>5, <1>6, <1>7, Frames DEF FileStartFailure, TypeInv, TypeOK

LEMMA ChoosePreemptionType ==
    ASSUME HostStateAssumption, TypeInv, ChoosePreemption
    PROVE  TypeInv'
<1>1. PICK i \in Preemptor : \E h \in Weakest(Victims(queue[i])) :
        target' = queue[i].job /\ at' = h
  BY DEF ChoosePreemption
<1>2. at' \in Hosts /\ tracked[at'] # <<>>
  BY <1>1 DEF Weakest, Victims
<1>3. i \in DOMAIN queue
  BY <1>1 DEF Preemptor, Earliest, Preemptors
<1>4. queue[i].job \in Jobs
  <2>1. queue[i] \in Item
    BY <1>3, Parts DEF FilesOK
  <2> QED
    BY <2>1 DEF Item
<1>5. MemoryOK'
  BY Parts, <1>1, <1>2, <1>4 DEF ChoosePreemption, Goto, Places, MemoryOK
<1>6. StagesOK'
  BY Parts, <1>1, <1>2 DEF ChoosePreemption, Goto, Holding, AboutHost,
     Interrupting, StagesOK
<1> QED
  BY <1>5, <1>6, Frames DEF ChoosePreemption, TypeInv, TypeOK

LEMMA ChooseNothingType ==
    ASSUME HostStateAssumption, TypeInv, ChooseNothing
    PROVE  TypeInv'
<1>1. MemoryOK'
  BY Parts DEF ChooseNothing, Goto, Places, MemoryOK
<1>2. StagesOK'
  BY Parts DEF ChooseNothing, Goto, Holding, AboutHost, Interrupting, StagesOK
<1> QED
  BY <1>1, <1>2, Frames DEF ChooseNothing, TypeInv, TypeOK

LEMMA ClaimType ==
    ASSUME HostStateAssumption, TypeInv, Claim
    PROVE  TypeInv'
<1>1. PICK i \in DOMAIN queue :
        hand' = <<queue[i]>> /\ queue' = RemoveAt(queue, i)
  BY DEF Claim, Positions, Earliest
<1>2. FilesOK'
  BY Parts, <1>1, RemoveAtType DEF Claim, FilesOK
<1>3. MemoryOK'
  BY Parts, <1>1, OptOf DEF Claim, Goto, Places, MemoryOK, FilesOK
<1>4. StagesOK'
  BY Parts, <1>1 DEF Claim, Goto, Holding, AboutHost, Interrupting, StagesOK
<1> QED
  BY <1>2, <1>3, <1>4, Frames DEF Claim, TypeInv, TypeOK

LEMMA ClaimNothingType ==
    ASSUME HostStateAssumption, TypeInv, ClaimNothing
    PROVE  TypeInv'
<1>1. MemoryOK'
  BY Parts DEF ClaimNothing, Goto, Places, MemoryOK
<1>2. StagesOK'
  BY Parts DEF ClaimNothing, Goto, Holding, AboutHost, Interrupting, StagesOK
<1> QED
  BY <1>1, <1>2, Frames DEF ClaimNothing, TypeInv, TypeOK

LEMMA KillVictimType ==
    ASSUME HostStateAssumption, TypeInv, KillVictim
    PROVE  TypeInv'
<1>1. hand[1] \in Item /\ job \in Jobs /\ at \in Hosts
  BY InHandItem DEF KillVictim, Holding
<1>2. WorkersOK'
  BY Parts, <1>1, KilledType DEF KillVictim, WorkersOK, GhostsOK
<1>3. MemoryOK'
  BY Parts DEF KillVictim, Goto, Places, MemoryOK
<1>4. GhostsOK'
  BY Parts, <1>1, KilledType, FaultSpent DEF KillVictim, GhostsOK
<1>5. StagesOK'
  BY Parts DEF KillVictim, Goto, Holding, AboutHost, Interrupting, StagesOK
<1> QED
  BY <1>2, <1>3, <1>4, <1>5, Frames DEF KillVictim, TypeInv, TypeOK

LEMMA StandDownType ==
    ASSUME HostStateAssumption, TypeInv, StandDown
    PROVE  TypeInv'
<1>1. hand[1] \in Item /\ job \in Jobs /\ at \in Hosts
  BY InHandItem DEF StandDown, Holding
<1>2. FilesOK'
  BY Parts, <1>1, ConsType DEF StandDown, FilesOK
<1>3. MemoryOK'
  BY Parts, OptEmpty DEF StandDown, Goto, Places, MemoryOK
<1>4. StagesOK'
  BY Parts DEF StandDown, Goto, Holding, AboutHost, Interrupting, StagesOK
<1> QED
  BY <1>2, <1>3, <1>4, Frames DEF StandDown, TypeInv, TypeOK

LEMMA UntrackVictimType ==
    ASSUME HostStateAssumption, TypeInv, UntrackVictim
    PROVE  TypeInv'
<1>1. hand[1] \in Item /\ job \in Jobs /\ at \in Hosts
  BY InHandItem DEF UntrackVictim, Holding
<1>2. ResumeItem(tracked[at][1], at) \in Item
  BY <1>1, Parts, OptFirst, ItemsRewritten DEF UntrackVictim, MemoryOK,
     StagesOK
<1>3. FilesOK'
  BY Parts, <1>1, OptEmpty DEF UntrackVictim, FilesOK, MemoryOK
<1>4. MemoryOK'
  BY Parts, <1>1, <1>2, OptOf, OptEmpty DEF UntrackVictim, Goto, Places,
     MemoryOK
<1>5. StagesOK'
  BY Parts, <1>1, <1>2 DEF UntrackVictim, Goto, Holding, AboutHost,
     Interrupting, StagesOK
<1> QED
  BY <1>3, <1>4, <1>5, Frames DEF UntrackVictim, TypeInv, TypeOK

LEMMA RequeueVictimType ==
    ASSUME HostStateAssumption, TypeInv, RequeueVictim
    PROVE  TypeInv'
<1>1. hand[1] \in Item /\ job \in Jobs /\ at \in Hosts
  BY InHandItem DEF RequeueVictim, Holding
<1>2. held[1] \in Item
  BY Parts, OptFirst DEF RequeueVictim, MemoryOK, StagesOK
<1>3. FilesOK'
  BY Parts, <1>2, ConsType DEF RequeueVictim, FilesOK
<1>4. MemoryOK'
  BY Parts, OptEmpty DEF RequeueVictim, Goto, Places, MemoryOK
<1>5. StagesOK'
  BY Parts DEF RequeueVictim, Goto, Holding, AboutHost, Interrupting, StagesOK
<1> QED
  BY <1>3, <1>4, <1>5, Frames DEF RequeueVictim, TypeInv, TypeOK

LEMMA SubmitType ==
    ASSUME HostStateAssumption, TypeInv, NEW j \in Jobs, Submit(j)
    PROVE  TypeInv'
<1>1. NewItem(j) \in Item
  BY DEF NewItem, Item, HostStateAssumption
<1>2. FilesOK'
  BY Parts, <1>1, AppendType DEF Submit, FilesOK
<1>3. GhostsOK'
  BY Parts DEF Submit, GhostsOK
<1> QED
  BY <1>2, <1>3, Frames DEF Submit, TypeInv, TypeOK

LEMMA QdelType ==
    ASSUME HostStateAssumption, TypeInv, NEW s \in SUBSET DOMAIN queue, Qdel(s)
    PROVE  TypeInv'
<1>1. {queue[i].job : i \in s} \subseteq Jobs
  BY Parts, JobsOfItems DEF FilesOK, JobsIn
<1>2. FilesOK'
  BY Parts, KeepingType DEF Qdel, FilesOK
<1>3. GhostsOK'
  BY Parts, <1>1, CommandSpent DEF Qdel, GhostsOK
<1> QED
  BY <1>2, <1>3, Frames DEF Qdel, TypeInv, TypeOK

LEMMA ClearType ==
    ASSUME HostStateAssumption, TypeInv, Clear
    PROVE  TypeInv'
<1>1. FilesOK'
  BY Parts DEF Clear, FilesOK
<1>2. GhostsOK'
  BY Parts, CommandSpent, JobsOfItems DEF Clear, GhostsOK, FilesOK
<1> QED
  BY <1>1, <1>2, Frames DEF Clear, TypeInv, TypeOK

LEMMA EnableHostType ==
    ASSUME HostStateAssumption, TypeInv, NEW h \in Hosts, EnableHost(h)
    PROVE  TypeInv'
<1>1. FilesOK'
  BY Parts DEF EnableHost, FilesOK
<1>2. GhostsOK'
  BY Parts, CommandSpent DEF EnableHost, GhostsOK
<1> QED
  BY <1>1, <1>2, Frames DEF EnableHost, TypeInv, TypeOK

LEMMA PopDeferredType ==
    ASSUME HostStateAssumption, TypeInv, NEW s \in SUBSET DOMAIN deferred,
           PopDeferred(s)
    PROVE  TypeInv'
<1>1. FilesOK'
  BY Parts, KeepingType DEF PopDeferred, FilesOK
<1>2. CommandsOK'
  BY Parts, KeepingType DEF PopDeferred, CommandsOK, FilesOK
<1>3. GhostsOK'
  BY Parts, CommandSpent DEF PopDeferred, GhostsOK
<1> QED
  BY <1>1, <1>2, <1>3, Frames DEF PopDeferred, TypeInv, TypeOK

LEMMA EnqueueMovingType ==
    ASSUME HostStateAssumption, TypeInv, EnqueueMoving
    PROVE  TypeInv'
<1>1. Head(moving) \in Item /\ Tail(moving) \in Seq(Item)
  BY Parts DEF EnqueueMoving, CommandsOK
<1>2. FilesOK'
  BY Parts, <1>1, AppendType DEF EnqueueMoving, FilesOK
<1>3. CommandsOK'
  BY Parts, <1>1 DEF EnqueueMoving, CommandsOK
<1> QED
  BY <1>2, <1>3, Frames DEF EnqueueMoving, TypeInv, TypeOK

LEMMA DropDeferredType ==
    ASSUME HostStateAssumption, TypeInv, NEW s \in SUBSET DOMAIN deferred,
           DropDeferred(s)
    PROVE  TypeInv'
<1>1. {deferred[i].job : i \in s} \subseteq Jobs
  BY Parts, JobsOfItems DEF FilesOK, JobsIn
<1>2. FilesOK'
  BY Parts, KeepingType DEF DropDeferred, FilesOK
<1>3. GhostsOK'
  BY Parts, <1>1, CommandSpent DEF DropDeferred, GhostsOK
<1> QED
  BY <1>2, <1>3, Frames DEF DropDeferred, TypeInv, TypeOK

LEMMA CommandDiesType ==
    ASSUME HostStateAssumption, TypeInv, CommandDies
    PROVE  TypeInv'
<1>1. CommandsOK'
  BY Parts DEF CommandDies, CommandsOK
<1>2. GhostsOK'
  BY Parts, FaultSpent, JobsOfItems DEF CommandDies, GhostsOK, CommandsOK
<1> QED
  BY <1>1, <1>2, Frames DEF CommandDies, TypeInv, TypeOK

LEMMA ReadRunningType ==
    ASSUME HostStateAssumption, TypeInv, NEW h \in Hosts, ReadRunning(h)
    PROVE  TypeInv'
<1>1. running[h][1] \in Item
  BY Parts, OptFirst DEF ReadRunning, FilesOK
<1>2. rerun' \in Opt(Rerun)
  <2> DEFINE item == [ResumeItem(running[h][1], h) EXCEPT !.prio = 100]
  <2>1. [host |-> h, item |-> item, step |-> "requeue"] \in Rerun
    BY <1>1, ItemsRewritten DEF Rerun
  <2> QED
    BY <2>1, OptOf DEF ReadRunning
<1>3. CommandsOK'
  BY Parts, <1>2 DEF ReadRunning, CommandsOK
<1>4. GhostsOK'
  BY Parts, CommandSpent DEF ReadRunning, GhostsOK
<1> QED
  BY <1>3, <1>4, Frames DEF ReadRunning, TypeInv, TypeOK

LEMMA RequeueReadType ==
    ASSUME HostStateAssumption, TypeInv, RequeueRead
    PROVE  TypeInv'
<1>1. rerun[1] \in Rerun
  BY Parts, OptFirst DEF RequeueRead, CommandsOK
<1>2. [rerun[1] EXCEPT !.step = "kill"] \in Rerun
  BY <1>1 DEF Rerun
<1>3. FilesOK'
  BY Parts, <1>1, ConsType DEF RequeueRead, FilesOK, Rerun
<1>4. CommandsOK'
  BY Parts, <1>2, OptOf DEF RequeueRead, CommandsOK
<1> QED
  BY <1>3, <1>4, Frames DEF RequeueRead, TypeInv, TypeOK

LEMMA KillRequeuedType ==
    ASSUME HostStateAssumption, TypeInv, KillRequeued
    PROVE  TypeInv'
<1>1. rerun[1].host \in Hosts
  BY Parts, OptFirst DEF KillRequeued, CommandsOK, Rerun
<1>2. WorkersOK'
  BY Parts, <1>1, KilledType DEF KillRequeued, WorkersOK, GhostsOK
<1>3. CommandsOK'
  BY Parts, OptEmpty DEF KillRequeued, CommandsOK
<1>4. GhostsOK'
  BY Parts, <1>1, KilledType, FaultSpent DEF KillRequeued, GhostsOK
<1> QED
  BY <1>2, <1>3, <1>4, Frames DEF KillRequeued, TypeInv, TypeOK

LEMMA CooldownExpiresType ==
    ASSUME HostStateAssumption, TypeInv, NEW h \in Hosts, CooldownExpires(h)
    PROVE  TypeInv'
<1>1. FilesOK'
  BY Parts DEF CooldownExpires, FilesOK
<1>2. MemoryOK'
  BY Parts DEF CooldownExpires, Places, MemoryOK
<1>3. StagesOK'
  BY Parts DEF CooldownExpires, Holding, AboutHost, Interrupting, StagesOK
<1> QED
  BY <1>1, <1>2, <1>3, Frames DEF CooldownExpires, TypeInv, TypeOK

LEMMA JobEndsType ==
    ASSUME HostStateAssumption, TypeInv, NEW h \in Hosts, NEW j \in Jobs,
           JobEnds(h, j)
    PROVE  TypeInv'
<1>1. WorkersOK'
  BY Parts DEF JobEnds, WorkersOK, ExitStatus
<1>2. GhostsOK'
  BY Parts DEF JobEnds, GhostsOK
<1> QED
  BY <1>1, <1>2, Frames DEF JobEnds, TypeInv, TypeOK

LEMMA RebootType ==
    ASSUME HostStateAssumption, TypeInv, NEW h \in Hosts, Reboot(h)
    PROVE  TypeInv'
<1>1. WorkersOK'
  BY Parts DEF Reboot, WorkersOK
<1>2. GhostsOK'
  BY Parts, FaultSpent DEF Reboot, GhostsOK
<1> QED
  BY <1>1, <1>2, Frames DEF Reboot, TypeInv, TypeOK

LEMMA InitType == Init => TypeInv
<1> SUFFICES ASSUME Init PROVE TypeInv
  OBVIOUS
<1>1. FilesOK
  BY OptEmpty, HostStateAssumption DEF Init, FilesOK, HostStateAssumption
<1>2. WorkersOK
  BY DEF Init, WorkersOK
<1>3. MemoryOK
  BY OptEmpty DEF Init, MemoryOK, Places
<1>4. CommandsOK
  BY OptEmpty DEF Init, CommandsOK
<1>5. GhostsOK
  BY HostStateAssumption DEF Init, GhostsOK, HostStateAssumption
<1>6. StagesOK
  BY DEF Init, StagesOK, Holding, AboutHost, Interrupting
<1> QED
  BY <1>1, <1>2, <1>3, <1>4, <1>5, <1>6 DEF TypeInv, TypeOK

LEMMA StepType == TypeInv /\ [Next]_vars => TypeInv'
<1> SUFFICES ASSUME TypeInv, [Next]_vars PROVE TypeInv'
  OBVIOUS
<1> USE HostStateAssumption
<1>1. CASE PollAndPrune
  BY <1>1, StartType, PollType, PruneHostType, PruneEndsType, SavePrunedType,
     FileCompletedType, FileFailedType DEF PollAndPrune
<1>2. CASE Dispatch
  BY <1>2, DequeueForHostType, SkipHostType, DispatchEndsType DEF Dispatch
<1>3. CASE LaunchJob
  BY <1>3, StageNothingType, StagePayloadType, StageFailsType,
     StageMissingType, LaunchType, VerifyType, TrackType, RecordDeadType,
     RequeueBackType, BenchLoadType, BenchSaveType, RequeueFailedType,
     DeferJobType, FileStartFailureType DEF LaunchJob
<1>4. CASE Preempting
  BY <1>4, ChoosePreemptionType, ChooseNothingType, ClaimType,
     ClaimNothingType, KillVictimType, StandDownType, UntrackVictimType,
     RequeueVictimType DEF Preempting
<1>5. CASE OpsStep
  BY <1>5, SubmitType, QdelType, ClearType, EnableHostType, PopDeferredType,
     DropDeferredType, CommandDiesType, ReadRunningType, EnqueueMovingType,
     RequeueReadType, KillRequeuedType DEF OpsStep, CommandFinishes
<1>6. CASE WorkerStep
  BY <1>6, JobEndsType, RebootType DEF WorkerStep
<1>7. CASE \E h \in Hosts : CooldownExpires(h)
  BY <1>7, CooldownExpiresType
<1>8. CASE Stop \/ Crash
  BY <1>8, StopType, CrashType
<1>9. CASE UNCHANGED vars
  BY <1>9, Frames DEF vars, TypeInv, TypeOK
<1> QED
  BY <1>1, <1>2, <1>3, <1>4, <1>5, <1>6, <1>7, <1>8, <1>9 DEF Next, MonitorStep

LEMMA TypeInvariant == Spec => []TypeInv
<1>1. Init => TypeInv
  BY InitType
<1>2. TypeInv /\ [Next]_vars => TypeInv'
  BY StepType
<1> QED
  BY <1>1, <1>2, PTL DEF Spec

\* Every file, every worker and the monitor's memory always hold what the
\* code expects to find there, and a launch or a preemption always has the
\* item and the host it is about.
THEOREM TypeCorrect == Spec => []TypeOK
<1>1. TypeInv => TypeOK
  BY DEF TypeInv
<1> QED
  BY <1>1, TypeInvariant, PTL

-----------------------------------------------------------------------------
(* Cooldowns.  The monitor's copy is the whole of monitor_state.json or    *)
(* more: what it writes back when it benches a host loses no other, and    *)
(* what it dispatches by is no weaker than the file.                       *)

CooldownInv ==
    /\ mpc # "down" => cooldown \subseteq benched
    /\ mpc \in {"stage", "launch"} /\ how = "dispatch" => at \notin benched

LEMMA StepCooldown == CooldownInv /\ TypeInv /\ [Next]_vars => CooldownInv'
<1> SUFFICES ASSUME CooldownInv, TypeInv, [Next]_vars PROVE CooldownInv'
  OBVIOUS
<1> USE DEF CooldownInv, Goto, AfterLaunch, MemoryLost
<1>1. CASE PollAndPrune
  BY <1>1 DEF PollAndPrune, Start, Poll, PruneHost, PruneEnds, SavePruned,
              FileCompleted, FileFailed
<1>2. CASE Dispatch
  BY <1>2 DEF Dispatch, DequeueForHost, SkipHost, DispatchEnds
<1>3. CASE LaunchJob
  <2>1. CASE StageNothing \/ StagePayload \/ StageFails \/ StageMissing
    BY <2>1 DEF StageNothing, StagePayload, StageFails, StageMissing
  <2>2. CASE Launch \/ Verify \/ Track \/ RecordDead
    BY <2>2 DEF Launch, Verify, Track, RecordDead
  <2>3. CASE RequeueBack \/ BenchLoad \/ BenchSave
    BY <2>3 DEF RequeueBack, BenchLoad, BenchSave
  <2>4. CASE RequeueFailed \/ DeferJob \/ FileStartFailure
    BY <2>4 DEF RequeueFailed, DeferJob, FileStartFailure
  <2> QED
    BY <1>3, <2>1, <2>2, <2>3, <2>4 DEF LaunchJob
<1>4. CASE Preempting
  BY <1>4 DEF Preempting, ChoosePreemption, ChooseNothing, Claim,
              ClaimNothing, KillVictim, StandDown, UntrackVictim,
              RequeueVictim, TypeInv, StagesOK, Interrupting
<1>5. CASE OpsStep
  BY <1>5 DEF OpsStep, Submit, Qdel, Clear, EnableHost, PopDeferred,
              DropDeferred, CommandDies, ReadRunning, CommandFinishes,
              EnqueueMoving, RequeueRead, KillRequeued
<1>6. CASE WorkerStep
  BY <1>6 DEF WorkerStep, JobEnds, Reboot
<1>7. CASE \E h \in Hosts : CooldownExpires(h)
  BY <1>7 DEF CooldownExpires
<1>8. CASE Stop \/ Crash
  BY <1>8 DEF Stop, Crash
<1>9. CASE UNCHANGED vars
  BY <1>9 DEF vars
<1> QED
  BY <1>1, <1>2, <1>3, <1>4, <1>5, <1>6, <1>7, <1>8, <1>9 DEF Next, MonitorStep

LEMMA CooldownInvariant == Spec => [](TypeInv /\ CooldownInv)
<1>1. Init => CooldownInv
  BY DEF Init, CooldownInv
<1>2. CooldownInv /\ TypeInv /\ [Next]_vars => CooldownInv'
  BY StepCooldown
<1> QED
  BY <1>1, <1>2, TypeInvariant, PTL DEF Spec

\* Benching one host rewrites monitor_state.json from what was read without
\* the lock (_disable_host_and_alert), yet never ends the cooldown of another.
THEOREM CooldownsKept == Spec => MonitorKeepsCooldowns
<1>1. CooldownInv /\ [Next]_vars
        => [cooldown \subseteq cooldown' \/ mpc' = mpc]_vars
  <2> SUFFICES ASSUME CooldownInv, Next
               PROVE  cooldown \subseteq cooldown' \/ mpc' = mpc
    OBVIOUS
  <2>1. CASE PollAndPrune
    BY <2>1 DEF PollAndPrune, Start, Poll, PruneHost, PruneEnds, SavePruned,
                FileCompleted, FileFailed
  <2>2. CASE Dispatch
    BY <2>2 DEF Dispatch, DequeueForHost, SkipHost, DispatchEnds
  <2>3. CASE LaunchJob
    <3>1. CASE BenchSave
      BY <3>1 DEF BenchSave, CooldownInv
    <3>2. CASE StageNothing \/ StagePayload \/ StageFails \/ StageMissing
      BY <3>2 DEF StageNothing, StagePayload, StageFails, StageMissing
    <3>3. CASE Launch \/ Verify \/ Track \/ RecordDead
      BY <3>3 DEF Launch, Verify, Track, RecordDead
    <3>4. CASE RequeueBack \/ BenchLoad \/ RequeueFailed \/ DeferJob
                 \/ FileStartFailure
      BY <3>4 DEF RequeueBack, BenchLoad, RequeueFailed, DeferJob,
                  FileStartFailure
    <3> QED
      BY <2>3, <3>1, <3>2, <3>3, <3>4 DEF LaunchJob
  <2>4. CASE Preempting
    BY <2>4 DEF Preempting, ChoosePreemption, ChooseNothing, Claim,
                ClaimNothing, KillVictim, StandDown, UntrackVictim,
                RequeueVictim
  <2>5. CASE OpsStep
    BY <2>5 DEF OpsStep, Submit, Qdel, Clear, EnableHost, PopDeferred,
                DropDeferred, CommandDies, ReadRunning, CommandFinishes,
                EnqueueMoving, RequeueRead, KillRequeued
  <2>6. CASE WorkerStep
    BY <2>6 DEF WorkerStep, JobEnds, Reboot
  <2>7. CASE \E h \in Hosts : CooldownExpires(h)
    BY <2>7 DEF CooldownExpires
  <2>8. CASE Stop \/ Crash
    BY <2>8 DEF Stop, Crash
  <2> QED
    BY <2>1, <2>2, <2>3, <2>4, <2>5, <2>6, <2>7, <2>8 DEF Next, MonitorStep
<1> QED
  BY <1>1, CooldownInvariant, PTL DEF Spec, MonitorKeepsCooldowns

\* Only a launch starts a process, of the job in hand on the host it is about.
LEMMA OnlyLaunchBegins ==
    ASSUME TypeInv, Next, NEW h \in Hosts, NEW j \in Jobs, Begins(h, j)
    PROVE  Launch /\ h = at
<1> USE DEF Begins
<1>1. CASE PollAndPrune
  BY <1>1 DEF PollAndPrune, Start, Poll, PruneHost, PruneEnds, SavePruned,
              FileCompleted, FileFailed
<1>2. CASE Dispatch
  BY <1>2 DEF Dispatch, DequeueForHost, SkipHost, DispatchEnds
<1>3. CASE LaunchJob
  <2>1. CASE StageNothing \/ StagePayload \/ StageFails \/ StageMissing
    BY <2>1 DEF StageNothing, StagePayload, StageFails, StageMissing
  <2>2. CASE Launch
    <3>1. at \in Hosts
      BY <2>2 DEF Launch, TypeInv, StagesOK, AboutHost, Holding
    <3> QED
      BY <2>2, <3>1 DEF Launch, ScriptRuns, TypeInv, TypeOK, WorkersOK
  <2>3. CASE Verify \/ Track \/ RecordDead \/ RequeueBack \/ BenchLoad
               \/ BenchSave
    BY <2>3 DEF Verify, Track, RecordDead, RequeueBack, BenchLoad, BenchSave
  <2>4. CASE RequeueFailed \/ DeferJob \/ FileStartFailure
    BY <2>4 DEF RequeueFailed, DeferJob, FileStartFailure
  <2> QED
    BY <1>3, <2>1, <2>2, <2>3, <2>4 DEF LaunchJob
<1>4. CASE Preempting
  <2>1. CASE KillVictim
    BY <2>1 DEF KillVictim, Killed, TypeInv, TypeOK, WorkersOK
  <2>2. CASE ChoosePreemption \/ ChooseNothing \/ Claim \/ ClaimNothing
               \/ StandDown \/ UntrackVictim \/ RequeueVictim
    BY <2>2 DEF ChoosePreemption, ChooseNothing, Claim, ClaimNothing,
                StandDown, UntrackVictim, RequeueVictim
  <2> QED
    BY <1>4, <2>1, <2>2 DEF Preempting
<1>5. CASE OpsStep
  <2>1. CASE KillRequeued
    BY <2>1 DEF KillRequeued, Killed, TypeInv, TypeOK, WorkersOK
  <2>2. CASE ~KillRequeued
    BY <1>5, <2>2 DEF OpsStep, Submit, Qdel, Clear, EnableHost, PopDeferred,
                DropDeferred, CommandDies, ReadRunning, CommandFinishes,
                EnqueueMoving, RequeueRead
  <2> QED
    BY <2>1, <2>2
<1>6. CASE WorkerStep
  <2>1. CASE \E g \in Hosts, k \in Jobs : JobEnds(g, k)
    BY <2>1 DEF JobEnds, TypeInv, TypeOK, WorkersOK
  <2>2. CASE \E g \in Hosts : Reboot(g)
    BY <2>2 DEF Reboot, TypeInv, TypeOK, WorkersOK
  <2> QED
    BY <1>6, <2>1, <2>2 DEF WorkerStep
<1>7. CASE \E g \in Hosts : CooldownExpires(g)
  BY <1>7 DEF CooldownExpires
<1>8. CASE Stop \/ Crash
  BY <1>8 DEF Stop, Crash
<1> QED
  BY <1>1, <1>2, <1>3, <1>4, <1>5, <1>6, <1>7, <1>8 DEF Next, MonitorStep

\* A host in cooldown is given no work by dispatch, although an operator, a
\* clock and the monitor itself change the cooldowns while a cycle runs on
\* what it read at its start (monitor_loop, _disable_host_and_alert).
THEOREM BenchedHostsIdle == Spec => BenchedHostsGetNothing
<1>1. TypeInv /\ CooldownInv /\ [Next]_vars
        => [\A h \in cooldown, j \in Jobs :
                Begins(h, j) => how = "preempt"]_vars
  <2> SUFFICES ASSUME TypeInv, CooldownInv, Next,
                      NEW h \in cooldown, NEW j \in Jobs, Begins(h, j)
               PROVE  how = "preempt"
    OBVIOUS
  <2>1. h \in Hosts
    BY DEF TypeInv, TypeOK, FilesOK
  <2>2. Launch /\ h = at
    BY <2>1, OnlyLaunchBegins
  <2>3. how \in {"dispatch", "preempt"}
    BY DEF TypeInv, TypeOK, MemoryOK
  <2> QED
    BY <2>2, <2>3 DEF Launch, CooldownInv
<1> QED
  BY <1>1, CooldownInvariant, PTL DEF Spec, BenchedHostsGetNothing

-----------------------------------------------------------------------------
(* running.json and the monitor's memory.                                  *)

\* Finished jobs are in memory only, and only from the poll that found them
\* until they are filed.
DiskInv ==
    /\ DiskFollowsMemory
    /\ mpc = "prune" /\ done = <<>> /\ bad = <<>> => running = tracked
    /\ mpc \notin {"prune", "save", "file_completed", "file_failed"}
          => done = <<>> /\ bad = <<>>
    /\ mpc = "file_failed" => done = <<>>

LEMMA StepDisk == DiskInv /\ TypeInv /\ [Next]_vars => DiskInv'
<1> SUFFICES ASSUME DiskInv, TypeInv, [Next]_vars PROVE DiskInv'
  OBVIOUS
<1> USE DEF DiskInv, DiskFollowsMemory, Goto, AfterLaunch, MemoryLost
<1>1. CASE PollAndPrune
  <2>1. CASE Start \/ PruneEnds \/ SavePruned
    BY <2>1 DEF Start, PruneEnds, SavePruned
  <2>2. CASE Poll
    <3>1. \A h \in Hosts : running[h] = tracked[h]
      BY <2>2 DEF Poll
    <3>2. running = tracked
      BY <3>1 DEF TypeInv, TypeOK, FilesOK, MemoryOK
    <3> QED
      BY <2>2, <3>2 DEF Poll
  <2>3. ASSUME NEW h \in Hosts, PruneHost(h) PROVE DiskInv'
    <3>1. PICK r \in Record : Collect(r)
      BY <2>3 DEF PruneHost
    <3>2. ~(done' = <<>> /\ bad' = <<>>)
      BY <3>1, AppendType DEF Collect, TypeInv, TypeOK, MemoryOK
    <3>3. mpc = "prune" /\ mpc' = "prune" /\ running' = running
      BY <2>3 DEF PruneHost
    <3>4. \A g \in Hosts : tracked'[g] = tracked[g] \/ tracked'[g] = <<>>
      BY <2>3 DEF PruneHost, TypeInv, TypeOK, MemoryOK
    <3> QED
      BY <3>2, <3>3, <3>4
  <2>4. CASE FileCompleted \/ FileFailed
    BY <2>4 DEF FileCompleted, FileFailed
  <2> QED
    BY <1>1, <2>1, <2>2, <2>3, <2>4 DEF PollAndPrune
<1>2. CASE Dispatch
  BY <1>2 DEF Dispatch, DequeueForHost, SkipHost, DispatchEnds
<1>3. CASE LaunchJob
  <2>1. CASE StageNothing \/ StagePayload \/ StageFails \/ StageMissing
    BY <2>1 DEF StageNothing, StagePayload, StageFails, StageMissing
  <2>2. CASE Launch \/ Verify \/ Track \/ RecordDead
    BY <2>2 DEF Launch, Verify, Track, RecordDead
  <2>3. CASE RequeueBack \/ BenchLoad \/ BenchSave
    BY <2>3 DEF RequeueBack, BenchLoad, BenchSave
  <2>4. CASE RequeueFailed \/ DeferJob \/ FileStartFailure
    BY <2>4 DEF RequeueFailed, DeferJob, FileStartFailure
  <2> QED
    BY <1>3, <2>1, <2>2, <2>3, <2>4 DEF LaunchJob
<1>4. CASE Preempting
  BY <1>4 DEF Preempting, ChoosePreemption, ChooseNothing, Claim,
              ClaimNothing, KillVictim, StandDown, UntrackVictim, RequeueVictim
<1>5. CASE OpsStep
  <2>1. UNCHANGED <<mpc, running, tracked, done, bad>>
    BY <1>5 DEF OpsStep, Submit, Qdel, Clear, EnableHost, PopDeferred,
                DropDeferred, CommandDies, ReadRunning, CommandFinishes,
                EnqueueMoving, RequeueRead, KillRequeued
  <2> QED
    BY <2>1
<1>6. CASE WorkerStep
  BY <1>6 DEF WorkerStep, JobEnds, Reboot
<1>7. CASE \E h \in Hosts : CooldownExpires(h)
  BY <1>7 DEF CooldownExpires
<1>8. CASE Stop \/ Crash
  BY <1>8 DEF Stop, Crash
<1>9. CASE UNCHANGED vars
  BY <1>9 DEF vars
<1> QED
  BY <1>1, <1>2, <1>3, <1>4, <1>5, <1>6, <1>7, <1>8, <1>9 DEF Next, MonitorStep

\* running.json is what the monitor tracks, but for finished jobs it is about
\* to file: whenever it dies, a restart recovers every job that is running.
THEOREM RestartRecovers == Spec => []DiskFollowsMemory
<1>1. Init => DiskInv
  BY DEF Init, DiskInv, DiskFollowsMemory
<1>2. DiskInv /\ TypeInv /\ [Next]_vars => DiskInv'
  BY StepDisk
<1>3. DiskInv => DiskFollowsMemory
  BY DEF DiskInv
<1> QED
  BY <1>1, <1>2, <1>3, TypeInvariant, PTL DEF Spec

-----------------------------------------------------------------------------
(* No accepted job is ever lost.  Every move of a job is a write to one    *)
(* file or the monitor's memory; the proof shows for each step that no job *)
(* leaves every place.                                                     *)

-----------------------------------------------------------------------------
(* The jobs of a list, as the list changes.                                *)

LEMMA JobsInOne == ASSUME NEW x PROVE JobsIn(<<x>>) = {x.job}
BY DEF JobsIn

LEMMA JobsInNone == JobsIn(<<>>) = {}
BY DEF JobsIn

LEMMA JobsInAppend ==
    ASSUME NEW S, NEW s \in Seq(S), NEW x \in S
    PROVE  JobsIn(Append(s, x)) = JobsIn(s) \cup {x.job}
<1> DEFINE r == Append(s, x)
<1>1. /\ DOMAIN r = 1..(Len(s) + 1) /\ DOMAIN s = 1..Len(s) /\ Len(s) \in Nat
      /\ r[Len(s) + 1] = x
      /\ \A i \in DOMAIN s : r[i] = s[i]
  OBVIOUS
<1>2. JobsIn(r) \subseteq JobsIn(s) \cup {x.job}
  BY <1>1 DEF JobsIn
<1>3. JobsIn(s) \cup {x.job} \subseteq JobsIn(r)
  BY <1>1 DEF JobsIn
<1> QED
  BY <1>2, <1>3

LEMMA ConcatAt ==
    ASSUME NEW S, NEW s \in Seq(S), NEW r \in Seq(S)
    PROVE  /\ s \o r \in Seq(S) /\ Len(s \o r) = Len(s) + Len(r)
           /\ \A i \in 1..Len(s) : (s \o r)[i] = s[i]
           /\ \A i \in 1..Len(r) : (s \o r)[Len(s) + i] = r[i]
OBVIOUS

LEMMA JobsInConcat ==
    ASSUME NEW S, NEW s \in Seq(S), NEW r \in Seq(S)
    PROVE  /\ JobsIn(s \o r) = JobsIn(s) \cup JobsIn(r)
           /\ EndedIn(s \o r) = EndedIn(s) \cup EndedIn(r)
<1> DEFINE c == s \o r
<1>1. /\ DOMAIN c = 1..(Len(s) + Len(r)) /\ Len(s) \in Nat /\ Len(r) \in Nat
      /\ DOMAIN s = 1..Len(s) /\ DOMAIN r = 1..Len(r)
      /\ \A i \in DOMAIN s : c[i] = s[i]
      /\ \A i \in DOMAIN r : c[Len(s) + i] = r[i]
  OBVIOUS
<1>2. \A i \in DOMAIN c : \/ i \in DOMAIN s /\ c[i] = s[i]
                          \/ i - Len(s) \in DOMAIN r /\ c[i] = r[i - Len(s)]
  BY <1>1
<1>3. \A i \in DOMAIN r : Len(s) + i \in DOMAIN c
  BY <1>1
<1>4. \A i \in DOMAIN s : i \in DOMAIN c
  BY <1>1
<1> HIDE DEF c
<1>5. JobsIn(c) = JobsIn(s) \cup JobsIn(r)
  BY <1>1, <1>2, <1>3, <1>4 DEF JobsIn
<1>6. EndedIn(c) = EndedIn(s) \cup EndedIn(r)
  BY <1>1, <1>2, <1>3, <1>4 DEF EndedIn
<1> QED
  BY <1>5, <1>6 DEF c

LEMMA JobsInCons ==
    ASSUME NEW S, NEW s \in Seq(S), NEW x \in S
    PROVE  JobsIn(Cons(x, s)) = {x.job} \cup JobsIn(s)
<1> DEFINE one == <<x>>
<1>1. one \in Seq(S)
  OBVIOUS
<1>2. JobsIn(one) = {x.job}
  BY JobsInOne
<1>3. Cons(x, s) = one \o s
  BY DEF Cons
<1> HIDE DEF one
<1>4. JobsIn(one \o s) = JobsIn(one) \cup JobsIn(s)
  BY <1>1, JobsInConcat
<1> QED
  BY <1>2, <1>3, <1>4

\* Taking one element out loses its job at most.
LEMMA JobsInRemoveAt ==
    ASSUME NEW S, NEW s \in Seq(S), NEW i \in DOMAIN s
    PROVE  JobsIn(s) \subseteq JobsIn(RemoveAt(s, i)) \cup {s[i].job}
<1> DEFINE r == RemoveAt(s, i)
<1>1. i \in 1..Len(s) /\ Len(s) \in Nat
  OBVIOUS
<1>2. /\ DOMAIN r = 1..(Len(s) - 1)
      /\ \A k \in 1..(i - 1) : r[k] = s[k]
      /\ \A k \in (i + 1)..Len(s) : r[k - 1] = s[k]
  <2> DEFINE before == SubSeq(s, 1, i - 1)
             after == SubSeq(s, i + 1, Len(s))
  <2>1. /\ Len(before) = i - 1 /\ before \in Seq(S)
        /\ \A k \in 1..(i - 1) : before[k] = s[k]
    BY <1>1
  <2>2. /\ Len(after) = Len(s) - i /\ after \in Seq(S)
        /\ \A k \in 1..(Len(s) - i) : after[k] = s[i + k]
    BY <1>1
  <2> HIDE DEF before, after
  <2>3. /\ Len(before \o after) = Len(s) - 1
        /\ \A k \in 1..(i - 1) : (before \o after)[k] = before[k]
        /\ \A k \in 1..(Len(s) - i) : (before \o after)[i - 1 + k] = after[k]
    <3>0. before \in Seq(S) /\ after \in Seq(S)
      BY <2>1, <2>2
    <3>1. /\ Len(before \o after) = Len(before) + Len(after)
          /\ \A k \in 1..Len(before) : (before \o after)[k] = before[k]
          /\ \A k \in 1..Len(after) :
               (before \o after)[Len(before) + k] = after[k]
      BY <3>0, ConcatAt
    <3>2. (i - 1) + (Len(s) - i) = Len(s) - 1
      BY <1>1
    <3> QED
      BY <2>1, <2>2, <3>1, <3>2
  <2>4. \A k \in (i + 1)..Len(s) :
          (before \o after)[k - 1] = after[k - i] /\ after[k - i] = s[k]
    <3> SUFFICES ASSUME NEW k \in (i + 1)..Len(s)
                 PROVE  /\ (before \o after)[k - 1] = after[k - i]
                        /\ after[k - i] = s[k]
      OBVIOUS
    <3>1. /\ k - i \in 1..(Len(s) - i)
          /\ i - 1 + (k - i) = k - 1 /\ i + (k - i) = k
      BY <1>1
    <3> QED
      BY <2>2, <2>3, <3>1
  <2>5. r = before \o after
    BY DEF before, after, RemoveAt
  <2>6. DOMAIN (before \o after) = 1..(Len(s) - 1)
    BY <2>1, <2>2, <2>3
  <2> QED
    BY <2>1, <2>3, <2>4, <2>5, <2>6
<1>3. ASSUME NEW k \in DOMAIN s, k # i PROVE s[k].job \in JobsIn(r)
  <2>1. CASE k < i
    <3>1. k \in DOMAIN r /\ r[k] = s[k]
      BY <1>1, <1>2, <2>1
    <3> QED
      BY <3>1 DEF JobsIn
  <2>2. CASE k > i
    <3>1. k - 1 \in DOMAIN r /\ r[k - 1] = s[k]
      BY <1>1, <1>2, <2>2
    <3> QED
      BY <3>1 DEF JobsIn
  <2> QED
    BY <1>1, <1>3, <2>1, <2>2
<1> QED
  BY <1>3 DEF JobsIn

\* Keeping keeps the job of every position it is given.
LEMMA JobsInKeeping ==
    ASSUME NEW S, NEW s \in Seq(S), NEW I \in SUBSET DOMAIN s,
           NEW r \in Keeping(s, I)
    PROVE  {s[i].job : i \in I} \subseteq JobsIn(r)
<1>1. IsFiniteSet(DOMAIN s)
  BY FS_Interval, DOMAIN s = 1..Len(s), Len(s) \in Int
<1>2. IsFiniteSet(I)
  BY <1>1, FS_Subset
<1> DEFINE n == Cardinality(I)
<1>3. n \in Nat
  BY <1>2, FS_CardinalityType
<1>4. PICK f \in [1..n -> I] : /\ r = [k \in DOMAIN f |-> s[f[k]]]
                               /\ \A a, b \in DOMAIN f : a < b => f[a] < f[b]
  BY DEF Keeping
<1>5. \A k \in 1..n : f[k] \in Nat
  BY <1>4
<1>6. f \in Injection(1..n, I)
  <2>1. \A a, b \in 1..n : a # b => f[a] # f[b]
    BY <1>3, <1>4, <1>5
  <2> QED
    BY <1>4, <2>1 DEF Injection, IsInjective
<1>7. IsFiniteSet(1..n) /\ Cardinality(1..n) = n
  BY <1>3, FS_Interval
<1>8. f \in Surjection(1..n, I)
  BY <1>2, <1>6, <1>7, FS_Injection
<1>9. ASSUME NEW i \in I PROVE s[i].job \in JobsIn(r)
  <2>1. PICK k \in 1..n : f[k] = i
    BY <1>8 DEF Surjection
  <2>2. k \in DOMAIN r /\ r[k] = s[i]
    BY <1>4, <2>1
  <2> QED
    BY <2>2 DEF JobsIn
<1> QED
  BY <1>9

\* Of a failed start the job is recorded but not over; no other record is so.
LEMMA JobsEnded ==
    ASSUME NEW s, \A i \in DOMAIN s : s[i].status # "start_failed"
    PROVE  EndedIn(s) = JobsIn(s)
BY DEF EndedIn, JobsIn

\* A job appended to the failures is recorded or counted as evicted.
LEMMA FailedKept ==
    ASSUME failed \in Seq(Record), NEW r \in Seq(Record), FailedGrowsBy(r)
    PROVE  EndedIn(failed) \cup EndedIn(r) \cup evicted
             \subseteq EndedIn(failed') \cup evicted'
<1>1. EndedIn(failed \o r) = EndedIn(failed) \cup EndedIn(r)
  BY JobsInConcat
<1> QED
  BY <1>1 DEF FailedGrowsBy

-----------------------------------------------------------------------------
(* Where a job may be, and what the monitor's hands hold at each place.    *)

Where == OnDisk \cup InMemory \cup JobsIn(moving)
           \cup withdrawn \cup dropped \cup evicted

\* The hands are full only between taking an item and putting it down; a
\* host that work is given to has none, so what it tracks is not overwritten.
HandsInv ==
    /\ mpc \notin Holding => hand = <<>>
    /\ mpc # "resume" => held = <<>>
    /\ \A h \in todo : view[h] = "idle"
    /\ mpc \notin {"down", "top", "prune"} => \A h \in todo : tracked[h] = <<>>
    /\ mpc \in AboutHost => at \notin todo
    /\ mpc \in {"stage", "launch", "verify", "track", "resume"}
          => tracked[at] = <<>>

\* What left running_jobs and is still in running.json is about to be filed.
RecordsInv ==
    /\ \A i \in DOMAIN done : done[i].status # "start_failed"
    /\ \A i \in DOMAIN bad : bad[i].status # "start_failed"
    /\ mpc \in {"prune", "save"} =>
          OnHosts(running) \subseteq OnHosts(tracked) \cup JobsIn(done)
                                       \cup JobsIn(bad)

LEMMA StepHands == HandsInv /\ TypeInv /\ [Next]_vars => HandsInv'
<1> SUFFICES ASSUME HandsInv, TypeInv, [Next]_vars PROVE HandsInv'
  OBVIOUS
<1> USE DEF HandsInv, Goto, AfterLaunch, MemoryLost, Holding, AboutHost
<1>1. CASE PollAndPrune
  <2>1. CASE Start \/ Poll \/ PruneEnds
    BY <2>1 DEF Start, Poll, PruneEnds, TypeInv, TypeOK, MemoryOK
  <2>2. CASE \E h \in Hosts : PruneHost(h)
    BY <2>2 DEF PruneHost, TypeInv, TypeOK, MemoryOK
  <2>3. CASE SavePruned \/ FileCompleted \/ FileFailed
    BY <2>3 DEF SavePruned, FileCompleted, FileFailed
  <2> QED
    BY <1>1, <2>1, <2>2, <2>3 DEF PollAndPrune
<1>2. CASE Dispatch
  BY <1>2 DEF Dispatch, DequeueForHost, NextHost, SkipHost, DispatchEnds
<1>3. CASE LaunchJob
  <2>1. CASE StageNothing \/ StagePayload \/ StageFails \/ StageMissing
    BY <2>1 DEF StageNothing, StagePayload, StageFails, StageMissing
  <2>2. CASE Launch \/ Verify
    BY <2>2 DEF Launch, Verify
  <2>3. CASE Track
    BY <2>3 DEF Track, TypeInv, TypeOK, MemoryOK
  <2>4. CASE RecordDead \/ RequeueBack \/ BenchLoad \/ BenchSave
    BY <2>4 DEF RecordDead, RequeueBack, BenchLoad, BenchSave
  <2>5. CASE RequeueFailed \/ DeferJob \/ FileStartFailure
    BY <2>5 DEF RequeueFailed, DeferJob, FileStartFailure
  <2> QED
    BY <1>3, <2>1, <2>2, <2>3, <2>4, <2>5 DEF LaunchJob
<1>4. CASE Preempting
  <2>1. CASE ChoosePreemption
    <3>1. view[at'] = "busy"
      BY <2>1 DEF ChoosePreemption, Weakest, Victims
    <3> QED
      BY <2>1, <3>1 DEF ChoosePreemption
  <2>2. CASE ChooseNothing \/ Claim \/ ClaimNothing \/ KillVictim \/ StandDown
    BY <2>2 DEF ChooseNothing, Claim, ClaimNothing, KillVictim, StandDown
  <2>3. CASE UntrackVictim \/ RequeueVictim
    BY <2>3 DEF UntrackVictim, RequeueVictim, TypeInv, TypeOK, MemoryOK,
                StagesOK
  <2> QED
    BY <1>4, <2>1, <2>2, <2>3 DEF Preempting
<1>5. CASE OpsStep
  <2>1. UNCHANGED <<mpc, hand, held, todo, view, tracked, at>>
    BY <1>5 DEF OpsStep, Submit, Qdel, Clear, EnableHost, PopDeferred,
                DropDeferred, CommandDies, ReadRunning, CommandFinishes,
                EnqueueMoving, RequeueRead, KillRequeued
  <2> QED
    BY <2>1
<1>6. CASE WorkerStep
  BY <1>6 DEF WorkerStep, JobEnds, Reboot
<1>7. CASE \E h \in Hosts : CooldownExpires(h)
  BY <1>7 DEF CooldownExpires
<1>8. CASE Stop \/ Crash
  BY <1>8 DEF Stop, Crash
<1>9. CASE UNCHANGED vars
  BY <1>9 DEF vars
<1> QED
  BY <1>1, <1>2, <1>3, <1>4, <1>5, <1>6, <1>7, <1>8, <1>9 DEF Next, MonitorStep

\* What is fetched for a job is a record of its end.
LEMMA FetchedIs ==
    ASSUME NEW r, NEW h, NEW j, NEW tracks, Fetched(r, h, j, tracks)
    PROVE  r.status # "start_failed" /\ r.job = j
<1>1. CASE r = RecordWithout(j, tracks)
  BY <1>1 DEF RecordWithout
<1>2. CASE r \in {RecordOf(h, e) : e \in Statuses(h, j)}
  <2>1. PICK e \in Statuses(h, j) : r = RecordOf(h, e)
    BY <1>2
  <2> QED
    BY <2>1 DEF RecordOf, Statuses
<1> QED
  BY <1>1, <1>2 DEF Fetched

LEMMA StepRecords ==
    RecordsInv /\ DiskInv /\ TypeInv /\ [Next]_vars => RecordsInv'
<1> SUFFICES ASSUME RecordsInv, DiskInv, TypeInv, [Next]_vars
             PROVE  RecordsInv'
  OBVIOUS
<1> USE DEF RecordsInv, Goto, AfterLaunch, MemoryLost
<1>1. CASE PollAndPrune
  <2>1. CASE Start \/ PruneEnds
    BY <2>1 DEF Start, PruneEnds
  <2>2. CASE Poll
    BY <2>2 DEF Poll, DiskInv, DiskFollowsMemory, OnHosts
  <2>3. ASSUME NEW h \in Hosts, PruneHost(h) PROVE RecordsInv'
    <3>1. PICK r \in Record : /\ Fetched(r, h, tracked[h][1].job, h \in wrapped)
                              /\ Collect(r)
      BY <2>3 DEF PruneHost
    <3>2. r.status # "start_failed" /\ r.job = tracked[h][1].job
      BY <3>1, FetchedIs
    <3>3. done \in Seq(Record) /\ bad \in Seq(Record)
      BY DEF TypeInv, TypeOK, MemoryOK
    <3>4. /\ \A i \in DOMAIN done' : done'[i].status # "start_failed"
          /\ \A i \in DOMAIN bad' : bad'[i].status # "start_failed"
      <4>1. \A s \in Seq(Record) :
              \A i \in DOMAIN Append(s, r) :
                 \/ Append(s, r)[i] = r
                 \/ i \in DOMAIN s /\ Append(s, r)[i] = s[i]
        OBVIOUS
      <4> QED
        BY <3>1, <3>2, <3>3, <4>1 DEF Collect
    <3>5. JobsIn(done') \cup JobsIn(bad')
            = JobsIn(done) \cup JobsIn(bad) \cup {tracked[h][1].job}
      BY <3>1, <3>2, <3>3, JobsInAppend DEF Collect
    <3>6. OnHosts(tracked) \subseteq OnHosts(tracked') \cup {tracked[h][1].job}
      <4>1. tracked[h] \in Opt(Item)
        BY DEF TypeInv, TypeOK, MemoryOK
      <4>2. JobsIn(tracked[h]) \subseteq {tracked[h][1].job}
        BY <4>1 DEF Opt, JobsIn
      <4>3. \A g \in Hosts : g # h => tracked'[g] = tracked[g]
        BY <2>3 DEF PruneHost, TypeInv, TypeOK, MemoryOK
      <4> QED
        BY <4>2, <4>3 DEF OnHosts
    <3> QED
      BY <2>3, <3>4, <3>5, <3>6 DEF PruneHost
  <2>4. CASE SavePruned \/ FileCompleted \/ FileFailed
    BY <2>4 DEF SavePruned, FileCompleted, FileFailed
  <2> QED
    BY <1>1, <2>1, <2>2, <2>3, <2>4 DEF PollAndPrune
<1>2. CASE Dispatch
  BY <1>2 DEF Dispatch, DequeueForHost, SkipHost, DispatchEnds
<1>3. CASE LaunchJob
  <2>1. CASE StageNothing \/ StagePayload \/ StageFails \/ StageMissing
    BY <2>1 DEF StageNothing, StagePayload, StageFails, StageMissing
  <2>2. CASE Launch \/ Verify \/ Track \/ RecordDead
    BY <2>2 DEF Launch, Verify, Track, RecordDead
  <2>3. CASE RequeueBack \/ BenchLoad \/ BenchSave
    BY <2>3 DEF RequeueBack, BenchLoad, BenchSave
  <2>4. CASE RequeueFailed \/ DeferJob \/ FileStartFailure
    BY <2>4 DEF RequeueFailed, DeferJob, FileStartFailure
  <2> QED
    BY <1>3, <2>1, <2>2, <2>3, <2>4 DEF LaunchJob
<1>4. CASE Preempting
  BY <1>4 DEF Preempting, ChoosePreemption, ChooseNothing, Claim,
              ClaimNothing, KillVictim, StandDown, UntrackVictim, RequeueVictim
<1>5. CASE OpsStep
  BY <1>5 DEF OpsStep, Submit, Qdel, Clear, EnableHost, PopDeferred,
              DropDeferred, CommandDies, ReadRunning, CommandFinishes,
              EnqueueMoving, RequeueRead, KillRequeued
<1>6. CASE WorkerStep
  BY <1>6 DEF WorkerStep, JobEnds, Reboot
<1>7. CASE \E h \in Hosts : CooldownExpires(h)
  BY <1>7 DEF CooldownExpires
<1>8. CASE Stop \/ Crash
  BY <1>8 DEF Stop, Crash
<1>9. CASE UNCHANGED vars
  BY <1>9 DEF vars
<1> QED
  BY <1>1, <1>2, <1>3, <1>4, <1>5, <1>6, <1>7, <1>8, <1>9 DEF Next, MonitorStep

LEMMA EndedInAppend ==
    ASSUME NEW s \in Seq(Record), NEW r \in Record, r.status # "start_failed"
    PROVE  EndedIn(Append(s, r)) = EndedIn(s) \cup {r.job}
<1> DEFINE t == Append(s, r)
<1>1. /\ DOMAIN t = 1..(Len(s) + 1) /\ DOMAIN s = 1..Len(s) /\ Len(s) \in Nat
      /\ t[Len(s) + 1] = r
      /\ \A i \in DOMAIN s : t[i] = s[i]
  OBVIOUS
<1> HIDE DEF t
<1>2. EndedIn(t) = EndedIn(s) \cup {r.job}
  BY <1>1 DEF EndedIn
<1> QED
  BY <1>2 DEF t

LEMMA JobsInTail ==
    ASSUME NEW s \in Seq(Item), s # <<>>
    PROVE  /\ Head(s) \in Item
           /\ JobsIn(s) \subseteq {Head(s).job} \cup JobsIn(Tail(s))
<1>1. /\ Len(s) \in Nat \ {0} /\ DOMAIN s = 1..Len(s) /\ Head(s) = s[1]
      /\ Tail(s) \in Seq(Item) /\ Len(Tail(s)) = Len(s) - 1
      /\ \A i \in 1..(Len(s) - 1) : Tail(s)[i] = s[i + 1]
  OBVIOUS
<1>2. ASSUME NEW i \in DOMAIN s, i # 1 PROVE s[i].job \in JobsIn(Tail(s))
  <2>1. i - 1 \in 1..(Len(s) - 1) /\ (i - 1) + 1 = i
    BY <1>1, <1>2
  <2>2. i - 1 \in DOMAIN Tail(s) /\ Tail(s)[i - 1] = s[i]
    BY <1>1, <2>1
  <2> QED
    BY <2>2 DEF JobsIn
<1> QED
  BY <1>1, <1>2 DEF JobsIn

LEMMA OptJobs ==
    ASSUME NEW s \in Opt(Item)
    PROVE  JobsIn(s) \subseteq {s[1].job} /\ (s = <<>> => JobsIn(s) = {})
BY DEF Opt, JobsIn

-----------------------------------------------------------------------------
(* No step takes a job out of every place.                                 *)

LEMMA PollKeeps ==
    ASSUME TypeInv, DiskInv, HandsInv, RecordsInv, PollAndPrune
    PROVE  Where \subseteq Where'
<1> USE DEF Where, OnDisk, InMemory, InHand, Goto
<1>1. /\ completed \in Seq(Record) /\ failed \in Seq(Record)
      /\ done \in Seq(Record) /\ bad \in Seq(Record)
  BY DEF TypeInv, TypeOK, FilesOK, MemoryOK
<1>2. CASE Start \/ Poll \/ PruneEnds
  BY <1>2 DEF Start, Poll, PruneEnds
<1>3. ASSUME NEW h \in Hosts, PruneHost(h) PROVE Where \subseteq Where'
  <2>1. PICK r \in Record : Collect(r)
    BY <1>3 DEF PruneHost
  <2>2. /\ JobsIn(done) \subseteq JobsIn(done')
        /\ JobsIn(bad) \subseteq JobsIn(bad')
    BY <1>1, <2>1, JobsInAppend DEF Collect
  <2> QED
    BY <1>3, <2>2 DEF PruneHost
<1>4. CASE SavePruned
  BY <1>4 DEF SavePruned, RecordsInv
<1>5. CASE FileCompleted
  <2>1. EndedIn(completed \o done) = EndedIn(completed) \cup EndedIn(done)
    BY <1>1, JobsInConcat
  <2>2. EndedIn(done) = JobsIn(done)
    BY JobsEnded DEF RecordsInv
  <2> QED
    BY <1>5, <2>1, <2>2 DEF FileCompleted
<1>6. CASE FileFailed
  <2>1. EndedIn(bad) = JobsIn(bad)
    BY JobsEnded DEF RecordsInv
  <2>2. EndedIn(failed) \cup JobsIn(bad) \cup evicted
          \subseteq EndedIn(failed') \cup evicted'
    BY <1>1, <1>6, <2>1, FailedKept DEF FileFailed
  <2> QED
    BY <1>6, <2>2 DEF FileFailed
<1> QED
  BY <1>2, <1>3, <1>4, <1>5, <1>6 DEF PollAndPrune

LEMMA TakingKeeps ==
    ASSUME TypeInv, HandsInv, mpc \notin Holding, mpc' \in Holding \ {"defer"},
           NEW i \in DOMAIN queue,
           hand' = <<queue[i]>>, queue' = RemoveAt(queue, i)
    PROVE  JobsIn(queue) \cup JobsIn(InHand)
             \subseteq JobsIn(queue') \cup JobsIn(InHand')
<1>1. queue \in Seq(Item)
  BY DEF TypeInv, TypeOK, FilesOK
<1>2. JobsIn(queue) \subseteq JobsIn(queue') \cup {queue[i].job}
  BY <1>1, JobsInRemoveAt
<1>3. InHand' = <<queue[i]>>
  BY DEF InHand
<1>4. InHand = <<>>
  BY DEF InHand, HandsInv
<1>5. JobsIn(InHand') = {queue[i].job}
  BY <1>3, JobsInOne
<1> QED
  BY <1>2, <1>4, <1>5, JobsInNone

LEMMA DispatchKeeps ==
    ASSUME TypeInv, HandsInv, Dispatch
    PROVE  Where \subseteq Where'
<1> USE DEF Where, OnDisk, InMemory
<1>1. ASSUME NEW h \in Hosts, DequeueForHost(h) PROVE Where \subseteq Where'
  <2>1. PICK i \in DOMAIN queue :
          hand' = <<queue[i]>> /\ queue' = RemoveAt(queue, i)
    BY <1>1 DEF DequeueForHost, BestIndex, Earliest, Candidates
  <2>2. mpc \notin Holding /\ mpc' \in Holding \ {"defer"}
    BY <1>1 DEF DequeueForHost, Goto, Holding
  <2>3. JobsIn(queue) \cup JobsIn(InHand)
          \subseteq JobsIn(queue') \cup JobsIn(InHand')
    BY <2>1, <2>2, TakingKeeps
  <2> QED
    BY <1>1, <2>3 DEF DequeueForHost
<1>2. ASSUME NEW h \in Hosts, SkipHost(h) PROVE Where \subseteq Where'
  BY <1>2 DEF SkipHost, InHand
<1>3. CASE DispatchEnds
  BY <1>3 DEF DispatchEnds, InHand, Goto
<1> QED
  BY <1>1, <1>2, <1>3 DEF Dispatch

LEMMA LaunchKeeps ==
    ASSUME TypeInv, DiskInv, HandsInv, LaunchJob
    PROVE  Where \subseteq Where'
<1> USE DEF Where, OnDisk, InMemory, Goto, AfterLaunch
<1>1. /\ queue \in Seq(Item) /\ deferred \in Seq(Item)
      /\ completed \in Seq(Record) /\ failed \in Seq(Record)
      /\ hand \in Opt(Item)
  BY DEF TypeInv, TypeOK, FilesOK, MemoryOK
<1>2. JobsIn(hand) \subseteq {hand[1].job}
  BY <1>1, OptJobs
<1>3. mpc \in Holding => hand[1] \in Item /\ job \in Jobs /\ at \in Hosts
  BY InHandItem
<1>4. CASE StageNothing \/ StageMissing \/ Launch \/ Verify \/ BenchLoad
             \/ BenchSave
  BY <1>4 DEF StageNothing, StageMissing, Launch, Verify, BenchLoad, BenchSave,
              InHand
<1>5. CASE StagePayload \/ StageFails
  <2>1. hand' = hand \/ hand' = <<[hand[1] EXCEPT !.dir = TRUE]>>
    BY <1>5 DEF StagePayload, StageFails, WithDir
  <2>2. [hand[1] EXCEPT !.dir = TRUE].job = hand[1].job
    BY <1>3, <1>5 DEF StagePayload, StageFails, Holding, Item
  <2>3. JobsIn(hand) \subseteq JobsIn(hand')
    BY <1>2, <2>1, <2>2, JobsInOne
  <2> QED
    BY <1>5, <2>3 DEF StagePayload, StageFails, InHand
<1>6. CASE Track
  <2> DEFINE new == [hand[1] EXCEPT !.preempt = FALSE, !.fails = 0,
                                    !.resume = NoHost]
  <2>1. new.job = hand[1].job /\ at \in Hosts
    BY <1>3, <1>6 DEF Track, Holding, Item
  <2>2. running' = [tracked EXCEPT ![at] = <<new>>] /\ tracked[at] = <<>>
    BY <1>6 DEF Track, HandsInv
  <2>3. \A h \in Hosts : running[h] = tracked[h]
    BY <1>6 DEF Track, DiskInv, DiskFollowsMemory
  <2>4. tracked \in [Hosts -> Opt(Item)]
    BY DEF TypeInv, TypeOK, MemoryOK
  <2>5. \A h \in Hosts : h # at => running'[h] = running[h]
    BY <2>2, <2>3, <2>4
  <2>6. running'[at] = <<new>> /\ running[at] = <<>>
    BY <2>1, <2>2, <2>3, <2>4
  <2> HIDE DEF new
  <2>7. OnHosts(running) \subseteq OnHosts(running')
    BY <2>5, <2>6, JobsInNone DEF OnHosts
  <2>8. JobsIn(hand) \subseteq OnHosts(running')
    BY <1>2, <2>1, <2>6, JobsInOne DEF OnHosts
  <2>9. UNCHANGED <<queue, deferred, completed, failed, moving, held, done, bad,
                    withdrawn, dropped, evicted>>
    BY <1>6 DEF Track
  <2>10. InHand = hand
    BY <1>6 DEF Track, InHand
  <2> QED
    BY <2>7, <2>8, <2>9, <2>10
<1>7. CASE RecordDead
  <2>1. PICK r \in Record :
          /\ Fetched(r, at, job, TRUE)
          /\ completed' = IF Success(r) THEN Append(completed, r) ELSE completed
          /\ FailedGrowsBy(IF Success(r) THEN <<>> ELSE <<r>>)
    BY <1>7 DEF RecordDead
  <2>2. /\ r.job = job /\ r.status # "start_failed"
        /\ job = hand[1].job
    <3>1. Fetched(r, at, job, TRUE)
      BY <2>1
    <3>2. r.job = job /\ r.status # "start_failed"
      BY <3>1, FetchedIs
    <3>3. job = hand[1].job
      BY DEF job
    <3> QED
      BY <3>2, <3>3
  <2>3. <<r>> \in Seq(Record) /\ <<>> \in Seq(Record)
    OBVIOUS
  <2>4. EndedIn(<<r>>) = {r.job} /\ EndedIn(<<>>) = {}
    BY <2>2 DEF EndedIn
  <2>5. CASE Success(r)
    <3>1. EndedIn(completed') = EndedIn(completed) \cup {r.job}
      <4>1. completed' = Append(completed, r)
        BY <2>1, <2>5
      <4> QED
        BY <1>1, <2>2, <4>1, EndedInAppend
    <3>2. EndedIn(failed) \cup evicted \subseteq EndedIn(failed') \cup evicted'
      BY <1>1, <2>1, <2>3, <2>5, FailedKept
    <3> QED
      BY <1>2, <1>7, <2>2, <3>1, <3>2 DEF RecordDead, InHand
  <2>6. CASE ~Success(r)
    <3>1. EndedIn(failed) \cup evicted \cup {r.job}
            \subseteq EndedIn(failed') \cup evicted'
      BY <1>1, <2>1, <2>3, <2>4, <2>6, FailedKept
    <3> QED
      BY <1>2, <1>7, <2>1, <2>2, <2>6, <3>1 DEF RecordDead, InHand
  <2> QED
    BY <2>5, <2>6
<1>8. CASE RequeueBack \/ RequeueFailed
  <2>1. hand[1] \in Item
    BY <1>3, <1>8 DEF RequeueBack, RequeueFailed, Holding
  <2>2. /\ [hand[1] EXCEPT !.fails = 0] \in Item
        /\ [hand[1] EXCEPT !.fails = @ + 1] \in Item
        /\ [hand[1] EXCEPT !.fails = 0].job = hand[1].job
        /\ [hand[1] EXCEPT !.fails = @ + 1].job = hand[1].job
    BY <2>1 DEF Item
  <2>3. \A x \in Item : /\ JobsIn(Append(queue, x)) = JobsIn(queue) \cup {x.job}
                         /\ JobsIn(Cons(x, queue)) = JobsIn(queue) \cup {x.job}
    BY <1>1, JobsInAppend, JobsInCons
  <2>4. JobsIn(queue') = JobsIn(queue) \cup {hand[1].job}
    BY <1>8, <2>2, <2>3 DEF RequeueBack, RequeueFailed
  <2> QED
    BY <1>2, <1>8, <2>4, JobsInNone DEF RequeueBack, RequeueFailed, InHand
<1>9. CASE DeferJob
  <2>1. hand[1] \in Item
    BY <1>3, <1>9 DEF DeferJob, Holding
  <2>2. /\ [hand[1] EXCEPT !.fails = 0] \in Item
        /\ [hand[1] EXCEPT !.fails = 0].job = hand[1].job
    BY <2>1 DEF Item
  <2>3. \A x \in Item :
          JobsIn(Append(deferred, x)) = JobsIn(deferred) \cup {x.job}
    BY <1>1, JobsInAppend
  <2>4. JobsIn(deferred') = JobsIn(deferred) \cup {hand[1].job}
    BY <1>9, <2>2, <2>3 DEF DeferJob
  <2> QED
    BY <1>2, <1>9, <2>4, JobsInNone DEF DeferJob, InHand
<1>10. CASE FileStartFailure
  <2> DEFINE r == <<[job |-> job, fresh |-> TRUE, status |-> "start_failed"]>>
  <2>1. r \in Seq(Record)
    BY <1>3, <1>10 DEF FileStartFailure, Holding, Record
  <2>2. EndedIn(failed) \cup evicted \subseteq EndedIn(failed') \cup evicted'
    BY <1>1, <1>10, <2>1, FailedKept DEF FileStartFailure
  <2> QED
    BY <1>10, <2>2, JobsInNone DEF FileStartFailure, InHand
<1> QED
  BY <1>4, <1>5, <1>6, <1>7, <1>8, <1>9, <1>10, LaunchJob DEF LaunchJob

LEMMA PreemptingKeeps ==
    ASSUME TypeInv, DiskInv, HandsInv, Preempting
    PROVE  Where \subseteq Where'
<1> USE DEF Where, OnDisk, InMemory, Goto
<1>1. queue \in Seq(Item) /\ hand \in Opt(Item) /\ held \in Opt(Item)
  BY DEF TypeInv, TypeOK, FilesOK, MemoryOK
<1>2. CASE ChoosePreemption \/ ChooseNothing \/ ClaimNothing \/ KillVictim
  BY <1>2 DEF ChoosePreemption, ChooseNothing, ClaimNothing, KillVictim, InHand
<1>3. CASE Claim
  <2>1. PICK i \in DOMAIN queue :
          hand' = <<queue[i]>> /\ queue' = RemoveAt(queue, i)
    BY <1>3 DEF Claim, Positions, Earliest
  <2>2. mpc \notin Holding /\ mpc' \in Holding \ {"defer"}
    BY <1>3 DEF Claim, Holding
  <2>3. JobsIn(queue) \cup JobsIn(InHand)
          \subseteq JobsIn(queue') \cup JobsIn(InHand')
    BY <2>1, <2>2, TakingKeeps
  <2> QED
    BY <1>3, <2>3 DEF Claim
<1>4. CASE StandDown
  <2>1. hand[1] \in Item
    BY <1>4, InHandItem DEF StandDown, Holding
  <2>2. JobsIn(queue') = JobsIn(queue) \cup {hand[1].job}
    BY <1>1, <1>4, <2>1, JobsInCons DEF StandDown
  <2> QED
    BY <1>1, <1>4, <2>2, OptJobs, JobsInNone DEF StandDown, InHand
<1>5. CASE UntrackVictim
  <2>1. at \in Hosts /\ held = <<>>
    BY <1>5 DEF UntrackVictim, TypeInv, StagesOK, AboutHost, Holding, HandsInv
  <2>2. \A h \in Hosts : running[h] = tracked[h]
    BY <1>5 DEF UntrackVictim, DiskInv, DiskFollowsMemory
  <2>3. tracked \in [Hosts -> Opt(Item)]
    BY DEF TypeInv, TypeOK, MemoryOK
  <2>4. \A h \in Hosts : h # at => running'[h] = running[h]
    BY <1>5, <2>2, <2>3 DEF UntrackVictim
  <2>5. JobsIn(running[at]) \subseteq {tracked[at][1].job}
    BY <2>1, <2>2, <2>3, OptJobs
  <2>6. JobsIn(held') = {tracked[at][1].job}
    <3>1. tracked[at][1] \in Item
      BY <1>5, <2>1, <2>3, OptFirst DEF UntrackVictim, TypeInv, StagesOK
    <3>2. ResumeItem(tracked[at][1], at).job = tracked[at][1].job
      BY <3>1 DEF ResumeItem, Item
    <3> QED
      BY <1>5, <3>2, JobsInOne DEF UntrackVictim
  <2>7. OnHosts(running) \subseteq OnHosts(running') \cup JobsIn(held')
    BY <2>4, <2>5, <2>6 DEF OnHosts
  <2>8. UNCHANGED <<queue, deferred, completed, failed, moving, hand, done, bad,
                    withdrawn, dropped, evicted>>
    BY <1>5 DEF UntrackVictim
  <2>9. InHand = hand /\ InHand' = hand
    BY <1>5 DEF UntrackVictim, InHand
  <2> QED
    BY <2>1, <2>7, <2>8, <2>9, JobsInNone
<1>6. CASE RequeueVictim
  <2>1. held[1] \in Item
    BY <1>1, <1>6, OptFirst DEF RequeueVictim, TypeInv, StagesOK
  <2>2. JobsIn(queue') = JobsIn(queue) \cup {held[1].job}
    BY <1>1, <1>6, <2>1, JobsInCons DEF RequeueVictim
  <2> QED
    BY <1>1, <1>6, <2>2, OptJobs DEF RequeueVictim, InHand
<1> QED
  BY <1>2, <1>3, <1>4, <1>5, <1>6 DEF Preempting

LEMMA OpsKeep ==
    ASSUME TypeInv, OpsStep
    PROVE  Where \subseteq Where' /\ submitted' \subseteq submitted \cup Where'
<1> USE DEF Where, OnDisk
<1>1. queue \in Seq(Item) /\ deferred \in Seq(Item) /\ moving \in Seq(Item)
  BY DEF TypeInv, TypeOK, FilesOK, CommandsOK
<1> DEFINE Kept == /\ Where \subseteq Where'
                   /\ submitted' \subseteq submitted \cup Where'
<1>2. ASSUME NEW j \in Jobs, Submit(j) PROVE Kept
  <2>1. NewItem(j) \in Item /\ NewItem(j).job = j
    BY HostStateAssumption DEF HostStateAssumption, NewItem, Item
  <2>2. JobsIn(queue') = JobsIn(queue) \cup {j}
    BY <1>1, <1>2, <2>1, JobsInAppend DEF Submit
  <2> QED
    BY <1>2, <2>2 DEF Submit, InMemory, InHand
<1>3. ASSUME NEW s \in SUBSET DOMAIN queue, Qdel(s) PROVE Kept
  <2>1. {queue[i].job : i \in DOMAIN queue \ s} \subseteq JobsIn(queue')
    BY <1>1, <1>3, JobsInKeeping DEF Qdel
  <2>2. JobsIn(queue) \subseteq JobsIn(queue') \cup {queue[i].job : i \in s}
    BY <2>1 DEF JobsIn
  <2> QED
    BY <1>3, <2>2 DEF Qdel, InMemory, InHand
<1>4. CASE Clear
  BY <1>4 DEF Clear, InMemory, InHand
<1>5. CASE \E h \in Hosts : EnableHost(h) \/ ReadRunning(h)
  BY <1>5 DEF EnableHost, ReadRunning, InMemory, InHand
<1>6. ASSUME NEW s \in SUBSET DOMAIN deferred, PopDeferred(s) PROVE Kept
  <2>1. /\ {deferred[i].job : i \in DOMAIN deferred \ s}
             \subseteq JobsIn(deferred')
        /\ {deferred[i].job : i \in s} \subseteq JobsIn(moving')
    BY <1>1, <1>6, JobsInKeeping DEF PopDeferred
  <2>2. JobsIn(deferred) \subseteq JobsIn(deferred') \cup JobsIn(moving')
    BY <2>1 DEF JobsIn
  <2>3. JobsIn(moving) = {}
    BY <1>6, JobsInNone DEF PopDeferred, LockFree
  <2> QED
    BY <1>6, <2>2, <2>3 DEF PopDeferred, InMemory, InHand
<1>7. CASE EnqueueMoving
  <2>1. /\ Head(moving) \in Item
        /\ JobsIn(moving) \subseteq {Head(moving).job} \cup JobsIn(Tail(moving))
    BY <1>1, <1>7, JobsInTail DEF EnqueueMoving
  <2>2. JobsIn(queue') = JobsIn(queue) \cup {Head(moving).job}
    BY <1>1, <1>7, <2>1, JobsInAppend DEF EnqueueMoving
  <2> QED
    BY <1>7, <2>1, <2>2 DEF EnqueueMoving, InMemory, InHand
<1>8. ASSUME NEW s \in SUBSET DOMAIN deferred, DropDeferred(s) PROVE Kept
  <2>1. {deferred[i].job : i \in DOMAIN deferred \ s}
          \subseteq JobsIn(deferred')
    BY <1>1, <1>8, JobsInKeeping DEF DropDeferred
  <2>2. JobsIn(deferred)
          \subseteq JobsIn(deferred') \cup {deferred[i].job : i \in s}
    BY <2>1 DEF JobsIn
  <2> QED
    BY <1>8, <2>2 DEF DropDeferred, InMemory, InHand
<1>9. CASE CommandDies
  BY <1>9 DEF CommandDies, InMemory, InHand
<1>10. CASE RequeueRead
  <2>1. rerun[1].item \in Item
    BY <1>10, OptFirst DEF RequeueRead, TypeInv, TypeOK, CommandsOK, Rerun
  <2>2. JobsIn(queue) \subseteq JobsIn(queue')
    BY <1>1, <1>10, <2>1, JobsInCons DEF RequeueRead
  <2> QED
    BY <1>10, <2>2 DEF RequeueRead, InMemory, InHand
<1>11. CASE KillRequeued
  BY <1>11 DEF KillRequeued, InMemory, InHand
<1> QED
  BY <1>2, <1>3, <1>4, <1>5, <1>6, <1>7, <1>8, <1>9, <1>10, <1>11
     DEF OpsStep, CommandFinishes

LEMMA StopKeeps ==
    ASSUME TypeInv, DiskInv, HandsInv, Stop \/ Crash
    PROVE  Where \subseteq Where'
<1>1. CASE Stop
  <2>1. hand = <<>> /\ held = <<>> /\ done = <<>> /\ bad = <<>>
    BY <1>1 DEF Stop, HandsInv, Holding, DiskInv
  <2> QED
    BY <1>1, <2>1 DEF Stop, MemoryLost, Goto, Where, OnDisk, InMemory, InHand
<1>2. CASE Crash
  <2>1. OnDisk' = OnDisk
    BY <1>2 DEF Crash, OnDisk
  <2>2. Where \subseteq Where' \cup InMemory
    BY <1>2, <2>1 DEF Crash, Where
  <2>3. InMemory \subseteq OnDisk \cup JobsIn(moving) \cup dropped'
    BY <1>2 DEF Crash
  <2> QED
    BY <1>2, <2>1, <2>2, <2>3 DEF Crash, Where
<1> QED
  BY <1>1, <1>2

LEMMA SubmittedKept ==
    ASSUME MonitorStep \/ Stop \/ Crash
    PROVE  submitted' = submitted
<1>1. CASE PollAndPrune
  BY <1>1 DEF PollAndPrune, Start, Poll, PruneHost, PruneEnds, SavePruned,
              FileCompleted, FileFailed
<1>2. CASE Dispatch
  BY <1>2 DEF Dispatch, DequeueForHost, SkipHost, DispatchEnds
<1>3. CASE LaunchJob
  BY <1>3 DEF LaunchJob, StageNothing, StagePayload, StageFails, StageMissing,
              Launch, Verify, Track, RecordDead, RequeueBack, BenchLoad,
              BenchSave, RequeueFailed, DeferJob, FileStartFailure
<1>4. CASE Preempting
  BY <1>4 DEF Preempting, ChoosePreemption, ChooseNothing, Claim,
              ClaimNothing, KillVictim, StandDown, UntrackVictim, RequeueVictim
<1>5. CASE Stop \/ Crash
  BY <1>5 DEF Stop, Crash
<1> QED
  BY <1>1, <1>2, <1>3, <1>4, <1>5 DEF MonitorStep

LEMMA StepKeeps ==
    ASSUME TypeInv, DiskInv, HandsInv, RecordsInv, NoJobLost, [Next]_vars
    PROVE  NoJobLost'
<1>1. CASE MonitorStep \/ Stop \/ Crash
  <2>1. Where \subseteq Where'
    BY <1>1, PollKeeps, DispatchKeeps, LaunchKeeps, PreemptingKeeps, StopKeeps
       DEF MonitorStep
  <2>2. submitted' = submitted
    BY <1>1, SubmittedKept
  <2> QED
    BY <2>1, <2>2 DEF NoJobLost, Where
<1>2. CASE OpsStep
  BY <1>2, OpsKeep DEF NoJobLost, Where
<1>3. CASE (\E h \in Hosts : CooldownExpires(h)) \/ WorkerStep \/ UNCHANGED vars
  BY <1>3 DEF CooldownExpires, WorkerStep, JobEnds, Reboot, vars,
              NoJobLost, OnDisk, InMemory, InHand
<1> QED
  BY <1>1, <1>2, <1>3 DEF Next

LEMMA JobsInvariant ==
    Spec => [](DiskInv /\ HandsInv /\ RecordsInv /\ NoJobLost)
<1>1. Init => DiskInv /\ HandsInv /\ RecordsInv /\ NoJobLost
  BY DEF Init, DiskInv, DiskFollowsMemory, HandsInv, Holding, AboutHost,
         RecordsInv, NoJobLost
<1>2. DiskInv /\ TypeInv /\ [Next]_vars => DiskInv'
  BY StepDisk
<1>3. HandsInv /\ TypeInv /\ [Next]_vars => HandsInv'
  BY StepHands
<1>4. RecordsInv /\ DiskInv /\ TypeInv /\ [Next]_vars => RecordsInv'
  BY StepRecords
<1>5. TypeInv /\ DiskInv /\ HandsInv /\ RecordsInv /\ NoJobLost /\ [Next]_vars
        => NoJobLost'
  BY StepKeeps
<1> QED
  BY <1>1, <1>2, <1>3, <1>4, <1>5, TypeInvariant, PTL DEF Spec

\* Every accepted job that no operator deleted is somewhere at every moment:
\* in a file, in the memory of the monitor or of requeue-deferred, or it was
\* only there when that process died, or its record is older than the cap.
THEOREM NothingIsLost == Spec => []NoJobLost
BY JobsInvariant, PTL

=============================================================================

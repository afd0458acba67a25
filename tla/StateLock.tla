----------------------------- MODULE StateLock -----------------------------
(***************************************************************************)
(* shared/state_lock.py and shared/state_io.py: the one lock that          *)
(* serializes every read-modify-write of the queue host's state files.     *)
(*                                                                         *)
(* A process (the monitor daemon, one `awsqe-host rpc` process per call, a *)
(* host CLI command) holds a process-local RLock, a nesting depth and, at  *)
(* the outermost level, a kernel flock on state.lock.  Inside, a thread    *)
(* loads the file, modifies its copy and saves it through a temp file and  *)
(* os.replace.  A process may die at any step; the kernel then drops its   *)
(* flock and the file keeps its last replaced contents.                    *)
(*                                                                         *)
(* The file is abstracted to the set of updates its contents reflect: a    *)
(* save writes the loaded copy plus one fresh update.                      *)
(***************************************************************************)
EXTENDS Naturals, Sequences

CONSTANTS
    Procs,      \* operating system processes
    Threads,    \* threads of all of them
    ProcOf,     \* the process a thread belongs to
    NoThread,   \* nobody owns an RLock
    NoProc,     \* nobody holds the flock
    Degraded,   \* processes that may fail to open state.lock (or have no flock)
    MaxDepth,   \* bound: deepest nesting of state_lock()
    MaxWork     \* bound: how many lock entries and saves one thread makes

ASSUME StateLockAssumption ==
    /\ ProcOf \in [Threads -> Procs]
    /\ NoThread \notin Threads
    /\ NoProc \notin Procs
    /\ Degraded \subseteq Procs
    /\ MaxDepth \in Nat \ {0}
    /\ MaxWork \in Nat

\* A save is identified by its thread and by what that thread had left to do.
Updates == Threads \X (1..MaxWork)

VARIABLES
    file,    \* contents of the state file: the updates it reflects
    tmp,     \* tmp[p]: <<>> or <<contents>> of p's scratch file
    flock,   \* the process holding the kernel lock
    owner,   \* owner[p]: the thread inside p's _local_lock
    depth,   \* depth[p]: _depth
    handle,  \* handle[p]: _handle is an open, locked file
    pc,      \* pc[t]: where thread t is
    copy,    \* copy[t]: <<>> or <<contents>> t loaded and will save
    work,    \* work[t]: lock entries and saves t has left
    done,    \* updates whose save returned: what callers were told is durable
    intact   \* nobody has proceeded without the kernel lock so far

vars == <<file, tmp, flock, owner, depth, handle, pc, copy, work, done, intact>>

Inside(t) == pc[t] \in {"in", "replace"}

TypeOK ==
    /\ file \in SUBSET Updates
    /\ done \in SUBSET Updates
    /\ tmp \in [Procs -> Seq(SUBSET Updates)]
    /\ flock \in Procs \cup {NoProc}
    /\ owner \in [Procs -> Threads \cup {NoThread}]
    /\ depth \in [Procs -> 0..MaxDepth]
    /\ handle \in [Procs -> BOOLEAN]
    /\ pc \in [Threads -> {"out", "acquire", "in", "replace", "dead"}]
    /\ copy \in [Threads -> Seq(SUBSET Updates)]
    /\ work \in [Threads -> 0..MaxWork]
    /\ intact \in BOOLEAN

Init ==
    /\ file = {}
    /\ done = {}
    /\ tmp = [p \in Procs |-> <<>>]
    /\ flock = NoProc
    /\ owner = [p \in Procs |-> NoThread]
    /\ depth = [p \in Procs |-> 0]
    /\ handle = [p \in Procs |-> FALSE]
    /\ pc = [t \in Threads |-> "out"]
    /\ copy = [t \in Threads |-> <<>>]
    /\ work = [t \in Threads |-> MaxWork]
    /\ intact = TRUE

-----------------------------------------------------------------------------
(* Acquiring.                                                              *)

\* Fault: no RLock around the depth counter.
EnterWithoutRLock(t) ==
    /\ pc[t] = "out"
    /\ work[t] > 0
    /\ owner' = [owner EXCEPT ![ProcOf[t]] = t]
    /\ pc' = [pc EXCEPT ![t] = "acquire"]
    /\ work' = [work EXCEPT ![t] = @ - 1]
    /\ UNCHANGED <<file, tmp, flock, depth, handle, copy, done, intact>>

\* `with _local_lock:` at the outermost level.
EnterLocal(t) ==
    /\ pc[t] = "out"
    /\ work[t] > 0
    /\ owner[ProcOf[t]] = NoThread
    /\ owner' = [owner EXCEPT ![ProcOf[t]] = t]
    /\ pc' = [pc EXCEPT ![t] = "acquire"]
    /\ work' = [work EXCEPT ![t] = @ - 1]
    /\ UNCHANGED <<file, tmp, flock, depth, handle, copy, done, intact>>

\* _acquire_flock succeeds, at once or after waiting for the holder.
TakeFlock(t) ==
    /\ pc[t] = "acquire"
    /\ flock = NoProc
    /\ flock' = ProcOf[t]
    /\ handle' = [handle EXCEPT ![ProcOf[t]] = TRUE]
    /\ depth' = [depth EXCEPT ![ProcOf[t]] = @ + 1]
    /\ pc' = [pc EXCEPT ![t] = "in"]
    /\ UNCHANGED <<file, tmp, owner, copy, work, done, intact>>

\* _acquire_flock returns None, or there is no fcntl: proceed with the
\* process-local lock alone.
ProceedUnlocked(t) ==
    /\ pc[t] = "acquire"
    /\ ProcOf[t] \in Degraded
    /\ depth' = [depth EXCEPT ![ProcOf[t]] = @ + 1]
    /\ pc' = [pc EXCEPT ![t] = "in"]
    /\ intact' = FALSE
    /\ UNCHANGED <<file, tmp, flock, owner, handle, copy, work, done>>

\* A nested state_lock(): the RLock lets its owner through and only the
\* depth moves.  What the caller loaded before it nested (requeue_deferred
\* validates indices against such a copy) is never written back.
EnterNested(t) ==
    /\ pc[t] = "in"
    /\ work[t] > 0
    /\ depth[ProcOf[t]] < MaxDepth
    /\ depth' = [depth EXCEPT ![ProcOf[t]] = @ + 1]
    /\ copy' = [copy EXCEPT ![t] = <<>>]
    /\ work' = [work EXCEPT ![t] = @ - 1]
    /\ UNCHANGED <<file, tmp, flock, owner, handle, pc, done, intact>>

-----------------------------------------------------------------------------
(* The critical section.                                                   *)

\* Fault: the copy is loaded before the lock is taken.
LoadEarly(t) ==
    /\ pc[t] \in {"acquire", "in"}
    /\ copy[t] = <<>>
    /\ copy' = [copy EXCEPT ![t] = <<file>>]
    /\ UNCHANGED <<file, tmp, flock, owner, depth, handle, pc, work, done,
                   intact>>

\* load_*(): read the file inside the lock.
Load(t) ==
    /\ pc[t] = "in"
    /\ copy[t] = <<>>
    /\ copy' = [copy EXCEPT ![t] = <<file>>]
    /\ UNCHANGED <<file, tmp, flock, owner, depth, handle, pc, work, done,
                   intact>>

\* Fault: write_text truncates the target itself before filling it.
WriteInPlace(t) ==
    /\ pc[t] = "in"
    /\ copy[t] # <<>>
    /\ work[t] > 0
    /\ file' = {}
    /\ tmp' = [tmp EXCEPT ![ProcOf[t]] = <<copy[t][1] \cup {<<t, work[t]>>}>>]
    /\ pc' = [pc EXCEPT ![t] = "replace"]
    /\ UNCHANGED <<flock, owner, depth, handle, copy, work, done, intact>>

\* write_text_atomic, first half: the modified copy goes to .tmp.<pid>.
WriteTmp(t) ==
    /\ pc[t] = "in"
    /\ copy[t] # <<>>
    /\ work[t] > 0
    /\ tmp' = [tmp EXCEPT ![ProcOf[t]] = <<copy[t][1] \cup {<<t, work[t]>>}>>]
    /\ pc' = [pc EXCEPT ![t] = "replace"]
    /\ UNCHANGED <<file, flock, owner, depth, handle, copy, work, done, intact>>

\* write_text_atomic, second half: os.replace.
Replace(t) ==
    /\ pc[t] = "replace"
    /\ file' = tmp[ProcOf[t]][1]
    /\ tmp' = [tmp EXCEPT ![ProcOf[t]] = <<>>]
    /\ done' = done \cup {<<t, work[t]>>}
    /\ work' = [work EXCEPT ![t] = @ - 1]
    /\ copy' = [copy EXCEPT ![t] = <<>>]
    /\ pc' = [pc EXCEPT ![t] = "in"]
    /\ UNCHANGED <<flock, owner, depth, handle, intact>>

\* The write raised (full disk, permissions): the scratch file is removed
\* and the exception unwinds, leaving the target untouched.
WriteFails(t) ==
    /\ pc[t] = "replace"
    /\ tmp' = [tmp EXCEPT ![ProcOf[t]] = <<>>]
    /\ work' = [work EXCEPT ![t] = @ - 1]
    /\ copy' = [copy EXCEPT ![t] = <<>>]
    /\ pc' = [pc EXCEPT ![t] = "in"]
    /\ UNCHANGED <<file, flock, owner, depth, handle, done, intact>>

-----------------------------------------------------------------------------
(* Releasing.                                                              *)

\* Fault: leaving a nested level releases the flock (no depth counter).
ExitNestedReleasing(t) ==
    /\ pc[t] = "in"
    /\ depth[ProcOf[t]] > 1
    /\ depth' = [depth EXCEPT ![ProcOf[t]] = @ - 1]
    /\ flock' = NoProc
    /\ handle' = [handle EXCEPT ![ProcOf[t]] = FALSE]
    /\ copy' = [copy EXCEPT ![t] = <<>>]
    /\ UNCHANGED <<file, tmp, owner, pc, work, done, intact>>

\* Fault: the depth is lowered without asking whether it was nested.
ExitNestedUnguarded(t) ==
    /\ pc[t] = "in"
    /\ depth' = [depth EXCEPT ![ProcOf[t]] = @ - 1]
    /\ copy' = [copy EXCEPT ![t] = <<>>]
    /\ UNCHANGED <<file, tmp, flock, owner, handle, pc, work, done, intact>>

\* Leaving a nested level only lowers the depth.
ExitNested(t) ==
    /\ pc[t] = "in"
    /\ depth[ProcOf[t]] > 1
    /\ depth' = [depth EXCEPT ![ProcOf[t]] = @ - 1]
    /\ copy' = [copy EXCEPT ![t] = <<>>]
    /\ UNCHANGED <<file, tmp, flock, owner, handle, pc, work, done, intact>>

\* Leaving the outermost level releases the flock, if it was taken, and
\* then the RLock.
ExitOutermost(t) ==
    /\ pc[t] = "in"
    /\ depth[ProcOf[t]] = 1
    /\ depth' = [depth EXCEPT ![ProcOf[t]] = 0]
    /\ flock' = IF handle[ProcOf[t]] THEN NoProc ELSE flock
    /\ handle' = [handle EXCEPT ![ProcOf[t]] = FALSE]
    /\ owner' = [owner EXCEPT ![ProcOf[t]] = NoThread]
    /\ copy' = [copy EXCEPT ![t] = <<>>]
    /\ pc' = [pc EXCEPT ![t] = "out"]
    /\ UNCHANGED <<file, tmp, work, done, intact>>

\* Fault: a lock that outlives its holder (a lock file, not a flock).
DieHolding(p) ==
    /\ \E t \in Threads : ProcOf[t] = p /\ pc[t] # "dead"
    /\ pc' = [t \in Threads |-> IF ProcOf[t] = p THEN "dead" ELSE pc[t]]
    /\ copy' = [t \in Threads |-> IF ProcOf[t] = p THEN <<>> ELSE copy[t]]
    /\ owner' = [owner EXCEPT ![p] = NoThread]
    /\ depth' = [depth EXCEPT ![p] = 0]
    /\ handle' = [handle EXCEPT ![p] = FALSE]
    /\ UNCHANGED <<file, tmp, flock, work, done, intact>>

\* The process is killed: its memory is gone, the kernel drops its flock,
\* and a scratch file it was writing stays behind.
Die(p) ==
    /\ \E t \in Threads : ProcOf[t] = p /\ pc[t] # "dead"
    /\ pc' = [t \in Threads |-> IF ProcOf[t] = p THEN "dead" ELSE pc[t]]
    /\ copy' = [t \in Threads |-> IF ProcOf[t] = p THEN <<>> ELSE copy[t]]
    /\ flock' = IF flock = p THEN NoProc ELSE flock
    /\ owner' = [owner EXCEPT ![p] = NoThread]
    /\ depth' = [depth EXCEPT ![p] = 0]
    /\ handle' = [handle EXCEPT ![p] = FALSE]
    /\ UNCHANGED <<file, tmp, work, done, intact>>

-----------------------------------------------------------------------------

\* What a thread does once it has asked for the lock.
Progress(t) ==
    \/ TakeFlock(t)
    \/ ProceedUnlocked(t)
    \/ EnterNested(t)
    \/ Load(t)
    \/ WriteTmp(t)
    \/ Replace(t)
    \/ WriteFails(t)
    \/ ExitNested(t)
    \/ ExitOutermost(t)

Next ==
    \/ \E t \in Threads : EnterLocal(t) \/ Progress(t)
    \/ \E p \in Procs : Die(p)

Spec == Init /\ [][Next]_vars

\* "Nothing slow may run inside the lock": a thread inside the lock, or
\* waiting for it, keeps running unless its process dies.
FairSpec == Spec /\ \A t \in Threads : WF_vars(Progress(t))

-----------------------------------------------------------------------------
(* Properties.                                                             *)

\* Two threads are never inside the lock together: never two of one
\* process, and never two of different processes that could both open the
\* lock file.
MutualExclusion ==
    \A t, u \in Threads :
        t # u /\ Inside(t) /\ Inside(u) =>
            /\ ProcOf[t] # ProcOf[u]
            /\ ~ (handle[ProcOf[t]] /\ handle[ProcOf[u]])

\* The reason the lock exists: an update whose save returned is in the file
\* for ever, whoever writes after it and whoever dies.  It is promised only
\* while everybody could open the lock file.
NoLostUpdate == intact => done \subseteq file

\* A copy loaded under the kernel lock is never stale: while its thread is
\* inside, the file is still what it loaded.
CopyIsFresh ==
    intact => \A t \in Threads : copy[t] # <<>> => copy[t][1] = file

\* Locked saves are atomic updates of the file, including those whose
\* process dies just after os.replace: a step either leaves the contents
\* alone or adds one update to the latest contents.
Atomic == INSTANCE AtomicStore WITH store <- file
AtomicUpdates == [][intact => [Atomic!Next]_file]_vars

\* Nobody waits for ever: a thread that asked for the lock gets in, whether
\* the holder releases it, nests, fails a write or dies (unless the waiting
\* process itself dies).
WaiterGetsIn ==
    \A t \in Threads : pc[t] = "acquire" ~> pc[t] \in {"in", "dead"}
=============================================================================

---------------------------- MODULE ClientSystem ----------------------------
(***************************************************************************)
(* The client machine, its commands and the queue host, composed; and what *)
(* a user of the tracked-job ledger may rely on.                           *)
(***************************************************************************)
EXTENDS Client

CONSTANT Watcher     \* the process on which `jobs` is run again and again

ASSUME WatcherAssumption == Watcher \in Clients

-----------------------------------------------------------------------------
(* The queue host: the moves HostView allows, one job at a time.           *)

Moved(j, v) == view' = [view EXCEPT ![j] = v] /\ Watch

hostRest == <<clientVars, procVars, oldHost, minted, posted, told, removed,
              excused, appended, refetched>>

\* j's latest launch did not fail to start, and its output is what the log holds.
Begun(j) ==
    /\ runs[j].n > lastFail[j].n /\ ~view[j].due
    /\ logs[<<runs[j].host, j>>] = runs[j].n

\* A launch: once the script runs, its redirection truncates the job's log.
Launch(j, w) ==
    /\ Spend("launch")
    /\ \E v \in H!Taken(view[j]) : Moved(j, v)
    /\ runs' = [runs EXCEPT ![j] = [n |-> @.n + 1, host |-> w]]
    /\ \/ logs' = [logs EXCEPT ![<<w, j>>] = runs[j].n + 1]
       \/ UNCHANGED logs
    /\ UNCHANGED <<lastFail, failedOnce, hostRest>>

Progress(j) ==
    /\ \/ Begun(j) /\ \E v \in H!Tracked(view[j]) \cup H!Succeeded(view[j]) : Moved(j, v)
       \/ \E v \in H!Untracked(view[j]) : Moved(j, v)
    /\ UNCHANGED <<runs, lastFail, logs, failedOnce, budget, hostRest>>

Fail(j) ==
    /\ \E v \in H!Failed(view[j]) \cup H!StartFailed(view[j]) : Moved(j, v)
    /\ lastFail' = [lastFail EXCEPT ![j] = runs[j]]
    /\ failedOnce' = failedOnce \cup {j}
    /\ UNCHANGED <<runs, logs, budget, hostRest>>

\* Put back after a host's failure or a preemption, or deferred.
GoBack(j) ==
    /\ \E v \in H!PutBack(view[j]) \cup H!Parked(view[j]) : Moved(j, v)
    /\ UNCHANGED <<runs, lastFail, logs, failedOnce, budget, hostRest>>

\* Another user: a deferred job brought back or dropped, a queued one deleted.
Operate(j) ==
    /\ Spend("operate")
    /\ \E v \in H!Unparked(view[j]) \cup H!Dropped(view[j]) \cup H!Deleted(view[j]) :
          Moved(j, v)
    /\ UNCHANGED <<runs, lastFail, logs, failedOnce, hostRest>>

HostLoses(j) ==
    /\ \/ Spend("crash") /\ \E v \in H!Lost(view[j]) : Moved(j, v)
       \/ Spend("evict") /\ \E v \in H!Evicted(view[j]) : Moved(j, v)
    /\ UNCHANGED <<runs, lastFail, logs, failedOnce, hostRest>>

\* A worker is replaced or its logs are cleaned.
Recycle(w, j) ==
    /\ Spend("recycle")
    /\ logs[<<w, j>>] # 0
    /\ logs' = [logs EXCEPT ![<<w, j>>] = 0]
    /\ UNCHANGED <<view, runs, lastFail, seen, failedOnce, hostRest>>

HostStep ==
    \/ \E j \in Jobs, w \in Workers : Launch(j, w) \/ Recycle(w, j)
    \/ \E j \in Jobs : Progress(j) \/ Fail(j) \/ GoBack(j) \/ Operate(j)
                     \/ HostLoses(j)

-----------------------------------------------------------------------------
Starts(c) ==
    \/ \E ids \in Submissions : StartSubmit(c, ids)
    \/ StartJobs(c)
    \/ \E j \in Jobs : StartInfo(c, j) \/ StartForget(c, j) \/ StartFetch(c, j)
    \/ \E S \in SUBSET Jobs : StartQdel(c, S)

\* A command in progress goes on.
Goes(c) ==
    \/ Post(c) \/ ServeEnqueue(c) \/ EnqueuedAnswer(c)
    \/ Ask(c) \/ Lookup(c) \/ LookedUp(c)
    \/ ServeQdel(c) \/ QdelNotFound(c) \/ QdelAnswer(c)
    \/ CopyStarts(c) \/ CopyEnds(c) \/ Tidy(c)
    \/ Lock(c) \/ Write(c)

Breaks(c) ==
    LookupRefused(c) \/ Refused(c) \/ GiveUp(c) \/ CopyFails(c)
        \/ WriteFails(c) \/ Die(c)

\* The user of the watching process runs `jobs` whenever it is free.
Tended == budget["watched"] > 0

Watches ==
    /\ Tended
    /\ cl[Watcher].pc = "idle"
    /\ LET live == {j \in TrackedIn(ledger) : ~IsTerminal(ledger[j])}
       IN  /\ live # {}
           /\ cl' = [cl EXCEPT ![Watcher] = [Idle EXCEPT
                        !.cmd = "jobs", !.pc = "post", !.asks = live]]
    /\ UNCHANGED <<world, ans, box, seen, ghostVars, budget>>

ClientStep ==
    \/ \E c \in Clients : Starts(c) \/ Goes(c) \/ Breaks(c)
    \/ Watches
    \/ \E r \in late : ServeLate(r)

Next == HostStep \/ ClientStep

Spec == Init /\ [][Next]_vars

\* A command that runs is carried on, and somebody goes on running `jobs`;
\* nothing is assumed of the queue host, nor of commands being started.
Fairness ==
    /\ \A c \in Clients : WF_vars(Goes(c))
    /\ WF_vars(Watches)

FairSpec == Spec /\ Fairness

-----------------------------------------------------------------------------
(* What the host's answers are worth.                                      *)

Answered(c, j) ==
    /\ ans[c][j].status # "unasked"
    /\ ~(cl[c].pc \in Reading /\ j \in cl[c].sent)

\* What an answer claims of the job's whereabouts.
Claimed(status) == IF status \in {"queued", "running"} THEN status ELSE "neither"

\* What the histories must say when an answer or a record says that j is over.
Backed(status, j) ==
    CASE status \in {"completed", "unknown"} -> view[j].done = status
      [] status = "failed" -> j \in failedOnce
      [] OTHER -> TRUE

\* Four files are read one after the other without the lock, yet every answer
\* was true at some moment of the lookup: the job was queued, running or
\* neither when the host says so, and one that is reported over has a record.
\* (An old host's error is taken for "no record": nothing is claimed then.)
AnswersWereTrue ==
    \A c \in Clients, j \in Jobs :
        Answered(c, j) =>
            /\ \/ Claimed(ans[c][j].status) \in seen[c][j]
               \/ oldHost /\ ans[c][j].status = "none"
            /\ Backed(ans[c][j].status, j)

-----------------------------------------------------------------------------
(* What the ledger is worth.                                               *)

\* A job that a submit command reported as submitted is in the ledger, unless
\* it was forgotten, evicted as settled, or the file could not be written: no
\* command running at the same time makes the append disappear.
SubmittedIsTracked ==
    \A j \in told : IsTracked(ledger[j]) \/ j \in excused

\* A settled status is a fact, however late the answer that brought it: the
\* histories say so, and "deleted" means that this client's qdel removed it.
LedgerIsTrue ==
    \A j \in Jobs :
        /\ Backed(ledger[j].status, j)
        /\ ledger[j].status = "deleted" => j \in removed

\* A batch over the host's cap is sent in rounds, and one at a time to an old
\* host, but no job is ever sent twice: the host does not ask whether an id is
\* new, and would queue it twice.
NeverSubmittedTwice == \A j \in Jobs : posted[j] <= 1

\* A record names the payload of its own job, whichever uploads failed and
\* however the batch was cut into requests.
OwnPayload == \A j \in Jobs : IsTracked(ledger[j]) => ledger[j].payload = j

Forgetting(j) ==
    \E c \in Clients : cl[c].cmd = "forget" /\ cl[c].pc = "write" /\ j \in cl[c].sent

InFlight(j) == view[j].at \in {"queue", "hand", "running"}

\* Only a settled record makes room for others: no write of any command drops
\* one that is not, unless it is told to forget it, nor that of a job that the
\* host still has queued or running.  (Except for a job that failed to start,
\* was deferred and then requeued: its record says failed, `jobs` does not ask
\* again, and the record can go while the job runs.)
LiveNeverEvicted ==
    [][\A j \in Jobs :
          IsTracked(ledger[j]) /\ ~IsTracked(ledger'[j]) /\ ~Forgetting(j) =>
              /\ \E c \in Clients : cl[c].pc = "write" /\ IsTerminal(Change(c)[j])
              /\ InFlight(j) => j \in failedOnce]_vars

\* Once a job is known to have completed, the log shown as cached is the whole
\* output of the launch that completed, never an older one's and never a part
\* copied while it ran.  (Except for a job whose log two processes fetched at
\* once, or that was fetched again while its record already vouched for the
\* copy of the launch that completed: because that copy was deleted, or because
\* a late answer took the record back to an earlier status.  There the record
\* vouches for a copy that may still be cut short.)
CompletedLogIsWhole ==
    \A j \in Jobs :
        /\ ledger[j].status = "completed"
        /\ IsCached(ledger[j], cache[j].n # 0)
        /\ j \notin refetched
        => cache[j] = [n |-> runs[j].n, whole |-> TRUE]

\* As long as somebody goes on running `jobs`, a tracked job that the host has
\* a record of comes to be shown as settled:
\* jobs without a record, refused requests and other commands delay it, but
\* never hold it back for ever.
FinishedIsShown ==
    \A j \in Jobs :
        (Tended /\ IsTracked(ledger[j]) /\ view[j].done # "none")
            ~> (IsTerminal(ledger[j]) \/ ~IsTracked(ledger[j]))

=============================================================================

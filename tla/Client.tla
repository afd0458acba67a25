------------------------------- MODULE Client -------------------------------
(***************************************************************************)
(* The commands of awsqe-client that change something (client/cli.py) and  *)
(* the requests they send over SSH (shared/rpc_client.py, host/rpc.py).    *)
(***************************************************************************)
EXTENDS JobLookup

world == <<hostVars, clientVars, late, oldHost>>

Begin(c, kind) == cl[c].pc = "idle" /\ Spend(kind)

Goto(c, pc) == cl' = [cl EXCEPT ![c].pc = pc]

\* The process ends and its memory with it.
Quiet(c) ==
    /\ cl' = [cl EXCEPT ![c] = Idle]
    /\ ans' = [ans EXCEPT ![c] = Silence]
    /\ box' = [box EXCEPT ![c] = Empty]
    /\ seen' = [seen EXCEPT ![c] = [j \in Jobs |-> {}]]

Exit(c) == Quiet(c) /\ UNCHANGED <<world, ghostVars, budget>>

-----------------------------------------------------------------------------
(* submit, and submit --payload-glob: cmd_submit_remote, cmd_submit_batch. *)

\* The jobs of a list whose payload could be uploaded, in its order.
Uploads(ids) ==
    UNION {{[i \in 1..n |-> ids[at[i]]] :
               at \in {f \in [1..n -> DOMAIN ids] :
                         \A i, k \in 1..n : i < k => f[i] < f[k]}} :
           n \in 1..Len(ids)}

\* Fault: the ids whose upload failed keep their place in the list.
StartSubmitUnfiltered(c, ids) ==
    /\ Begin(c, IF Len(ids) = 1 THEN "submit" ELSE "batch")
    /\ \A i \in DOMAIN ids : ids[i] \notin minted
    /\ minted' = minted \cup {ids[i] : i \in DOMAIN ids}
    /\ \E uploaded \in Uploads(ids) :
          cl' = [cl EXCEPT ![c] = [Idle EXCEPT
                    !.cmd = "submit", !.pc = "post",
                    !.line = uploaded, !.ready = ids]]
    /\ UNCHANGED <<world, ans, box, seen, posted, told, removed, failedOnce,
                   excused, appended, refetched>>

\* New ids are minted, one per payload; a payload that cannot be uploaded is
\* left out, and with none left the command ends.
StartSubmit(c, ids) ==
    /\ Begin(c, IF Len(ids) = 1 THEN "submit" ELSE "batch")
    /\ \A i \in DOMAIN ids : ids[i] \notin minted
    /\ minted' = minted \cup {ids[i] : i \in DOMAIN ids}
    /\ \E uploaded \in Uploads(ids) :
          cl' = [cl EXCEPT ![c] = [Idle EXCEPT
                    !.cmd = "submit", !.pc = "post",
                    !.line = uploaded, !.ready = uploaded]]
    /\ UNCHANGED <<world, ans, box, seen, posted, told, removed, failedOnce,
                   excused, appended, refetched>>

\* What one request carries: the whole line up to the cap, or one job on a
\* host without enqueue_many.
Parcel(line) ==
    LET cap == IF oldHost THEN 1 ELSE MaxEnqueue
    IN  SubSeq(line, 1, IF Len(line) < cap THEN Len(line) ELSE cap)

InParcel(c) == {Parcel(cl[c].line)[i] : i \in DOMAIN Parcel(cl[c].line)}

Post(c) ==
    /\ cl[c].pc = "post" /\ cl[c].cmd = "submit"
    /\ posted' = [j \in Jobs |->
                     IF j \in InParcel(c) THEN posted[j] + 1 ELSE posted[j]]
    /\ cl' = [cl EXCEPT ![c].pc = "call", ![c].sent = InParcel(c),
                        ![c].rounds = @ + 1]
    /\ UNCHANGED <<world, ans, box, seen, minted, told, removed, failedOnce,
                   excused, appended, refetched,
                   budget>>

\* enqueue_item, enqueue_items: one write; nothing asks whether an id is new.
Enqueued(S) ==
    view' = [j \in Jobs |-> IF j \in S /\ view[j].at = "new"
                            THEN [view[j] EXCEPT !.at = "queue"] ELSE view[j]]

ServeEnqueue(c) ==
    /\ cl[c].pc = "call" /\ cl[c].cmd = "submit"
    /\ Enqueued(cl[c].sent)
    /\ Goto(c, "reply")
    /\ Watch
    /\ UNCHANGED <<runs, lastFail, logs, clientVars, ans, box, late, oldHost,
                   ghostVars, budget>>

\* Fault: what was sent stays in the line.
EnqueuedAnswerKeeping(c) ==
    /\ cl[c].pc = "reply" /\ cl[c].cmd = "submit"
    /\ LET results == cl[c].results \o Parcel(cl[c].line)
       IN  cl' = [cl EXCEPT
              ![c].results = results,
              ![c].sent = {},
              ![c].pc = IF cl[c].rounds < MaxRounds THEN "post" ELSE "lock"]
    /\ UNCHANGED <<world, ans, box, seen, ghostVars, budget>>

\* The answer names the accepted ids; what is over the cap is asked for again,
\* at most MaxRounds times.
EnqueuedAnswer(c) ==
    /\ cl[c].pc = "reply" /\ cl[c].cmd = "submit"
    /\ LET line    == cl[c].line
           parcel  == Parcel(line)
           rest    == SubSeq(line, Len(parcel) + 1, Len(line))
       IN  cl' = [cl EXCEPT
              ![c].results = @ \o parcel,
              ![c].line = rest,
              ![c].sent = {},
              ![c].pc = IF rest # <<>> /\ (oldHost \/ cl[c].rounds < MaxRounds)
                        THEN "post" ELSE "lock"]
    /\ UNCHANGED <<world, ans, box, seen, ghostVars, budget>>

-----------------------------------------------------------------------------
(* jobs and info: refresh_tracked_jobs, _job_info_batch, cmd_info.         *)

\* The ledger is read without its lock; settled jobs are not asked about.
StartJobs(c) ==
    /\ Begin(c, "jobs")
    /\ LET live == {j \in TrackedIn(ledger) : ~IsTerminal(ledger[j])}
       IN  /\ live # {}
           /\ cl' = [cl EXCEPT ![c] = [Idle EXCEPT
                        !.cmd = "jobs", !.pc = "post", !.asks = live]]
    /\ UNCHANGED <<world, ans, box, seen, ghostVars>>

\* One job, tracked or not, settled or not.
StartInfo(c, j) ==
    /\ Begin(c, "info")
    /\ posted[j] > 0
    /\ cl' = [cl EXCEPT ![c] = [Idle EXCEPT
                 !.cmd = "info", !.pc = "post", !.asks = {j}]]
    /\ UNCHANGED <<world, ans, box, seen, ghostVars>>

\* Fault: one job without a record discredits the whole answer.
WorthKeepingAll(c) ==
    /\ \E j \in Jobs : ans[c][j].status # "unasked"
    /\ \A j \in Jobs : ans[c][j].status # "none"

\* An answer that knows none of the jobs is a bad read.
WorthKeeping(c) == \E j \in Jobs : ans[c][j].status \notin {"unasked", "none"}

LookupEnds(c, rest) ==
    \/ /\ rest # {} /\ (oldHost \/ cl[c].rounds < MaxRounds)
       /\ cl' = [cl EXCEPT ![c].asks = rest, ![c].sent = {}, ![c].pc = "post"]
       /\ UNCHANGED <<world, ans, box, seen, ghostVars>>
    \/ /\ rest = {} \/ (~oldHost /\ cl[c].rounds >= MaxRounds)
       /\ \/ /\ WorthKeeping(c)
             /\ cl' = [cl EXCEPT ![c].asks = {}, ![c].sent = {}, ![c].pc = "lock"]
             /\ UNCHANGED <<world, ans, box, seen, ghostVars>>
          \/ /\ ~WorthKeeping(c)
             /\ Quiet(c)
             /\ UNCHANGED <<world, ghostVars>>

\* The ids over the cap are named, and asked for again.
LookedUp(c) ==
    /\ cl[c].pc = "reply" /\ cl[c].cmd \in {"jobs", "info"}
    /\ LookupEnds(c, cl[c].asks \ cl[c].sent)
    /\ UNCHANGED budget

\* One at a time, an error is taken for one job's answer (_job_info_one_by_one).
LookupRefused(c) ==
    /\ cl[c].pc \in Reading /\ cl[c].cmd = "jobs" /\ oldHost
    /\ Spend("refuse")
    /\ ans' = [ans EXCEPT ![c] =
                  [j \in Jobs |-> IF j \in cl[c].sent
                                  THEN Says("none", NoWorker, 0, 0) ELSE @[j]]]
    /\ Goto(c, "reply")
    /\ UNCHANGED <<world, box, seen, ghostVars>>

-----------------------------------------------------------------------------
(* qdel: cmd_qdel_remote.                                                  *)

StartQdel(c, S) ==
    /\ Begin(c, "qdel")
    /\ S # {} /\ \A j \in S : posted[j] > 0
    /\ cl' = [cl EXCEPT ![c] = [Idle EXCEPT
                 !.cmd = "qdel", !.pc = "call", !.sent = S]]
    /\ UNCHANGED <<world, ans, box, seen, ghostVars>>

Queued(S) == \A j \in S : view[j].at = "queue"

TakenOff(S) ==
    /\ view' = [j \in Jobs |-> IF j \in S THEN [view[j] EXCEPT !.at = "gone"]
                                          ELSE view[j]]
    /\ removed' = removed \cup S

\* Fault: an id that is not queued is skipped, and reported as removed.
ServeQdelSome(c) ==
    /\ cl[c].pc = "call" /\ cl[c].cmd = "qdel"
    /\ TakenOff({j \in cl[c].sent : view[j].at = "queue"})
    /\ Goto(c, "lock")
    /\ Watch
    /\ UNCHANGED <<runs, lastFail, logs, clientVars, ans, box, late, oldHost,
                   minted, posted, told, failedOnce, excused, appended,
                   refetched, budget>>

\* All or nothing: an id that is not queued fails the call.
ServeQdel(c) ==
    /\ cl[c].pc = "call" /\ cl[c].cmd = "qdel"
    /\ Queued(cl[c].sent)
    /\ TakenOff(cl[c].sent)
    /\ Goto(c, "reply")
    /\ Watch
    /\ UNCHANGED <<runs, lastFail, logs, clientVars, ans, box, late, oldHost,
                   minted, posted, told, failedOnce, excused, appended,
                   refetched, budget>>

QdelNotFound(c) ==
    /\ cl[c].pc = "call" /\ cl[c].cmd = "qdel"
    /\ ~Queued(cl[c].sent)
    /\ Exit(c)

QdelAnswer(c) ==
    /\ cl[c].pc = "reply" /\ cl[c].cmd = "qdel"
    /\ Goto(c, "lock")
    /\ UNCHANGED <<world, ans, box, seen, ghostVars, budget>>

-----------------------------------------------------------------------------
(* Requests that fail.                                                     *)

\* The host answers with an error, before it has changed anything.
Refused(c) ==
    /\ \/ cl[c].pc = "call"
       \/ cl[c].pc \in Reading /\ ~(cl[c].cmd = "jobs" /\ oldHost)
    /\ Spend("refuse")
    /\ Quiet(c)
    /\ UNCHANGED <<world, ghostVars>>

\* SSH fails or takes too long: the command reports it and ends.  The request
\* may have been lost, its answer may be, or the host carries it out later.
GiveUp(c) ==
    /\ cl[c].pc \in {"call", "reply"} \cup Reading
    /\ Spend("give_up")
    /\ \/ UNCHANGED late
       \/ /\ cl[c].pc = "call"
          /\ late' = late \cup
                {[op |-> IF cl[c].cmd = "submit" THEN "enqueue" ELSE "qdel",
                  jobs |-> cl[c].sent]}
    /\ Quiet(c)
    /\ UNCHANGED <<hostVars, clientVars, oldHost, ghostVars>>

ServeLate(r) ==
    /\ r \in late
    /\ late' = late \ {r}
    /\ \/ /\ r.op = "enqueue"
          /\ Enqueued(r.jobs)
          /\ UNCHANGED removed
       \/ /\ r.op = "qdel" /\ Queued(r.jobs)
          /\ TakenOff(r.jobs)
       \/ /\ r.op = "qdel" /\ ~Queued(r.jobs)
          /\ UNCHANGED <<view, removed>>
    /\ Watch
    /\ UNCHANGED <<runs, lastFail, logs, clientVars, cl, ans, box, oldHost,
                   minted, posted, told, failedOnce, excused, appended,
                   refetched, budget>>

-----------------------------------------------------------------------------
(* forget and the log cache: _forget_tracked_jobs, fetch_tracked_logs.     *)

StartForget(c, j) ==
    /\ Begin(c, "forget")
    /\ IsTracked(ledger[j])
    /\ cl' = [cl EXCEPT ![c] = [Idle EXCEPT
                 !.cmd = "forget", !.pc = "lock", !.sent = {j}]]
    /\ UNCHANGED <<world, ans, box, seen, ghostVars>>

Fetches(c, j) == cl[c].cmd = "fetch" /\ j \in cl[c].sent

\* The record vouches for a copy of the log as j's latest launch left it; the
\* copy was deleted, or a late answer took the record back.
FinalKey(j) == [host |-> runs[j].host, time |-> 2 * runs[j].n]
Vouched(j) == ledger[j].logFor = FinalKey(j)

StartFetch(c, j) ==
    /\ Begin(c, "fetch")
    /\ IsTracked(ledger[j])
    /\ ShouldFetch(ledger[j], cache[j].n # 0)
    /\ cl' = [cl EXCEPT ![c] = [Idle EXCEPT
                 !.cmd = "fetch", !.pc = "copy", !.sent = {j},
                 !.snap = [Empty EXCEPT ![j] = ledger[j]]]]
    /\ refetched' = IF (\E d \in Clients : Fetches(d, j)) \/ Vouched(j)
                    THEN refetched \cup {j} ELSE refetched
    /\ UNCHANGED <<world, ans, box, seen, minted, posted, told, removed,
                   failedOnce, excused, appended>>

copyRest == <<hostVars, ledger, lock, late, oldHost, ans, box, seen, ghostVars>>

\* scp finds no log, or begins to overwrite the cached copy.
CopyStarts(c) ==
    /\ cl[c].pc = "copy"
    /\ \E j \in cl[c].sent :
          LET n == logs[<<cl[c].snap[j].host, j>>]
          IN  \/ /\ n = 0
                 /\ Goto(c, "lock")
                 /\ UNCHANGED cache
              \/ /\ n # 0
                 /\ cl' = [cl EXCEPT ![c].pc = "copying", ![c].got = n]
                 /\ cache' = [cache EXCEPT ![j] = [n |-> n, whole |-> FALSE]]
    /\ UNCHANGED <<copyRest, budget>>

\* The log of launch n on w can still grow, or a later launch truncated it.
\* (A file deleted under scp is copied to its end.)
Unsettled(j, w, n) ==
    \/ n = runs[j].n /\ view[j].at \in {"hand", "running"}
    \/ n < logs[<<w, j>>]

CopyEnds(c) ==
    /\ cl[c].pc = "copying"
    /\ \E j \in cl[c].sent, whole \in BOOLEAN :
          /\ whole \/ Unsettled(j, cl[c].snap[j].host, cl[c].got)
          /\ cache' = [cache EXCEPT ![j] = [n |-> cl[c].got, whole |-> whole]]
    /\ Goto(c, "lock")
    /\ UNCHANGED <<copyRest, budget>>

\* A worker that cannot be reached, or a copy that times out: a warning.
CopyFails(c) ==
    /\ cl[c].pc \in {"copy", "copying"}
    /\ Spend("give_up")
    /\ Goto(c, "tidy")
    /\ UNCHANGED <<copyRest, cache>>

\* forget_logs deletes the cached log; prune_log_cache the oldest ones, when
\* they are over its budget of bytes.
Tidy(c) ==
    /\ cl[c].pc = "tidy"
    /\ \/ cl[c].cmd = "forget"
          /\ cache' = [j \in Jobs |-> IF j \in cl[c].sent THEN NoCopy ELSE cache[j]]
       \/ cl[c].cmd = "fetch"
          /\ \E S \in SUBSET Jobs :
                cache' = [j \in Jobs |-> IF j \in S THEN NoCopy ELSE cache[j]]
    /\ Quiet(c)
    /\ UNCHANGED <<hostVars, ledger, lock, late, oldHost, ghostVars, budget>>

-----------------------------------------------------------------------------
(* The ledger's read-modify-write (_locked, _mutating).                    *)

\* Fault: nothing is locked.
LockNothing(c) ==
    /\ cl[c].pc = "lock"
    /\ box' = [box EXCEPT ![c] = ledger]
    /\ Goto(c, "write")
    /\ UNCHANGED <<world, ans, seen, ghostVars, budget>>

Lock(c) ==
    /\ cl[c].pc = "lock"
    /\ lock = NoClient
    /\ lock' = c
    /\ box' = [box EXCEPT ![c] = ledger]
    /\ Goto(c, "write")
    /\ UNCHANGED <<hostVars, ledger, cache, late, oldHost, ans, seen, ghostVars,
                   budget>>

\* What the command makes of the records it read.
Change(c) ==
    LET l == box[c]
        k == cl[c]
    IN  CASE k.cmd = "submit" -> Recorded(l, k.results, k.ready, appended)
          [] k.cmd \in {"jobs", "info"} -> Applied(l, ans[c])
          [] k.cmd = "qdel" -> Marked(l, k.sent)
          [] k.cmd = "forget" -> Without(l, k.sent)
          [] k.cmd = "fetch" ->
                LET j == CHOOSE x \in k.sent : TRUE
                IN  LogNoted(l, j, k.got # 0, CacheKey(k.snap[j]))
          [] OTHER -> l

Accepted(c) == {cl[c].results[i] : i \in DOMAIN cl[c].results}

Reported(c) == told' = IF cl[c].cmd = "submit" THEN told \cup Accepted(c) ELSE told

ToTidy(c) ==
    /\ Goto(c, "tidy")
    /\ box' = [box EXCEPT ![c] = Empty]
    /\ UNCHANGED <<ans, seen>>

Unlock(c) == lock' = IF lock = c THEN NoClient ELSE lock

\* Written only when something changed.
Write(c) ==
    /\ cl[c].pc = "write"
    /\ \/ /\ Change(c) = box[c]
          /\ UNCHANGED <<ledger, excused>>
       \/ /\ Change(c) # box[c]
          /\ ledger' = Pruned(Change(c))
          /\ excused' = excused \cup OverCap(Change(c))
                \cup (IF cl[c].cmd = "forget" THEN cl[c].sent ELSE {})
    /\ appended' = IF cl[c].cmd = "submit"
                   THEN appended + Len(cl[c].results) ELSE appended
    /\ Reported(c)
    /\ Unlock(c)
    /\ IF cl[c].cmd \in {"forget", "fetch"} THEN ToTidy(c) ELSE Quiet(c)
    /\ UNCHANGED <<hostVars, cache, late, oldHost, minted, posted, removed,
                   failedOnce, refetched, budget>>

\* An OSError: a submit warns and carries on, its jobs being on the host; so
\* does a fetch.
WriteFails(c) ==
    /\ cl[c].pc = "write"
    /\ Spend("write_fails")
    /\ excused' = IF cl[c].cmd = "submit" THEN excused \cup Accepted(c) ELSE excused
    /\ Reported(c)
    /\ Unlock(c)
    /\ IF cl[c].cmd = "fetch" THEN ToTidy(c) ELSE Quiet(c)
    /\ UNCHANGED <<hostVars, ledger, cache, late, oldHost, minted, posted,
                   removed, failedOnce, appended, refetched>>

\* The process is killed: the kernel drops its lock.
Die(c) ==
    /\ cl[c].pc # "idle"
    /\ Spend("die")
    /\ Unlock(c)
    /\ \/ UNCHANGED late
       \/ /\ cl[c].pc = "call"
          /\ late' = late \cup
                {[op |-> IF cl[c].cmd = "submit" THEN "enqueue" ELSE "qdel",
                  jobs |-> cl[c].sent]}
    /\ Quiet(c)
    /\ UNCHANGED <<hostVars, ledger, cache, oldHost, ghostVars>>

=============================================================================

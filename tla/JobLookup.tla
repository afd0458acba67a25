------------------------------ MODULE JobLookup -----------------------------
(***************************************************************************)
(* A lookup of job ids on the queue host (shared/job_lookup.py, the        *)
(* handlers job_info and job_info_batch): queue.json, running.json,        *)
(* completed.json and failed.json are read one after the other, without    *)
(* the state lock, while the host goes on moving jobs between them.        *)
(***************************************************************************)
EXTENDS ClientState

Reading == {"read_queue", "read_running", "read_completed", "read_failed"}

Says(status, host, started, finished) ==
    [status |-> status, host |-> host, started |-> started,
     finished |-> finished]

Found(j, file) ==
    CASE file = "queue"     -> view[j].at = "queue"
      [] file = "running"   -> view[j].at = "running"
      [] file = "completed" -> view[j].done # "none"
      [] file = "failed"    -> view[j].fail

\* _queued_state, _running_state, _finished_state.
Account(j, file) ==
    LET n == runs[j].n
        m == lastFail[j].n
    IN  CASE file = "queue" -> Says("queued", NoWorker, 0, 0)
          [] file = "running" ->
                Says("running", runs[j].host, 2 * n - 1, 0)
          [] file = "completed" ->
                Says(view[j].done, runs[j].host, 2 * n - 1, 2 * n)
          [] file = "failed" ->
                Says("failed", lastFail[j].host, 2 * m - 1, 2 * m)

\* Where the host sees the jobs that a lookup in progress is about.
Watched(c, v) ==
    [j \in Jobs |-> IF cl[c].pc \in Reading /\ j \in cl[c].sent
                    THEN seen[c][j] \cup {Sighting(v[j])} ELSE seen[c][j]]

Watch == seen' = [c \in Clients |-> Watched(c, view')]

\* Fault: a later file overrides an earlier one.
ReadAll(c, file, next) ==
    /\ ans' = [ans EXCEPT ![c] =
                  [j \in Jobs |-> IF j \in cl[c].sent /\ Found(j, file)
                                  THEN Account(j, file) ELSE @[j]]]
    /\ cl' = [cl EXCEPT ![c].pc = next]
    /\ UNCHANGED <<hostVars, clientVars, box, late, oldHost, seen, ghostVars,
                   budget>>

\* One file is read: it accounts for the ids no earlier file accounted for.
\* (A record of completion is newer than any failure of the same job.)
Read(c, file, next) ==
    /\ ans' = [ans EXCEPT ![c] =
                  [j \in Jobs |->
                      IF j \in cl[c].sent /\ @[j].status = "none" /\ Found(j, file)
                      THEN Account(j, file) ELSE @[j]]]
    /\ cl' = [cl EXCEPT ![c].pc = next]
    /\ UNCHANGED <<hostVars, clientVars, box, late, oldHost, seen, ghostVars,
                   budget>>

ReadQueue(c) ==
    cl[c].pc = "read_queue" /\ Read(c, "queue", "read_running")
ReadRunning(c) ==
    cl[c].pc = "read_running" /\ Read(c, "running", "read_completed")
ReadCompleted(c) ==
    cl[c].pc = "read_completed" /\ Read(c, "completed", "read_failed")
ReadFailed(c) ==
    cl[c].pc = "read_failed" /\ Read(c, "failed", "reply")

Lookup(c) ==
    ReadQueue(c) \/ ReadRunning(c) \/ ReadCompleted(c) \/ ReadFailed(c)

\* At most MaxInfo of the ids still to be asked, one by one on a host without
\* job_info_batch; the host answers for each of them, with "none" to begin
\* with.
Ask(c) ==
    /\ cl[c].pc = "post" /\ cl[c].cmd \in {"jobs", "info"}
    /\ \E S \in SUBSET cl[c].asks :
          /\ Cardinality(S) = LET cap == IF oldHost THEN 1 ELSE MaxInfo
                                  all == Cardinality(cl[c].asks)
                              IN  IF all < cap THEN all ELSE cap
          /\ cl' = [cl EXCEPT ![c].pc = "read_queue", ![c].sent = S,
                              ![c].rounds = @ + 1]
          /\ ans' = [ans EXCEPT ![c] =
                        [j \in Jobs |-> IF j \in S THEN Says("none", NoWorker, 0, 0)
                                                   ELSE @[j]]]
          /\ seen' = [seen EXCEPT ![c] =
                         [j \in Jobs |-> IF j \in S THEN {Sighting(view[j])}
                                                    ELSE @[j]]]
    /\ UNCHANGED <<hostVars, clientVars, box, late, oldHost, ghostVars, budget>>

=============================================================================

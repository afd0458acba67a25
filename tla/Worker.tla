------------------------------- MODULE Worker -------------------------------
(***************************************************************************)
(* A worker host: no program of ours runs there, only what the queue host  *)
(* sends over SSH.  The launch script and the exit-status wrapper are in   *)
(* host/job_control.py, the probes in shared/host_status.py, the kill      *)
(* script in shared/worker_actions.py.                                     *)
(***************************************************************************)
EXTENDS HostState

\* A new attempt of j makes what earlier attempts recorded old.
Attempt(j) == current' = {p \in current : p[2] # j}

\* The pidfiles left when those of S are removed.
Without(left, S) == Keeping(left, {i \in DOMAIN left : left[i] \notin S})

\* Fault: no `rm -f` of the exit status an earlier attempt left.
ScriptRunsKeepingStatus(h, j) ==
    /\ procs' = [procs EXCEPT ![h] = @ \cup {j}]
    /\ \E left \in Without(pids[h], {j}) :
          pids' = [pids EXCEPT ![h] = Append(left, j)]
    /\ rc' = rc

\* LAUNCH_SCRIPT_TEMPLATE and EXIT_STATUS_WRAPPER_TEMPLATE ran: what an
\* earlier attempt of j left here is gone and a process holds j's pidfile.
ScriptRuns(h, j) ==
    /\ procs' = [procs EXCEPT ![h] = @ \cup {j}]
    /\ \E left \in Without(pids[h], {j}) :
          pids' = [pids EXCEPT ![h] = Append(left, j)]
    /\ rc' = [rc EXCEPT ![h] = {e \in @ : e.job # j}]

\* check_host_for_tag: the argument list of a launched job no longer shows
\* MANAGER_TAG, so the newest pidfile decides.
Busy(h) == pids[h] # <<>> /\ pids[h][Len(pids[h])] \in procs[h]

HasPidfile(h, j) == j \in {pids[h][i] : i \in DOMAIN pids[h]}

\* kill_managed_on_host: everything alive dies, its pidfiles go, and some of
\* it lives long enough to record the signal as its exit status.
Killed(h) ==
    \E recorded \in SUBSET procs[h] :
        /\ procs' = [procs EXCEPT ![h] = {}]
        /\ \E left \in Without(pids[h], procs[h]) :
              pids' = [pids EXCEPT ![h] = left]
        /\ rc' = [rc EXCEPT ![h] =
                    {e \in @ : e.job \notin recorded}
                      \cup [job : recorded, ok : {FALSE}]]
        /\ current' = current \cup ({h} \X recorded)

-----------------------------------------------------------------------------
\* The job's command ends and the EXIT trap records its status.
JobEnds(h, j) ==
    /\ j \in procs[h]
    /\ procs' = [procs EXCEPT ![h] = @ \ {j}]
    /\ \E ok \in BOOLEAN :
          rc' = [rc EXCEPT ![h] = {e \in @ : e.job # j}
                                    \cup {[job |-> j, ok |-> ok]}]
    /\ current' = current \cup {<<h, j>>}
    /\ UNCHANGED <<files, pids, staged, memory, commands, submitted, withdrawn,
                   dropped, evicted, bounds>>

\* The host reboots: its processes are gone and recorded nothing.
Reboot(h) ==
    /\ procs[h] # {}
    /\ Fault({"reboot"})
    /\ procs' = [procs EXCEPT ![h] = {}]
    /\ UNCHANGED <<files, pids, rc, staged, memory, commands, ghosts, ops>>

WorkerStep ==
    \/ \E h \in Hosts, j \in Jobs : JobEnds(h, j)
    \/ \E h \in Hosts : Reboot(h)

=============================================================================

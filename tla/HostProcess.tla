----------------------------- MODULE HostProcess ----------------------------
(***************************************************************************)
(* Starting, running, stopping and killing monitors (host/cli.py,          *)
(* monitor.lock, the pidfile) and the queue configuration that the loop    *)
(* reads anew in each cycle (QueueConfigSource).                           *)
(***************************************************************************)
EXTENDS MonitorAlerts

processRest == <<files, others, had, spoiled, got, summaries, budget>>

-----------------------------------------------------------------------------
(* cmd_monitor.                                                            *)

\* read_pidfile and pid_is_running; an empty pidfile names nobody.
CheckPid(p) ==
    /\ At(p, "check_pid")
    /\ Goto(p, IF Alive(pidfile) THEN "off" ELSE "unlink")
    /\ UNCHANGED <<shared, processRest>>

\* remove_pidfile, whatever the pidfile says by now.
Unlink(p) ==
    /\ At(p, "unlink")
    /\ pidfile' = NoProc
    /\ Goto(p, "lock")
    /\ UNCHANGED <<lock, config, processRest>>

\* Fault: the pidfile alone keeps monitors apart.
LockUnchecked(p) ==
    /\ At(p, "lock")
    /\ lock' = p
    /\ Goto(p, "pid_open")
    /\ UNCHANGED <<pidfile, config, processRest>>

\* acquire_monitor_lock: non-blocking.
Lock(p) ==
    /\ At(p, "lock")
    /\ \/ lock = NoProc /\ lock' = p /\ Goto(p, "pid_open")
       \/ lock # NoProc /\ UNCHANGED lock /\ Goto(p, "off")
    /\ UNCHANGED <<pidfile, config, processRest>>

\* write_pidfile; another starter may remove the file in between.
PidOpens(p) ==
    /\ At(p, "pid_open")
    /\ pidfile' = Unwritten
    /\ Goto(p, "pid_write")
    /\ UNCHANGED <<lock, config, processRest>>

PidWrites(p) ==
    /\ At(p, "pid_write")
    /\ pidfile' = IF pidfile = Unwritten THEN p ELSE pidfile
    /\ Goto(p, "load_config")
    /\ UNCHANGED <<lock, config, processRest>>

\* The finally clause: remove_pidfile, release_monitor_lock.
Cleans(p) ==
    /\ At(p, "clean")
    /\ pidfile' = NoProc
    /\ Goto(p, "unlock")
    /\ UNCHANGED <<lock, config, processRest>>

Unlocks(p) ==
    /\ At(p, "unlock")
    /\ lock' = NoProc
    /\ Goto(p, "off")
    /\ UNCHANGED <<pidfile, config, processRest>>

-----------------------------------------------------------------------------
(* The queue configuration.                                                *)

\* Fault: the file's size alone.
StampOfSize == IF config.holds = "absent" THEN 0 ELSE 1 + (config.ver % 2)

\* _compute_file_stamp: time of modification and size.
Stamp == IF config.holds = "absent" THEN 0 ELSE config.ver

\* refresh(force=True): a missing file leaves the monitor without hosts; one
\* that cannot be parsed, or is gone when it is opened, ends it.
LoadConfig(p) ==
    /\ At(p, "load_config")
    /\ \/ /\ config.holds # "bad"
          /\ proc' = [proc EXCEPT
                ![p].pc = "load_day",
                ![p].map = IF config.holds = "good" THEN config.ver ELSE 0,
                ![p].mark = Stamp]
       \/ /\ config.holds # "good"
          /\ Goto(p, "clean")
    /\ UNCHANGED <<shared, processRest>>

\* The top of the loop: stop_event, then the file's stamp.
Stat(p) ==
    /\ At(p, "loop")
    /\ \/ /\ p \in stopped
          /\ Goto(p, "clean")
       \/ /\ p \notin stopped
          /\ \/ /\ Stamp \in {0, proc[p].mark}
                /\ proc' = [proc EXCEPT ![p].mark = Stamp, ![p].pc = "fails"]
             \/ /\ Stamp \notin {0, proc[p].mark}
                /\ proc' = [proc EXCEPT ![p].stat = Stamp, ![p].pc = "read"]
    /\ UNCHANGED <<shared, processRest>>

\* What is read may be newer than the stamp; what cannot be read changes
\* nothing, until the file does.
Read(p) ==
    /\ At(p, "read")
    /\ proc' = [proc EXCEPT
          ![p].pc = "fails",
          ![p].mark = proc[p].stat,
          ![p].stat = 0,
          ![p].map = IF config.holds = "good" THEN config.ver ELSE @]
    /\ UNCHANGED <<shared, processRest>>

\* The operator saves the file, damages it, or takes it away.
EditConfig ==
    /\ Spend("edit")
    /\ \E holds \in {"good", "bad", "absent"} :
          config' = [ver |-> config.ver + 1, holds |-> holds]
    /\ UNCHANGED <<files, lock, pidfile, proc, others, had, spoiled, got, summaries>>

-----------------------------------------------------------------------------
(* How monitors end.                                                       *)

\* cmd_stop_monitor: the pid is read, then signalled or, when it is dead, the
\* pidfile removed.
StopReads ==
    /\ Spend("stop")
    /\ stopper = NoProc
    /\ stopper' = IF pidfile \in Procs THEN pidfile ELSE NoProc
    /\ UNCHANGED <<files, shared, proc, stopped, update, qlen, today, had,
                   spoiled, got, summaries>>

StopActs ==
    /\ stopper # NoProc
    /\ \/ Alive(stopper) /\ stopped' = stopped \cup {stopper} /\ UNCHANGED pidfile
       \/ ~Alive(stopper) /\ pidfile' = NoProc /\ UNCHANGED stopped
    /\ stopper' = NoProc
    /\ UNCHANGED <<files, lock, config, proc, update, qlen, today, had, spoiled,
                   got, summaries, budget>>

\* p has mailed today's summary and ends before the date is in the file.
Unsaved(p) == proc[p].pc \in {"day_load", "day_save"} /\ got[p].summaries > 0

\* An exception in the loop ends it, and the process in good order.
LoopFails(p) ==
    /\ proc[p].pc \in CycleSteps
    /\ Spend("error")
    /\ Goto(p, "clean")
    /\ summaries' = Undated(Unsaved(p))
    /\ UNCHANGED <<files, shared, others, had, spoiled, got>>

\* The process is killed: the kernel drops its lock, the pidfile stays, and a
\* copy that it was making stays as it is.
Die(p) ==
    /\ Alive(p)
    /\ Spend("kill")
    /\ Goto(p, "off")
    /\ lock' = IF lock = p THEN NoProc ELSE lock
    /\ open' = open \ {p}
    /\ summaries' = Undated(Unsaved(p))
    /\ spoiled' = IF At(p, "copying") THEN spoiled \cup (had \cap {Current(p)})
                                      ELSE spoiled
    /\ UNCHANGED <<legacy, backup, file, pidfile, config, others, had, got>>

-----------------------------------------------------------------------------
Goes(p) ==
    \/ Migrates(p)
    \/ CheckPid(p) \/ Unlink(p) \/ Lock(p) \/ PidOpens(p) \/ PidWrites(p)
    \/ LoadConfig(p) \/ Stat(p) \/ Read(p) \/ Alerts(p)
    \/ Cleans(p) \/ Unlocks(p)

Happens ==
    \/ EditConfig \/ StopReads \/ StopActs \/ UpdateSaves
    \/ \E f \in Files : UpdateLoads(f)
    \/ QueueChanges \/ NewDay

Next ==
    \/ \E p \in Procs :
          \/ \E role \in {"monitor", "migrate"} : StartMigration(p, role)
          \/ Goes(p) \/ LoopFails(p) \/ Die(p) \/ CoolingEnds(p)
    \/ Happens

Spec == Init /\ [][Next]_vars

\* A process that was started is scheduled.
Fairness == \A p \in Procs : WF_vars(Goes(p))

FairSpec == Spec /\ Fairness

-----------------------------------------------------------------------------
Looping(p) == proc[p].pc \in CycleSteps

\* One monitor runs its loop at a time, however starts, stops and crashes
\* fall together; and while it does, the pidfile never names another process,
\* so that a stop command signals the right one or none.  (It may name nobody:
\* a second starter, or a stop command, can have removed it.)
LoopIsAlone ==
    \A p \in Procs : Looping(p) =>
        /\ \A q \in Procs \ {p} : ~Looping(q)
        /\ pidfile \in {p, NoProc}

\* The records of a legacy file are always in that file or in its backup, and
\* a monitor works from a new file that has them, also when an earlier start
\* was killed half-way; unless somebody interfered with the migration of that
\* file: it was killed during the copy, another process migrated at the same
\* time, or a command wrote the new file from what it held before.
UpgradeKeepsRecords ==
    /\ had \subseteq legacy \cup backup
    /\ \A p \in Procs : Looping(p) =>
          \A f \in had \ spoiled : file[f].kind = "records"

\* When the configuration file is good and left alone, a running monitor comes
\* to use that version, although stamp and contents are read one after the
\* other and damaged or missing files are passed over.
ConfigCatchesUp ==
    \A p \in Procs :
        (Looping(p) /\ config.holds = "good")
            ~> (proc[p].map = config.ver \/ ~Looping(p) \/ config.holds # "good")

\* One run of a monitor sends at most Limit mails a day, one summary among
\* them; at most one job-failure mail per cooldown, and one more for each
\* midnight in it, which ends the cooldown early; and at most one mail that the
\* queue is low and one that it is empty until it has seen the queue recover.
\* (The counts, latches and the cooldown are in memory only: the next monitor
\* begins them anew, so that nothing of this is promised across a restart, nor
\* a limit for the mails of several monitors in a day.)
AlertsAreRationed ==
    \A p \in Procs :
        /\ got[p].today <= Limit
        /\ got[p].summaries <= 1 /\ got[p].fails <= 1 + got[p].nights
        /\ got[p].low <= 1 /\ got[p].empty <= 1

\* However many monitors a day sees, they send one summary together: the date
\* of the last one is in monitor_state.json, where a restarted monitor finds
\* it.  One more goes out at most for each time that date is lost: a monitor
\* ended between its mail and saving the date, or somebody who had loaded
\* monitor_state.json before wrote it back without it.
OneSummaryADay == summaries.mailed <= 1 + summaries.undated

=============================================================================

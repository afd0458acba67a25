---------------------------- MODULE ProcessState ----------------------------
(***************************************************************************)
(* The processes of awsqe-host on a queue host: monitors being started,    *)
(* running and ending, the migrate command, and what they share besides    *)
(* the jobs: the lock file, the pidfile, the legacy state files and their  *)
(* successors, the queue configuration.  Migration, MonitorAlerts and      *)
(* HostProcess give the steps.                                             *)
(***************************************************************************)
EXTENDS Naturals, Sequences, FiniteSets

CONSTANTS
    Procs,       \* pids, given in order; none is reused
    NoProc,
    Unwritten,   \* a pidfile that is open and still empty
    Files,       \* state files that had a legacy path
    Pairs,       \* ... in the order of _migration_pairs
    Limit,       \* ALERT_DAILY_EMAIL_LIMIT
    Healthy,     \* the queue length from which the queue is not low
    Budgets      \* bound: how often each thing happens

Kinds == {"legacy", "start", "migrate", "kill", "error", "stop", "edit",
          "update", "queue", "failures", "day"}

ASSUME ProcessAssumption ==
    /\ Procs \subseteq Nat
    /\ NoProc \notin Procs /\ Unwritten \notin Procs /\ NoProc # Unwritten
    /\ Pairs \in Seq(Files)
    /\ Len(Pairs) > 0
    /\ \A f \in Files : \E i \in 1..Len(Pairs) : Pairs[i] = f
    /\ Limit \in Nat /\ Healthy \in Nat
    /\ Budgets \subseteq [Kinds -> Nat]

VARIABLES
    legacy,    \* the legacy files that are there
    backup,    \* those renamed to *.migrated.bak
    file,      \* what each new file holds
    open,      \* processes whose copy goes to the file now at its path
    lock,      \* the process that holds monitor.lock
    pidfile,
    config,    \* the queue configuration file: its version and what it holds
    proc,      \* control state and memory of each process
    stopped,   \* processes that were sent SIGTERM
    stopper,   \* the pid a stop command has read
    update,    \* a locked load-modify-save of a state file by a command
    qlen,      \* entries in queue.json
    today,
    (* bookkeeping that no code keeps *)
    had,       \* the legacy files there were
    spoiled,   \* those whose migration somebody interfered with
    got,       \* the mails each monitor has sent
    summaries, \* today's, by all monitors
    budget

files == <<legacy, backup, file, open>>
shared == <<lock, pidfile, config>>
others == <<stopped, stopper, update, qlen, today>>
vars == <<files, shared, proc, others, had, spoiled, got, summaries, budget>>

MonitorState == Pairs[Len(Pairs)]

\* records: the legacy records are among what the file holds; other: they are
\* not; torn: not readable.  stamped, day: the fields migrated_at and
\* last_daily_summary_date of monitor_state.json.
Content == [kind : {"absent", "torn", "records", "other"},
            stamped : BOOLEAN, day : Nat]
Absent  == [kind |-> "absent", stamped |-> FALSE, day |-> 0]
Torn    == [Absent EXCEPT !.kind = "torn"]
Records == [Absent EXCEPT !.kind = "records"]

MigrationSteps == {"examine", "copy", "copying", "rename", "stamp_load",
                   "stamp_save"}
StartSteps == {"check_pid", "unlink", "lock"}
\* With monitor.lock held.
CycleSteps == {"day_load", "day_save", "loop", "read", "fails", "low", "empty",
               "summary"}
OwnSteps == {"load_config", "load_day"} \cup CycleSteps \cup {"clean"}
Steps == {"new"} \cup MigrationSteps \cup StartSteps
            \cup {"pid_open", "pid_write"} \cup OwnSteps \cup {"unlock", "off"}

Holding == {"pid_open", "pid_write", "unlock"} \cup OwnSteps

\* day: of the daily counters; sent: mails counted today; cooling: job-failure
\* mails are suppressed; low, empty: the latches; last: the day of the last
\* summary; len: the queue length the cycle works with.
Memory == [day : Nat, sent : Nat, cooling : BOOLEAN, low : BOOLEAN,
           empty : BOOLEAN, last : Nat, len : Nat]

\* at: the pair being migrated; memo: a state file as loaded; map: the version
\* of the configuration in use (0: none); mark: that of the file when it was
\* last looked at; stat: when it was looked at just now.
Process == [pc : Steps, role : {"monitor", "migrate"}, at : Nat, memo : Content,
            map : Nat, mark : Nat, stat : Nat, mem : Memory]

NotStarted ==
    [pc |-> "new", role |-> "monitor", at |-> 1, memo |-> Absent, map |-> 0,
     mark |-> 0, stat |-> 0,
     mem |-> [day |-> 0, sent |-> 0, cooling |-> FALSE, low |-> FALSE,
              empty |-> FALSE, last |-> 0, len |-> 0]]

NoUpdate == [file |-> MonitorState, memo |-> Absent, on |-> FALSE]

\* today, summaries: mails of the day; fails: about failed jobs, since a whole
\* cooldown last passed without one; nights: midnights since the first of them;
\* hosts: about benched hosts; low, empty: since the queue was last seen healthy.
Accounts == {"today", "summaries", "fails", "nights", "hosts", "low", "empty"}
Mails == [Accounts -> Nat]
NoMails == [kind \in Accounts |-> 0]

\* mailed: summaries that went out; undated: how often it happened that
\* monitor_state.json did not get, or no longer has, today's date.
Summaries == [mailed : Nat, undated : Nat]
NoSummaries == [mailed |-> 0, undated |-> 0]

TypeOK ==
    /\ legacy \subseteq Files /\ backup \subseteq Files
    /\ file \in [Files -> Content]
    /\ open \subseteq Procs
    /\ lock \in Procs \cup {NoProc}
    /\ pidfile \in Procs \cup {NoProc, Unwritten}
    /\ config \in [ver : Nat, holds : {"good", "bad", "absent"}]
    /\ proc \in [Procs -> Process]
    /\ stopped \subseteq Procs
    /\ stopper \in Procs \cup {NoProc, Unwritten}
    /\ update \in [file : Files, memo : Content, on : BOOLEAN]
    /\ qlen \in Nat /\ today \in Nat
    /\ had \subseteq Files /\ spoiled \subseteq Files
    /\ got \in [Procs -> Mails]
    /\ summaries \in Summaries
    /\ budget \in [Kinds -> Nat]

Init ==
    /\ budget \in Budgets
    /\ had = IF budget["legacy"] > 0 THEN Files ELSE {}
    /\ legacy = had /\ backup = {}
    /\ file = [f \in Files |-> Absent]
    /\ open = {}
    /\ lock = NoProc /\ pidfile = NoProc
    /\ config = [ver |-> 1, holds |-> "good"]
    /\ proc = [p \in Procs |-> NotStarted]
    /\ stopped = {} /\ stopper = NoProc
    /\ update = NoUpdate
    /\ qlen = Healthy /\ today = 1
    /\ spoiled = {}
    /\ got = [p \in Procs |-> NoMails]
    /\ summaries = NoSummaries

Spend(kind) ==
    /\ budget[kind] > 0
    /\ budget' = [budget EXCEPT ![kind] = @ - 1]

At(p, pc) == proc[p].pc = pc
Goto(p, pc) == proc' = [proc EXCEPT ![p].pc = pc]
Alive(p) == p \in Procs /\ proc[p].pc \notin {"new", "off"}

Undated(lost) == IF lost THEN [summaries EXCEPT !.undated = @ + 1] ELSE summaries

Put(f, content) ==
    /\ file' = [file EXCEPT ![f] = content]
    /\ summaries' = Undated(f = MonitorState /\ file[f].day = today
                                            /\ content.day # today)

\* An atomic write replaces the file under the copies that go to it.
Save(f, content) ==
    /\ Put(f, content)
    /\ open' = {p \in open : Pairs[proc[p].at] # f}

\* What a load-modify-save leaves of what it loaded: the records it could
\* read, and the fields it does not know.
Resaved(content) ==
    IF content.kind = "records" THEN content ELSE [content EXCEPT !.kind = "other"]

=============================================================================

---------------------------- MODULE MonitorAlerts ---------------------------
(***************************************************************************)
(* The mails of a monitor's cycle (host/monitor.py): failed jobs, a queue  *)
(* that runs low or empty, the daily summary, under a daily limit.         *)
(***************************************************************************)
EXTENDS Migration

alertsRest == <<legacy, backup, shared, others, had, spoiled>>

\* _reset_daily_alert_state_if_needed.
NewDaySeen(m) ==
    IF m.day = today THEN m
    ELSE [m EXCEPT !.day = today, !.sent = 0, !.cooling = FALSE]

\* _should_send_alert: not when the limit is reached, nor for job failures
\* during their cooldown.
Rationed(m, kind) ==
    m.sent >= Limit \/ (kind = "fails" /\ m.cooling)

\* _mark_alert_sent.
Counted(m, kind) ==
    [m EXCEPT !.sent = @ + 1, !.cooling = @ \/ kind = "fails"]

\* _send_alert_email_with_limits: of a mail that is held back it says that it
\* was sent.  mem is what m becomes, told whether the mail went out.
Outcomes(m, kind) ==
    LET d == NewDaySeen(m)
    IN  IF Rationed(d, kind) THEN {[mem |-> d, ok |-> TRUE, told |-> FALSE]}
        ELSE {[mem |-> d, ok |-> FALSE, told |-> FALSE],
              [mem |-> Counted(d, kind), ok |-> TRUE, told |-> TRUE]}

NoMail(m) == [mem |-> m, ok |-> FALSE, told |-> FALSE]

Told(g, kind) == [g EXCEPT !.today = @ + 1, ![kind] = @ + 1]

\* The cycle goes on at pc with what the outcome o makes of its memory; g is
\* the account of its mails so far.
Mailed(p, kind, o, mem, g, pc) ==
    /\ proc' = [proc EXCEPT ![p].mem = mem, ![p].pc = pc]
    /\ got' = [got EXCEPT ![p] = IF o.told THEN Told(g, kind) ELSE g]
    /\ summaries' = IF o.told /\ kind = "summaries"
                    THEN [summaries EXCEPT !.mailed = @ + 1] ELSE summaries

\* Jobs that failed or could not be started, hosts that were benched: any
\* number in a cycle.
FailsMail(p) ==
    /\ At(p, "fails")
    /\ \/ /\ Goto(p, "low")
          /\ UNCHANGED <<got, summaries, budget>>
       \/ /\ Spend("failures")
          /\ \E kind \in {"fails", "hosts"} : \E o \in Outcomes(proc[p].mem, kind) :
                Mailed(p, kind, o, o.mem, got[p], "fails")
    /\ UNCHANGED <<file, open, alertsRest>>

\* Fault: any job in the queue is a recovery.
LatchesResetEarly(m, len) ==
    IF len > 0 THEN [m EXCEPT !.low = FALSE, !.empty = FALSE] ELSE m

\* _reset_queue_alert_state.
LatchesReset(m, len) ==
    IF len >= Healthy THEN [m EXCEPT !.low = FALSE, !.empty = FALSE] ELSE m

SeenHealthy(g) ==
    IF qlen >= Healthy THEN [g EXCEPT !.low = 0, !.empty = 0] ELSE g

\* A snapshot of the queue decides this mail and the next.
LowMail(p) ==
    /\ At(p, "low")
    /\ LET m == [LatchesReset(proc[p].mem, qlen) EXCEPT !.len = qlen]
           wanted == 0 < qlen /\ qlen < Healthy /\ ~m.low
       IN  \E o \in IF wanted THEN Outcomes(m, "low") ELSE {NoMail(m)} :
              Mailed(p, "low", o,
                     [o.mem EXCEPT !.low = @ \/ o.ok], SeenHealthy(got[p]), "empty")
    /\ UNCHANGED <<file, open, alertsRest, budget>>

EmptyMail(p) ==
    /\ At(p, "empty")
    /\ LET m == proc[p].mem
       IN  \E o \in IF m.len = 0 /\ ~m.empty THEN Outcomes(m, "empty") ELSE {NoMail(m)} :
              Mailed(p, "empty", o,
                     [o.mem EXCEPT !.low = @ \/ o.ok, !.empty = @ \/ o.ok],
                     got[p], "summary")
    /\ UNCHANGED <<file, open, alertsRest, budget>>

SummaryMail(p) ==
    /\ At(p, "summary")
    /\ LET m == proc[p].mem
       IN  \E o \in IF m.last # today THEN Outcomes(m, "summaries") ELSE {NoMail(m)} :
              Mailed(p, "summaries", o,
                     IF o.ok THEN [o.mem EXCEPT !.last = today] ELSE o.mem,
                     got[p], IF o.ok THEN "day_load" ELSE "loop")
    /\ UNCHANGED <<file, open, alertsRest, budget>>

\* Fault: what an earlier monitor mailed today is not looked up.
LoadDayAnew(p) ==
    /\ At(p, "load_day")
    /\ proc' = [proc EXCEPT ![p].mem.day = today, ![p].pc = "loop"]
    /\ UNCHANGED <<file, open, alertsRest, got, summaries, budget>>

\* The monitor's start: _initial_alert_runtime_state, and the day of the last
\* summary, today if there was none.
LoadDay(p) ==
    /\ At(p, "load_day")
    /\ LET day == file[MonitorState].day
       IN  proc' = [proc EXCEPT
              ![p].mem.day = today,
              ![p].mem.last = IF day = 0 THEN today ELSE day,
              ![p].pc = IF day = 0 THEN "day_load" ELSE "loop"]
    /\ UNCHANGED <<file, open, alertsRest, got, summaries, budget>>

\* _save_last_daily_summary_date: without the state lock.
DayLoads(p) ==
    /\ At(p, "day_load")
    /\ proc' = [proc EXCEPT ![p].pc = "day_save", ![p].memo = file[MonitorState]]
    /\ UNCHANGED <<file, open, alertsRest, got, summaries, budget>>

DaySaves(p) ==
    /\ At(p, "day_save")
    /\ Save(MonitorState, [Resaved(proc[p].memo) EXCEPT !.day = proc[p].mem.last])
    /\ Goto(p, "loop")
    /\ UNCHANGED <<alertsRest, got, budget>>

Alerts(p) ==
    FailsMail(p) \/ LowMail(p) \/ EmptyMail(p) \/ SummaryMail(p) \/ LoadDay(p)
        \/ DayLoads(p) \/ DaySaves(p)

\* The world the alerts are about.
QueueChanges ==
    /\ Spend("queue")
    /\ qlen' \in (0..Healthy) \ {qlen}
    /\ UNCHANGED <<files, shared, proc, stopped, stopper, update, today, had,
                   spoiled, got, summaries>>

\* Midnight.
NewDay ==
    /\ Spend("day")
    /\ today' = today + 1
    /\ got' = [p \in Procs |->
                  [got[p] EXCEPT !.today = 0, !.summaries = 0,
                                 !.nights = IF got[p].fails > 0 THEN @ + 1 ELSE 0]]
    /\ summaries' = NoSummaries
    /\ UNCHANGED <<files, shared, proc, stopped, stopper, update, qlen, had,
                   spoiled>>

\* The cooldown after a monitor's last job-failure mail has passed, whether it
\* still minds it or not.
CoolingEnds(p) ==
    /\ got[p].fails > 0
    /\ proc' = [proc EXCEPT ![p].mem.cooling = FALSE]
    /\ got' = [got EXCEPT ![p].fails = 0, ![p].nights = 0]
    /\ UNCHANGED <<file, open, alertsRest, summaries, budget>>

=============================================================================

------------------------------ MODULE HostView ------------------------------
(***************************************************************************)
(* The queue host as its state files show it to a reader: for every job,   *)
(* which live file holds it and what the histories say of it.  It is what  *)
(* job lookups depend on.  HostSystem implements it; ClientSystem is built *)
(* on it.                                                                  *)
(***************************************************************************)
CONSTANT Jobs

VARIABLE view

\* hand: in the memory of the monitor or of a command, in no file.
Places == {"new", "queue", "hand", "running", "deferred", "over", "gone"}

\* done: what completed.json says; fail: failed.json has a record; due: the
\* job was deferred and its start failure is still to be recorded.
View == [at : Places, done : {"none", "completed", "unknown"},
         fail : BOOLEAN, due : BOOLEAN]

TypeOK == view \in [Jobs -> View]

Unseen == [at |-> "new", done |-> "none", fail |-> FALSE, due |-> FALSE]

Init == view = [j \in Jobs |-> Unseen]

From(v, place) == {u \in {v} : u.at = place}
To(S, place) == {[v EXCEPT !.at = place] : v \in S}

\* Accepted by an enqueue; removed from the queue by an operator.
Accepted(v) == To(From(v, "new"), "queue")
Deleted(v)  == To(From(v, "queue"), "gone")

\* Taken for a launch (never before a start failure that is due is filed: the
\* monitor does one thing at a time); put back by a failure, a preemption or an operator;
\* parked and, by requeue-deferred, taken out again; dropped for good.
Taken(v)    == {u \in To(From(v, "queue"), "hand") : ~u.due}
PutBack(v)  == To(From(v, "hand"), "queue")
Parked(v)   == {[u EXCEPT !.due = TRUE] : u \in To(From(v, "hand"), "deferred")}
Unparked(v) == To(From(v, "deferred"), "hand")
Dropped(v)  == To(From(v, "deferred"), "gone")

\* Written to running.json after its launch, taken out of it when its process
\* is over, when it is preempted or when an operator requeues it.
Tracked(v)   == To(From(v, "hand"), "running")
Untracked(v) == To(From(v, "running"), "hand")

\* Recorded as over.
Succeeded(v) == {[u EXCEPT !.done = d] :
                    u \in To(From(v, "hand"), "over"), d \in {"completed", "unknown"}}
Failed(v)    == {[u EXCEPT !.fail = TRUE] : u \in To(From(v, "hand"), "over")}

\* The start failure of a deferred job, recorded whatever became of it.
StartFailed(v) ==
    {[u EXCEPT !.fail = TRUE, !.due = FALSE] : u \in {w \in {v} : w.due}}

\* The failure history is full: the record is the oldest.
Evicted(v) == {[u EXCEPT !.fail = FALSE] : u \in {w \in {v} : w.fail}}

\* A process dies: with the job in its memory, or before the record that is
\* due.
Lost(v) ==
    To(From(v, "hand"), "gone") \cup {[u EXCEPT !.due = FALSE] : u \in {v}}

MonitorMoves(v) ==
    Taken(v) \cup PutBack(v) \cup Parked(v) \cup Tracked(v) \cup Untracked(v)
        \cup Succeeded(v) \cup Failed(v) \cup StartFailed(v)

OperatorMoves(v) ==
    Accepted(v) \cup Deleted(v) \cup Unparked(v) \cup Dropped(v)

Moves(v) == MonitorMoves(v) \cup OperatorMoves(v) \cup Lost(v) \cup Evicted(v)

\* One write may file, delete or lose several jobs.
Next == \A j \in Jobs : view'[j] \in Moves(view[j]) \cup {view[j]}

Spec == Init /\ [][Next]_view

=============================================================================

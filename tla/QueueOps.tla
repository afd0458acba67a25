------------------------------ MODULE QueueOps ------------------------------
(***************************************************************************)
(* shared/queue.py: the pure operations on the list kept in queue.json.    *)
(*                                                                         *)
(* A queued job is a record of what dispatch reads and rewrites:           *)
(*   job      its job id                                                   *)
(*   prio     its priority                                                 *)
(*   preempt  it may interrupt running work                                *)
(*   hosts    hosts it is pinned to; {} is "any host of its queue"         *)
(*   resume   resume_host; NoHost stands for resume_first = False          *)
(*   fails    submit_failures                                              *)
(*   dir      payload_remote_path is set                                   *)
(* What never changes after submission is a constant function of the job.  *)
(***************************************************************************)
EXTENDS Integers, FiniteSets, Sequences, SequencesExt

CONSTANTS
    Hosts,       \* worker hosts
    Jobs,        \* job ids
    Queues,      \* configured queue names
    NoHost,      \* "no resume host"
    QueueOf,     \* the queue a job was submitted to
    QueueHosts   \* the hosts of each queue: hosts.json

ASSUME QueueOpsAssumption ==
    /\ NoHost \notin Hosts
    /\ QueueOf \in [Jobs -> Queues]
    /\ QueueHosts \in [Queues -> SUBSET Hosts]

Item == [job : Jobs, prio : Nat, preempt : BOOLEAN, hosts : SUBSET Hosts,
         resume : Hosts \cup {NoHost}, fails : Nat, dir : BOOLEAN]

\* The job ids a list mentions.
JobsIn(s) == {s[i].job : i \in DOMAIN s}

\* host_is_eligible_for_item.
Eligible(item, h) ==
    IF item.hosts # {} THEN h \in item.hosts
                       ELSE h \in QueueHosts[QueueOf[item.job]]

Candidates(q, h) == {i \in DOMAIN q : Eligible(q[i], h)}

Earliest(S) == {i \in S : \A k \in S : i <= k}

\* What dispatch promises host h: a job waiting to resume there, else the
\* highest priority, first in first out among equals.  At most one index.
BestIndex(q, h) ==
    LET C == Candidates(q, h)
        resuming == {i \in C : q[i].resume = h}
        top == {i \in C : \A k \in C : q[k].prio <= q[i].prio}
    IN  Earliest(IF resuming # {} THEN resuming ELSE top)

\* _find_queued_position: where a job sits, looked up by its id.
Positions(q, j) == Earliest({i \in DOMAIN q : q[i].job = j})

\* Fault: forgives one failed start instead of all of them.
ResumeItemForgivingOne(item, h) ==
    [item EXCEPT !.hosts = {h}, !.resume = h, !.fails = @ - 1]

\* Fault: the host restriction is left as it was.
ResumeItemAnywhere(item, h) ==
    [item EXCEPT !.resume = h, !.fails = 0]

\* build_resume_item: pinned to the host it ran on, ahead of the rest there.
ResumeItem(item, h) ==
    [item EXCEPT !.hosts = {h}, !.resume = h, !.fails = 0]

\* The elements of s at the positions I, in order: a set of one list.
Keeping(s, I) ==
    {[n \in DOMAIN f |-> s[f[n]]] :
        f \in {g \in [1..Cardinality(I) -> I] :
                 \A a, b \in DOMAIN g : a < b => g[a] < g[b]}}

=============================================================================

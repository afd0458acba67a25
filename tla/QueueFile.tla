------------------------------ MODULE QueueFile -----------------------------
(***************************************************************************)
(* queue.json and the operations of shared/queue.py that change it, each   *)
(* one load-modify-save under the state lock (module StateLock), hence one *)
(* action.  Job ids are sequences of characters, already case-folded, so   *)
(* that qdel's prefix matching means something; a token is such a sequence *)
(* too.  Nothing checks that a submitted id is new, so two entries may     *)
(* share one.                                                              *)
(***************************************************************************)
EXTENDS QueueOps

CONSTANTS
    Tokens,     \* what an operator types for a job id (blanks are skipped)
    Arrays,     \* batch tags
    NoArray,    \* submitted without one
    ArrayOf,    \* the tag a job was submitted with
    Prios,      \* priorities used
    MaxQueue    \* bound: queue length

ASSUME QueueFileAssumption ==
    /\ Jobs \subseteq Seq(Nat)
    /\ Tokens \subseteq Seq(Nat) \ {<<>>}
    /\ NoArray \notin Arrays
    /\ ArrayOf \in [Jobs -> Arrays \cup {NoArray}]
    /\ Prios \subseteq Nat
    /\ MaxQueue \in Nat

VARIABLE queue   \* queue.json

NewItem(j, p) == [job |-> j, prio |-> p, preempt |-> FALSE, hosts |-> {},
                  resume |-> NoHost, fails |-> 0, dir |-> FALSE]

TypeOK == queue \in Seq(Item) /\ Len(queue) <= MaxQueue

Init == queue = <<>>

-----------------------------------------------------------------------------
(* The two loops of queue.py whose results the other modules state as sets. *)

\* Fault: >= for >, so the youngest of equals wins.
BestOfLastBest(q, h) ==
    LET best[n \in 0..Len(q)] ==
            IF n = 0 THEN 0
            ELSE LET b == best[n - 1]
                 IN  IF Eligible(q[n], h) /\ (b = 0 \/ q[n].prio >= q[b].prio)
                     THEN n ELSE b
    IN  best

\* The best position among the first n, for every n; 0 for None.
BestOf(q, h) ==
    LET best[n \in 0..Len(q)] ==
            IF n = 0 THEN 0
            ELSE LET b == best[n - 1]
                 IN  IF Eligible(q[n], h) /\ (b = 0 \/ q[n].prio > q[b].prio)
                     THEN n ELSE b
    IN  best

\* _select_best_index: the scan as coded, 0 for None.
ScanBestIndex(q, h) ==
    LET resume == SelectInSeq(q, LAMBDA it : Eligible(it, h) /\ it.resume = h)
    IN  IF resume # 0 THEN resume ELSE BestOf(q, h)[Len(q)]

\* Fault: pops from the front, so later positions have shifted.
PoppedForward(q, selection) ==
    LET popped[n \in 0..Len(q)] ==
            IF n = 0 THEN q
            ELSE LET r == popped[n - 1]
                 IN  IF n \in selection /\ n \in DOMAIN r THEN RemoveAt(r, n) ELSE r
    IN  popped

\* What is left once the last n positions were looked at, for every n.
Popped(q, selection) ==
    LET popped[n \in 0..Len(q)] ==
            IF n = 0 THEN q
            ELSE LET r == popped[n - 1]
                     i == Len(q) - n + 1
                 IN  IF i \in selection THEN RemoveAt(r, i) ELSE r
    IN  popped

\* remove_queue_positions: pops from the back, so that earlier positions
\* stay valid.
RemovePositions(q, selection) == Popped(q, selection)[Len(q)]

-----------------------------------------------------------------------------
(* Adding and taking.                                                      *)

\* enqueue_item and enqueue_items: one job, or a batch in one write.
Enqueue(items) ==
    /\ Len(queue) + Len(items) <= MaxQueue
    /\ queue' = queue \o items

\* requeue_front of an interrupted job.
RequeueFront(j, p, h) ==
    /\ Len(queue) < MaxQueue
    /\ queue' = Cons(ResumeItem(NewItem(j, p), h), queue)

\* dequeue_for_host, when the scan finds a job.
DequeueForHost(h) ==
    /\ ScanBestIndex(queue, h) # 0
    /\ queue' = RemoveAt(queue, ScanBestIndex(queue, h))

\* claim_queued_job, when the job is still there.
ClaimQueuedJob(j) ==
    \E i \in Positions(queue, j) : queue' = RemoveAt(queue, i)

-----------------------------------------------------------------------------
(* qdel: resolve a selector, then remove, under one lock.                  *)

Resolved(at) == [code |-> "ok", at |-> at]
Refused(code) == [code |-> code, at |-> {}]

Exact(t) == {i \in DOMAIN queue : queue[i].job = t}
Prefixed(t) == {i \in DOMAIN queue : IsPrefix(t, queue[i].job)}

\* Fault: an exact id is not preferred over the ids it is a prefix of.
MatchesPrefixOnly(t) == Prefixed(t)

\* _resolve_job_ids, one token: exact first, then prefix.
Matches(t) == IF Exact(t) # {} THEN Exact(t) ELSE Prefixed(t)

\* Fault: an ambiguous token takes its first match.
ResolveJobIdsGreedily(tokens) ==
    IF \E t \in tokens : Matches(t) = {} THEN Refused("not_found")
    ELSE Resolved(UNION {Earliest(Matches(t)) : t \in tokens})

\* _resolve_job_ids: an ambiguous token is an error as soon as it is met,
\* tokens that match nothing are reported after all were looked up.
ResolveJobIds(tokens) ==
    IF \E t \in tokens : Cardinality(Matches(t)) > 1 THEN Refused("conflict")
    ELSE IF \E t \in tokens : Matches(t) = {} THEN Refused("not_found")
    ELSE Resolved(UNION {Matches(t) : t \in tokens})

\* _resolve_indices.
ResolveIndices(wanted) ==
    IF wanted \subseteq DOMAIN queue THEN Resolved(wanted)
                                     ELSE Refused("conflict")

\* _resolve_queue_name and _resolve_array_id: every entry whose job is one of
\* S, which is never none.
ResolveGroup(S) ==
    LET at == {i \in DOMAIN queue : queue[i].job \in S}
    IN  IF at = {} THEN Refused("not_found") ELSE Resolved(at)

\* delete_queue_selection; a refusal leaves the file alone.
DeleteQueueSelection(answer) ==
    /\ queue # <<>>
    /\ answer.code = "ok"
    /\ queue' = RemovePositions(queue, answer.at)

QdelJobIds(tokens) == DeleteQueueSelection(ResolveJobIds(tokens))
QdelIndices(wanted) == DeleteQueueSelection(ResolveIndices(wanted))
QdelQueue(n) ==
    DeleteQueueSelection(ResolveGroup({j \in Jobs : QueueOf[j] = n}))
QdelArray(a) ==
    DeleteQueueSelection(ResolveGroup({j \in Jobs : ArrayOf[j] = a}))

-----------------------------------------------------------------------------
SomeTokens == SUBSET Tokens \ {{}}

Next ==
    \/ \E j \in Jobs, p \in Prios : Enqueue(<<NewItem(j, p)>>)
    \/ \E j, k \in Jobs : Enqueue(<<NewItem(j, 0), NewItem(k, 0)>>)
    \/ \E j \in Jobs, p \in Prios, h \in Hosts : RequeueFront(j, p, h)
    \/ \E h \in Hosts : DequeueForHost(h)
    \/ \E j \in Jobs : ClaimQueuedJob(j)
    \/ \E tokens \in SomeTokens : QdelJobIds(tokens)
    \/ \E wanted \in SUBSET (1..MaxQueue) \ {{}} : QdelIndices(wanted)
    \/ \E n \in Queues : QdelQueue(n)
    \/ \E a \in Arrays : QdelArray(a)

Spec == Init /\ [][Next]_queue

-----------------------------------------------------------------------------
(* Properties: what the operations promise about every queue the program   *)
(* can be in.                                                              *)

\* The dispatch scan gives a host the job it was promised: an interrupted
\* job waiting to resume there, else the highest priority, oldest first; and
\* nothing only when nothing is eligible (_select_best_index).
ScanKeepsPromise ==
    \A h \in Hosts : BestIndex(queue, h) = {ScanBestIndex(queue, h)} \ {0}

\* qdel removes the selected positions and no other, and what is left keeps
\* its order, although each pop shifts the positions behind it
\* (remove_queue_positions).
DeletesExactlyTheSelection ==
    \A at \in SUBSET DOMAIN queue :
        Keeping(queue, DOMAIN queue \ at) = {RemovePositions(queue, at)}

\* A job id typed in full, held by one entry, always works and removes that
\* entry only, whatever other ids it is a prefix of (_resolve_job_ids).
FullIdsAlwaysWork ==
    \A tokens \in SomeTokens :
        (\A t \in tokens : Cardinality(Exact(t)) = 1) =>
            /\ ResolveJobIds(tokens).code = "ok"
            /\ {queue[i].job : i \in ResolveJobIds(tokens).at} = tokens

\* A deletion never picks one of several candidates: a token that is not
\* itself a queued id leaves behind no entry it also names
\* (_resolve_job_ids).
NeverPicksAmongCandidates ==
    \A tokens \in SomeTokens :
        LET answer == ResolveJobIds(tokens)
        IN  answer.code = "ok" =>
              \A t \in tokens : Exact(t) = {} => Prefixed(t) \subseteq answer.at

\* A deletion by selectors (ids or their prefixes) takes what they name
\* and never chooses: where ids are prefixes of one another, a full id means its own
\* entry, and a shorter one that several entries share is refused.
SelectorsArePrecise == FullIdsAlwaysWork /\ NeverPicksAmongCandidates

=============================================================================

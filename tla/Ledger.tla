------------------------------- MODULE Ledger -------------------------------
(***************************************************************************)
(* The client's ledger, ~/.awsqe/client/jobs.json: what one record holds   *)
(* and what each mutation makes of the records it was handed               *)
(* (client/ledger.py, shared/job_status.py, the keys of client/logs.py).   *)
(* A ledger is a function from jobs to records; a job without a record has *)
(* the status "untracked".                                                 *)
(***************************************************************************)
EXTENDS Naturals, FiniteSets

CONSTANTS
    Jobs,
    Workers,
    NoWorker,
    MaxTracked        \* MAX_TRACKED_RECORDS

ASSUME LedgerAssumption ==
    /\ NoWorker \notin Workers
    /\ MaxTracked \in Nat

HostStatuses == {"queued", "running", "completed", "failed", "unknown"}
Statuses == HostStatuses \cup {"submitted", "deleted", "missing"}
Terminal == {"completed", "failed", "unknown", "deleted"}

\* Times of the host are stamps: attempt n of a job starts at 2n - 1 and ends
\* at 2n; 0 is the empty value.
Place == Workers \cup {NoWorker}
Key == [host : Place, time : Nat]
NoKey == [host |-> NoWorker, time |-> 0]

\* born: the record's place in the file, records being appended only.
\* payload: the job whose payload directory the record names.
Entry == [status : Statuses \cup {"untracked"}, born : Nat, payload : Jobs,
          host : Place, started : Nat, finished : Nat,
          logFor : Key, missingFor : Key]

NoEntry(j) == [status |-> "untracked", born |-> 0, payload |-> j,
               host |-> NoWorker, started |-> 0, finished |-> 0,
               logFor |-> NoKey, missingFor |-> NoKey]

\* What the queue host says of a job; "none": it has no record of it,
\* "unasked": it did not say.
Answer == [status : HostStatuses \cup {"none", "unasked"}, host : Place,
           started : Nat, finished : Nat]

Unasked == [status |-> "unasked", host |-> NoWorker, started |-> 0, finished |-> 0]

IsTracked(e) == e.status # "untracked"
IsTerminal(e) == e.status \in Terminal
TrackedIn(l) == {j \in Jobs : IsTracked(l[j])}

-----------------------------------------------------------------------------
(* Saving.                                                                 *)

\* Fault: whatever is oldest goes, settled or not.
OldestOverCap(l) ==
    LET excess == Cardinality(TrackedIn(l)) - MaxTracked
    IN  {j \in TrackedIn(l) :
            Cardinality({k \in TrackedIn(l) : l[k].born < l[j].born}) < excess}

\* prune_records: the oldest settled records, as many as there are too many.
OverCap(l) ==
    LET excess  == Cardinality(TrackedIn(l)) - MaxTracked
        Settled == {j \in TrackedIn(l) : IsTerminal(l[j])}
    IN  {j \in Settled :
            Cardinality({k \in Settled : l[k].born < l[j].born}) < excess}

Without(l, S) == [j \in Jobs |-> IF j \in S THEN NoEntry(j) ELSE l[j]]

\* save_ledger.
Pruned(l) == Without(l, OverCap(l))

-----------------------------------------------------------------------------
(* Mutations.                                                              *)

\* record_submissions: ids are the jobs the host accepted and owners the
\* payloads they are paired with, position by position.
Recorded(l, ids, owners, born) ==
    [j \in Jobs |->
        IF \E i \in DOMAIN ids \cap DOMAIN owners : ids[i] = j
        THEN LET i == CHOOSE k \in DOMAIN ids \cap DOMAIN owners : ids[k] = j
             IN  [NoEntry(j) EXCEPT !.status = "submitted",
                                    !.born = born + i,
                                    !.payload = owners[i]]
        ELSE l[j]]

\* merge_host_fields: an empty value never overwrites.
MergeHostFields(e, a) ==
    [e EXCEPT !.status = a.status,
              !.host = IF a.host = NoWorker THEN @ ELSE a.host,
              !.started = IF a.started = 0 THEN @ ELSE a.started,
              !.finished = IF a.finished = 0 THEN @ ELSE a.finished]

\* Fault: the absence of a record is stored as it came.
MergeAsIs(e, a) == MergeHostFields(e, a)

\* merge_state.
Merge(e, a) ==
    IF a.status = "none" THEN [e EXCEPT !.status = "missing"]
                         ELSE MergeHostFields(e, a)

\* apply_states: updates only, and only jobs the host spoke of.
Applied(l, answers) ==
    [j \in Jobs |->
        IF IsTracked(l[j]) /\ answers[j].status # "unasked"
        THEN Merge(l[j], answers[j]) ELSE l[j]]

\* mark_status(..., DELETED).
Marked(l, S) ==
    [j \in Jobs |->
        IF IsTracked(l[j]) /\ j \in S THEN [l[j] EXCEPT !.status = "deleted"]
                                      ELSE l[j]]

\* record_log_result.
LogNoted(l, j, found, key) ==
    IF ~IsTracked(l[j]) THEN l
    ELSE IF found
         THEN [l EXCEPT ![j].logFor = key, ![j].missingFor = NoKey]
         ELSE [l EXCEPT ![j].missingFor = key]

-----------------------------------------------------------------------------
(* The log cache (client/logs.py).                                         *)

\* Fault: the key names the worker and not the attempt.
HostKey(e) == [host |-> e.host, time |-> 1]

\* cache_key.
CacheKey(e) ==
    [host |-> e.host, time |-> IF e.finished # 0 THEN e.finished ELSE e.started]

\* is_cached; onDisk: the cached file exists.
IsCached(e, onDisk) == e.logFor = CacheKey(e) /\ onDisk

ShouldFetch(e, onDisk) ==
    /\ e.host # NoWorker
    /\ e.missingFor # CacheKey(e)
    /\ ~IsTerminal(e) \/ ~IsCached(e, onDisk)

=============================================================================

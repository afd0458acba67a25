------------------------- MODULE ClientSystem_proofs ------------------------
(***************************************************************************)
(* Theorems of the client and its ledger, for any number of client         *)
(* processes, jobs and workers, and any caps.                              *)
(***************************************************************************)
EXTENDS ClientSystem, TLAPS

-----------------------------------------------------------------------------
(* Sequences and the helpers of the ledger.                                *)

LEMMA Prefix ==
    ASSUME NEW s \in Seq(Jobs), NEW k \in 0..Len(s)
    PROVE  /\ SubSeq(s, 1, k) \in Seq(Jobs) /\ Len(SubSeq(s, 1, k)) = k
           /\ \A i \in 1..k : SubSeq(s, 1, k)[i] = s[i]
OBVIOUS

LEMMA Suffix ==
    ASSUME NEW s \in Seq(Jobs), NEW k \in 0..Len(s)
    PROVE  /\ SubSeq(s, k + 1, Len(s)) \in Seq(Jobs)
           /\ Len(SubSeq(s, k + 1, Len(s))) = Len(s) - k
           /\ \A i \in 1..(Len(s) - k) : SubSeq(s, k + 1, Len(s))[i] = s[i + k]
OBVIOUS

LEMMA Joined ==
    ASSUME NEW s \in Seq(Jobs), NEW t \in Seq(Jobs)
    PROVE  /\ s \o t \in Seq(Jobs) /\ Len(s \o t) = Len(s) + Len(t)
           /\ \A i \in 1..Len(s) : (s \o t)[i] = s[i]
           /\ \A i \in 1..Len(t) : (s \o t)[Len(s) + i] = t[i]
OBVIOUS

LEMMA Parcels ==
    ASSUME ClientAssumption, oldHost \in BOOLEAN, NEW s \in Seq(Jobs)
    PROVE  /\ Parcel(s) \in Seq(Jobs) /\ Len(Parcel(s)) \in 0..Len(s)
           /\ \A i \in 1..Len(Parcel(s)) : Parcel(s)[i] = s[i]
<1> DEFINE cap == IF oldHost THEN 1 ELSE MaxEnqueue
           k   == IF Len(s) < cap THEN Len(s) ELSE cap
<1>1. cap \in Nat
  BY DEF ClientAssumption
<1>2. Parcel(s) = SubSeq(s, 1, k)
  BY DEF Parcel
<1> HIDE DEF cap
<1>3. k \in 0..Len(s)
  BY <1>1
<1> HIDE DEF k
<1> QED
  BY <1>2, <1>3, Prefix

LEMMA UploadsOK ==
    ASSUME ClientAssumption, NEW ids \in Submissions, NEW u \in Uploads(ids)
    PROVE  /\ u \in Seq(Jobs)
           /\ \A i \in DOMAIN u : \E k \in DOMAIN ids : u[i] = ids[k]
           /\ \A i, k \in DOMAIN u : u[i] = u[k] => i = k
<1>1. PICK n \in 1..Len(ids) :
         u \in {[i \in 1..n |-> ids[at[i]]] :
                  at \in {f \in [1..n -> DOMAIN ids] :
                            \A i, k \in 1..n : i < k => f[i] < f[k]}}
  BY DEF Uploads
<1>2. PICK f \in [1..n -> DOMAIN ids] :
         /\ \A i, k \in 1..n : i < k => f[i] < f[k]
         /\ u = [i \in 1..n |-> ids[f[i]]]
  BY <1>1
<1>3. /\ ids \in Seq(Jobs) /\ DOMAIN ids = 1..Len(ids) /\ n \in Nat
      /\ \A i, k \in DOMAIN ids : ids[i] = ids[k] => i = k
  BY DEF ClientAssumption
<1>4. DOMAIN u = 1..n /\ \A i \in 1..n : u[i] = ids[f[i]] /\ f[i] \in DOMAIN ids
  BY <1>2
<1>5. u \in Seq(Jobs)
  BY <1>2, <1>3, <1>4
<1>6. ASSUME NEW i \in 1..n, NEW k \in 1..n, u[i] = u[k] PROVE i = k
  <2>1. f[i] = f[k]
    BY <1>3, <1>4, <1>6
  <2>2. f[i] \in Nat /\ f[k] \in Nat
    BY <1>3, <1>4
  <2>3. ~(i < k) /\ ~(k < i)
    BY <1>2, <2>1, <2>2
  <2> QED
    BY <1>3, <2>3
<1> QED
  BY <1>4, <1>5, <1>6

\* The pieces records are made of.
LEMMA EntryTypes ==
    ASSUME LedgerAssumption
    PROVE  /\ NoKey \in Key /\ Unasked \in Answer /\ Silence \in [Jobs -> Answer]
           /\ \A j \in Jobs : NoEntry(j) \in Entry
           /\ Empty \in [Jobs -> Entry]
           /\ \A e \in Entry : CacheKey(e) \in Key
<1>1. NoKey \in Key /\ Unasked \in Answer
  BY DEF NoKey, Key, Place, Unasked, Answer
<1>2. \A j \in Jobs : NoEntry(j) \in Entry
  BY <1>1 DEF NoEntry, Entry, Place
<1>3. \A e \in Entry : CacheKey(e) \in Key
  BY DEF CacheKey, Key, Entry
<1> QED
  BY <1>1, <1>2, <1>3 DEF Empty, Silence

LEMMA MergeTyped ==
    ASSUME LedgerAssumption, NEW e \in Entry, NEW a \in Answer, a.status # "unasked"
    PROVE  /\ Merge(e, a) \in Entry /\ IsTracked(Merge(e, a))
           /\ Merge(e, a).payload = e.payload
           /\ Merge(e, a).status = IF a.status = "none" THEN "missing" ELSE a.status
<1>1. CASE a.status = "none"
  BY <1>1 DEF Merge, Entry, Statuses, IsTracked
<1>2. CASE a.status # "none"
  <2> DEFINE host == IF a.host = NoWorker THEN e.host ELSE a.host
             started == IF a.started = 0 THEN e.started ELSE a.started
             finished == IF a.finished = 0 THEN e.finished ELSE a.finished
  <2>1. host \in Place /\ started \in Nat /\ finished \in Nat /\ a.status \in HostStatuses
    BY <1>2 DEF Entry, Answer
  <2>2. Merge(e, a) = [e EXCEPT !.status = a.status, !.host = host,
                                !.started = started, !.finished = finished]
    BY <1>2 DEF Merge, MergeHostFields
  <2> HIDE DEF host, started, finished
  <2>3. a.status \in Statuses /\ a.status # "untracked"
    BY <2>1 DEF Statuses, HostStatuses
  <2> QED
    BY <1>2, <2>1, <2>2, <2>3 DEF Entry, IsTracked
<1> QED
  BY <1>1, <1>2

\* What each mutation of the ledger does to a record.
LEMMA AppliedOK ==
    ASSUME LedgerAssumption, NEW l \in [Jobs -> Entry], NEW a \in [Jobs -> Answer]
    PROVE  /\ Applied(l, a) \in [Jobs -> Entry]
           /\ \A j \in Jobs :
                 /\ IsTracked(Applied(l, a)[j]) <=> IsTracked(l[j])
                 /\ Applied(l, a)[j].payload = l[j].payload
                 /\ Applied(l, a)[j].status \in {l[j].status, a[j].status, "missing"}
                 /\ Applied(l, a)[j].status # l[j].status => a[j].status # "unasked"
<1>1. ASSUME NEW j \in Jobs
      PROVE  LET e == IF IsTracked(l[j]) /\ a[j].status # "unasked"
                      THEN Merge(l[j], a[j]) ELSE l[j]
             IN  /\ e \in Entry /\ (IsTracked(e) <=> IsTracked(l[j]))
                 /\ e.payload = l[j].payload
                 /\ e.status \in {l[j].status, a[j].status, "missing"}
                 /\ e.status # l[j].status => a[j].status # "unasked"
  <2>1. CASE IsTracked(l[j]) /\ a[j].status # "unasked"
    BY <2>1, MergeTyped
  <2>2. CASE ~(IsTracked(l[j]) /\ a[j].status # "unasked")
    BY <2>2
  <2> QED
    BY <2>1, <2>2
<1> QED
  BY <1>1 DEF Applied

LEMMA MarkedOK ==
    ASSUME NEW l \in [Jobs -> Entry], NEW S \in SUBSET Jobs
    PROVE  /\ Marked(l, S) \in [Jobs -> Entry]
           /\ \A j \in Jobs :
                 /\ IsTracked(Marked(l, S)[j]) <=> IsTracked(l[j])
                 /\ Marked(l, S)[j].payload = l[j].payload
                 /\ Marked(l, S)[j].status # l[j].status =>
                       Marked(l, S)[j].status = "deleted" /\ j \in S
<1>1. ASSUME NEW j \in Jobs
      PROVE  LET e == [l[j] EXCEPT !.status = "deleted"]
             IN  e \in Entry /\ e.status = "deleted" /\ e.payload = l[j].payload
  BY DEF Entry, Statuses
<1> QED
  BY <1>1 DEF Marked, IsTracked

LEMMA WithoutOK ==
    ASSUME LedgerAssumption, NEW l \in [Jobs -> Entry], NEW S
    PROVE  /\ Without(l, S) \in [Jobs -> Entry]
           /\ \A j \in Jobs :
                 /\ Without(l, S)[j] = IF j \in S THEN NoEntry(j) ELSE l[j]
                 /\ ~IsTracked(NoEntry(j)) /\ NoEntry(j).payload = j
                 /\ NoEntry(j).status = "untracked"
BY EntryTypes DEF Without, IsTracked, NoEntry

LEMMA PrunedOK ==
    ASSUME LedgerAssumption, NEW l \in [Jobs -> Entry]
    PROVE  /\ Pruned(l) \in [Jobs -> Entry]
           /\ \A j \in Jobs : Pruned(l)[j] = IF j \in OverCap(l) THEN NoEntry(j) ELSE l[j]
           /\ \A j \in OverCap(l) : IsTerminal(l[j])
<1>1. /\ Without(l, OverCap(l)) \in [Jobs -> Entry]
      /\ \A j \in Jobs : Without(l, OverCap(l))[j] = IF j \in OverCap(l) THEN NoEntry(j) ELSE l[j]
  BY WithoutOK
<1>2. \A j \in OverCap(l) : IsTerminal(l[j])
  BY DEF OverCap
<1> QED
  BY <1>1, <1>2 DEF Pruned

\* The record of x when its log was found, and when it was missing.
WithLog(e, key) == [e EXCEPT !.logFor = key, !.missingFor = NoKey]
WithoutLog(e, key) == [e EXCEPT !.missingFor = key]

LEMMA LogNotedOK ==
    ASSUME LedgerAssumption, NEW l \in [Jobs -> Entry], NEW x \in Jobs, NEW key \in Key,
           NEW m \in {l, [l EXCEPT ![x] = WithLog(l[x], key)],
                        [l EXCEPT ![x] = WithoutLog(l[x], key)]}
    PROVE  /\ m \in [Jobs -> Entry]
           /\ \A j \in Jobs : m[j].status = l[j].status /\ m[j].payload = l[j].payload
<1>0. l[x] \in Entry /\ NoKey \in Key
  BY EntryTypes
<1>1. /\ WithLog(l[x], key) \in Entry
      /\ WithLog(l[x], key).status = l[x].status
      /\ WithLog(l[x], key).payload = l[x].payload
  BY <1>0 DEF Entry, WithLog
<1>2. /\ WithoutLog(l[x], key) \in Entry
      /\ WithoutLog(l[x], key).status = l[x].status
      /\ WithoutLog(l[x], key).payload = l[x].payload
  BY <1>0 DEF Entry, WithoutLog
<1> QED
  BY <1>1, <1>2

\* m is l with the accepted ids tracked, each for the payload at its place.
Appends(l, ids, owners, m) ==
    \A j \in Jobs :
        \/ /\ m[j] = l[j]
           /\ \A i \in DOMAIN ids \cap DOMAIN owners : ids[i] # j
        \/ /\ m[j].status = "submitted"
           /\ \E i \in DOMAIN ids \cap DOMAIN owners :
                 ids[i] = j /\ m[j].payload = owners[i]

\* The records of a submission are that.
LEMMA RecordedOK ==
    ASSUME LedgerAssumption, NEW l \in [Jobs -> Entry], NEW ids \in Seq(Jobs),
           NEW owners \in Seq(Jobs), NEW born \in Nat
    PROVE  /\ Recorded(l, ids, owners, born) \in [Jobs -> Entry]
           /\ Appends(l, ids, owners, Recorded(l, ids, owners, born))
<1>1. ASSUME NEW j \in Jobs, NEW i \in DOMAIN ids \cap DOMAIN owners
      PROVE  LET e == [NoEntry(j) EXCEPT !.status = "submitted", !.born = born + i,
                                         !.payload = owners[i]]
             IN  e \in Entry /\ e.status = "submitted" /\ e.payload = owners[i]
  <2>1. born + i \in Nat /\ owners[i] \in Jobs /\ "submitted" \in Statuses
    BY DEF Statuses
  <2> QED
    BY <2>1, EntryTypes DEF NoEntry, Entry
<1> DEFINE Hit(j) == \E i \in DOMAIN ids \cap DOMAIN owners : ids[i] = j
           at(j) == CHOOSE k \in DOMAIN ids \cap DOMAIN owners : ids[k] = j
           new(j) == [NoEntry(j) EXCEPT !.status = "submitted", !.born = born + at(j),
                                        !.payload = owners[at(j)]]
<1>2. \A j \in Jobs : Hit(j) => at(j) \in DOMAIN ids \cap DOMAIN owners /\ ids[at(j)] = j
  OBVIOUS
<1>3. Recorded(l, ids, owners, born) = [j \in Jobs |-> IF Hit(j) THEN new(j) ELSE l[j]]
  BY DEF Recorded
<1>4. ASSUME NEW j \in Jobs, Hit(j)
      PROVE  /\ new(j) \in Entry /\ new(j).status = "submitted"
             /\ new(j).payload = owners[at(j)]
  <2>1. at(j) \in DOMAIN ids \cap DOMAIN owners
    BY <1>2, <1>4
  <2> HIDE DEF at
  <2> QED
    BY <1>1, <2>1
<1> HIDE DEF at, new
<1>5. ASSUME NEW j \in Jobs, ~Hit(j)
      PROVE  \A i \in DOMAIN ids \cap DOMAIN owners : ids[i] # j
  BY <1>5
<1> DEFINE m == Recorded(l, ids, owners, born)
<1>6. \A j \in Jobs : m[j] = IF Hit(j) THEN new(j) ELSE l[j]
  BY <1>3
<1>7. m \in [Jobs -> Entry]
  BY <1>3, <1>4
<1> HIDE DEF m
<1>8. Appends(l, ids, owners, m)
  BY <1>2, <1>4, <1>5, <1>6 DEF Appends
<1> QED
  BY <1>7, <1>8 DEF m

-----------------------------------------------------------------------------
(* The host's moves.                                                       *)

Launched == {"hand", "running", "deferred", "over"}

\* A job that completed stays so, and so does one that is gone; one leaves
\* running.json into a hand.
Flows(v, w) ==
    /\ w \in H!View
    /\ w.done # "none" => w.at = "over"
    /\ v.done # "none" => w.done = v.done
    /\ v.at = "running" => w.at \in {"running", "hand"}
    /\ v.at = "gone" => w.at = "gone"

\* ... without being launched, or failing.
Calm(v, w) ==
    /\ Flows(v, w)
    /\ w.at \in Launched \/ w.due => v.at \in Launched \/ v.due
    /\ w.fail => v.fail

Sane(v) == v \in H!View /\ (v.done # "none" => v.at = "over")

LEMMA CalmMoves ==
    ASSUME NEW v, Sane(v)
    PROVE  /\ Calm(v, v)
           /\ \A w \in H!Tracked(v) \cup H!Succeeded(v) \cup H!Untracked(v) : Calm(v, w)
           /\ \A w \in H!PutBack(v) \cup H!Parked(v) : Calm(v, w)
           /\ \A w \in H!Unparked(v) \cup H!Dropped(v) \cup H!Deleted(v) : Calm(v, w)
           /\ \A w \in H!Lost(v) \cup H!Evicted(v) : Calm(v, w)
<1> USE DEF Sane, Calm, Flows, Launched, H!View, H!Places, H!From, H!To
<1>1. Calm(v, v)
  OBVIOUS
<1>2. \A w \in H!Tracked(v) : Calm(v, w)
  BY DEF H!Tracked
<1>3. \A w \in H!Succeeded(v) : Calm(v, w)
  BY DEF H!Succeeded
<1>4. \A w \in H!Untracked(v) : Calm(v, w)
  BY DEF H!Untracked
<1>5. \A w \in H!PutBack(v) : Calm(v, w)
  BY DEF H!PutBack
<1>6. ASSUME NEW w \in H!Parked(v) PROVE Calm(v, w)
  <2>1. PICK u \in H!To(H!From(v, "hand"), "deferred") : w = [u EXCEPT !.due = TRUE]
    BY <1>6 DEF H!Parked
  <2>2. v.at = "hand" /\ u = [v EXCEPT !.at = "deferred"]
    BY <2>1
  <2>3. w \in H!View /\ w.at = "deferred" /\ w.done = v.done /\ w.fail = v.fail
    BY <2>1, <2>2
  <2> QED
    BY <2>2, <2>3
<1>7. \A w \in H!Unparked(v) \cup H!Dropped(v) \cup H!Deleted(v) : Calm(v, w)
  BY DEF H!Unparked, H!Dropped, H!Deleted
<1>8. ASSUME NEW w \in H!Lost(v) PROVE Calm(v, w)
  <2>1. CASE w \in H!To(H!From(v, "hand"), "gone")
    BY <2>1
  <2>2. CASE w = [v EXCEPT !.due = FALSE]
    <3>1. w \in H!View /\ w.at = v.at /\ w.done = v.done /\ w.fail = v.fail /\ ~w.due
      BY <2>2
    <3> QED
      BY <3>1
  <2> QED
    BY <1>8, <2>1, <2>2 DEF H!Lost
<1>9. ASSUME NEW w \in H!Evicted(v) PROVE Calm(v, w)
  <2>1. w = [v EXCEPT !.fail = FALSE]
    BY <1>9 DEF H!Evicted
  <2>2. w \in H!View /\ w.at = v.at /\ w.done = v.done /\ w.due = v.due /\ ~w.fail
    BY <2>1
  <2> QED
    BY <2>2
<1> HIDE DEF Calm
<1> QED
  BY <1>1, <1>2, <1>3, <1>4, <1>5, <1>6, <1>7, <1>8, <1>9

LEMMA OtherMoves ==
    ASSUME NEW v, Sane(v)
    PROVE  /\ \A w \in H!Taken(v) : Flows(v, w) /\ (w.fail => v.fail)
           /\ \A w \in H!Failed(v) : /\ Flows(v, w) /\ w.fail /\ v.at \in Launched
                                     /\ w.due => v.due
           /\ \A w \in H!StartFailed(v) :
                 Flows(v, w) /\ w.fail /\ v.due /\ w.at = v.at
           /\ v.at = "new" => Calm(v, [v EXCEPT !.at = "queue"])
           /\ v.at = "queue" => Calm(v, [v EXCEPT !.at = "gone"])
<1> USE DEF Sane, Flows, Launched, H!View, H!Places, H!From, H!To
<1>1. \A w \in H!Taken(v) : Flows(v, w) /\ (w.fail => v.fail)
  BY DEF H!Taken
<1>2. ASSUME NEW w \in H!Failed(v)
      PROVE  Flows(v, w) /\ w.fail /\ v.at \in Launched /\ (w.due => v.due)
  <2>1. PICK u \in H!To(H!From(v, "hand"), "over") : w = [u EXCEPT !.fail = TRUE]
    BY <1>2 DEF H!Failed
  <2>2. v.at = "hand" /\ u = [v EXCEPT !.at = "over"]
    BY <2>1
  <2>3. w \in H!View /\ w.at = "over" /\ w.done = v.done /\ w.fail /\ w.due = v.due
    BY <2>1, <2>2
  <2> QED
    BY <2>2, <2>3
<1>3. ASSUME NEW w \in H!StartFailed(v)
      PROVE  Flows(v, w) /\ w.fail /\ v.due /\ w.at = v.at
  <2>0. PICK u \in {x \in {v} : x.due} : w = [u EXCEPT !.fail = TRUE, !.due = FALSE]
    BY <1>3 DEF H!StartFailed
  <2>1. v.due /\ w = [v EXCEPT !.fail = TRUE, !.due = FALSE]
    BY <2>0, Zenon
  <2>2. w \in H!View /\ w.at = v.at /\ w.done = v.done /\ w.fail
    BY <2>1
  <2> QED
    BY <2>1, <2>2
<1>4. v.at = "new" => Calm(v, [v EXCEPT !.at = "queue"])
  BY DEF Calm
<1>5. v.at = "queue" => Calm(v, [v EXCEPT !.at = "gone"])
  BY DEF Calm
<1> QED
  BY <1>1, <1>2, <1>3, <1>4, <1>5

\* Every record of an end has a launch it is about, and one of a failure is
\* remembered.
HostInv ==
    \A j \in Jobs :
        /\ Sane(view[j])
        /\ view[j].at \in Launched \/ view[j].due => runs[j].n > 0
        /\ view[j].fail => lastFail[j].n > 0 /\ j \in failedOnce

\* The whole of a step of the host.
LEMMA HostFlows ==
    ASSUME HostOK, HostInv, failedOnce \in SUBSET Jobs,
           HostStep \/ UNCHANGED <<hostVars, failedOnce>>
    PROVE  /\ HostOK' /\ HostInv' /\ failedOnce' \in SUBSET Jobs
           /\ failedOnce \subseteq failedOnce'
           /\ \A j \in Jobs : Flows(view[j], view'[j])
<1> USE DEF HostOK
<1>0. \A j \in Jobs : Sane(view[j])
  BY DEF HostInv
<1>u. ASSUME UNCHANGED hostVars, UNCHANGED failedOnce
      PROVE  /\ HostOK' /\ HostInv' /\ failedOnce' \in SUBSET Jobs
             /\ failedOnce \subseteq failedOnce'
             /\ \A j \in Jobs : Flows(view[j], view'[j])
  BY <1>0, <1>u, CalmMoves DEF hostVars, HostInv, Calm
\* One job moves, and nothing else is known of it.
<1>m. ASSUME NEW j \in Jobs, NEW v, Moved(j, v), Flows(view[j], v)
      PROVE  /\ view' \in [Jobs -> H!View] /\ view'[j] = v
             /\ \A i \in Jobs \ {j} : view'[i] = view[i]
             /\ \A i \in Jobs : Flows(view[i], view'[i]) /\ Sane(view'[i])
  <2>1. view' = [view EXCEPT ![j] = v] /\ v \in H!View
    BY <1>m DEF Moved, Flows
  <2>2. \A i \in Jobs : Flows(view[i], view[i])
    BY <1>0, CalmMoves DEF Calm
  <2>3. Sane(v)
    BY <1>m DEF Flows, Sane
  <2> QED
    BY <1>0, <1>m, <2>1, <2>2, <2>3
<1>c. ASSUME NEW j \in Jobs, NEW v, Moved(j, v), Calm(view[j], v),
             UNCHANGED <<runs, lastFail, failedOnce>>, logs' \in [Workers \X Jobs -> Nat]
      PROVE  /\ HostOK' /\ HostInv' /\ failedOnce' \in SUBSET Jobs
             /\ failedOnce \subseteq failedOnce'
             /\ \A i \in Jobs : Flows(view[i], view'[i])
  <2>1. /\ view' \in [Jobs -> H!View] /\ view'[j] = v
        /\ \A i \in Jobs \ {j} : view'[i] = view[i]
        /\ \A i \in Jobs : Flows(view[i], view'[i]) /\ Sane(view'[i])
    BY <1>c, <1>m DEF Calm
  <2>2. HostInv'
    BY <1>c, <2>1 DEF HostInv, Calm
  <2> QED
    BY <1>c, <2>1, <2>2
<1>1. ASSUME NEW j \in Jobs, NEW w \in Workers, Launch(j, w)
      PROVE  /\ HostOK' /\ HostInv' /\ failedOnce' \in SUBSET Jobs
             /\ failedOnce \subseteq failedOnce'
             /\ \A i \in Jobs : Flows(view[i], view'[i])
  <2>1. PICK v \in H!Taken(view[j]) : Moved(j, v)
    BY <1>1 DEF Launch
  <2>2. Flows(view[j], v) /\ (v.fail => view[j].fail)
    BY <1>0, OtherMoves
  <2>3. /\ view' \in [Jobs -> H!View] /\ view'[j] = v
        /\ \A i \in Jobs \ {j} : view'[i] = view[i]
        /\ \A i \in Jobs : Flows(view[i], view'[i]) /\ Sane(view'[i])
    BY <1>m, <2>1, <2>2
  <2>4. /\ runs' = [runs EXCEPT ![j] = [n |-> runs[j].n + 1, host |-> w]]
        /\ lastFail' = lastFail /\ failedOnce' = failedOnce
    BY <1>1 DEF Launch
  <2>5. runs[j].n + 1 \in Nat /\ runs[j].n + 1 > 0
    BY DEF Run
  <2>6. runs' \in [Jobs -> Run] /\ runs'[j].n > 0
    BY <2>4, <2>5 DEF Run, Place
  <2>7. logs' \in [Workers \X Jobs -> Nat]
    BY <1>1, <2>5 DEF Launch
  <2>8. HostInv'
    BY <2>2, <2>3, <2>4, <2>6 DEF HostInv
  <2> QED
    BY <2>3, <2>4, <2>6, <2>7, <2>8
<1>2. ASSUME NEW j \in Jobs, NEW w \in Workers, Recycle(w, j)
      PROVE  /\ HostOK' /\ HostInv' /\ failedOnce' \in SUBSET Jobs
             /\ failedOnce \subseteq failedOnce'
             /\ \A i \in Jobs : Flows(view[i], view'[i])
  <2>1. UNCHANGED <<view, runs, lastFail, failedOnce>> /\ logs' \in [Workers \X Jobs -> Nat]
    BY <1>2 DEF Recycle
  <2> QED
    BY <1>0, <2>1, CalmMoves DEF HostInv, Calm
<1>3. ASSUME NEW j \in Jobs, Progress(j) \/ GoBack(j) \/ Operate(j) \/ HostLoses(j)
      PROVE  /\ HostOK' /\ HostInv' /\ failedOnce' \in SUBSET Jobs
             /\ failedOnce \subseteq failedOnce'
             /\ \A i \in Jobs : Flows(view[i], view'[i])
  <2>1. UNCHANGED <<runs, lastFail, failedOnce>> /\ logs' = logs
    BY <1>3 DEF Progress, GoBack, Operate, HostLoses
  <2>2. \E v : Moved(j, v) /\ Calm(view[j], v)
    <3>1. CASE Progress(j)
      BY <1>0, <3>1, CalmMoves DEF Progress
    <3>2. CASE GoBack(j)
      BY <1>0, <3>2, CalmMoves DEF GoBack
    <3>3. CASE Operate(j)
      BY <1>0, <3>3, CalmMoves DEF Operate
    <3>4. CASE HostLoses(j)
      BY <1>0, <3>4, CalmMoves DEF HostLoses
    <3> QED
      BY <1>3, <3>1, <3>2, <3>3, <3>4
  <2> QED
    BY <1>c, <2>1, <2>2
<1>4. ASSUME NEW j \in Jobs, Fail(j)
      PROVE  /\ HostOK' /\ HostInv' /\ failedOnce' \in SUBSET Jobs
             /\ failedOnce \subseteq failedOnce'
             /\ \A i \in Jobs : Flows(view[i], view'[i])
  <2>1. PICK v \in H!Failed(view[j]) \cup H!StartFailed(view[j]) : Moved(j, v)
    BY <1>4 DEF Fail
  <2>2. /\ Flows(view[j], v) /\ v.fail /\ (view[j].at \in Launched \/ view[j].due)
        /\ v.at \in Launched \/ v.due => view[j].at \in Launched \/ view[j].due
    BY <1>0, OtherMoves
  <2>3. /\ view' \in [Jobs -> H!View] /\ view'[j] = v
        /\ \A i \in Jobs \ {j} : view'[i] = view[i]
        /\ \A i \in Jobs : Flows(view[i], view'[i]) /\ Sane(view'[i])
    BY <1>m, <2>1, <2>2
  <2>4. /\ runs' = runs /\ logs' = logs
        /\ lastFail' = [lastFail EXCEPT ![j] = runs[j]]
        /\ failedOnce' = failedOnce \cup {j}
    BY <1>4 DEF Fail
  <2>5. runs[j].n > 0
    BY <2>2 DEF HostInv
  <2>6. HostInv'
    BY <2>2, <2>3, <2>4, <2>5 DEF HostInv
  <2> QED
    BY <2>3, <2>4, <2>6
<1> QED
  BY <1>u, <1>1, <1>2, <1>3, <1>4 DEF HostStep

-----------------------------------------------------------------------------
(* Types.                                                                  *)

\* A fetch is about one job, whose record names a worker; only a fetch copies.
FetchSound(r) ==
    /\ r.cmd = "fetch" => \E x \in Jobs : r.sent = {x} /\ r.snap[x].host \in Workers
    /\ r.pc \in {"copy", "copying"} => r.cmd = "fetch"

FetchOK == \A c \in Clients : FetchSound(cl[c])

Typed == TypeOK /\ HostInv /\ FetchOK

Assumptions == LedgerAssumption /\ ClientAssumption /\ WatcherAssumption

\* Only the process c moved, to the record r.
Alone(c, r) ==
    /\ r \in Control
    /\ cl' = [cl EXCEPT ![c] = r]
    /\ FetchSound(r)

LEMMA AloneOK ==
    ASSUME Typed, NEW c \in Clients, NEW r, Alone(c, r)
    PROVE  /\ cl' \in [Clients -> Control] /\ FetchOK' /\ cl'[c] = r
           /\ \A d \in Clients \ {c} : cl'[d] = cl[d]
BY DEF Typed, TypeOK, CommandsOK, FetchOK, Alone

LEMMA IdleOK ==
    ASSUME Assumptions
    PROVE  /\ Idle \in Control /\ Idle.pc = "idle" /\ Idle.cmd = "none"
           /\ Idle.line = <<>> /\ Idle.ready = <<>> /\ Idle.results = <<>>
           /\ Idle.sent = {} /\ Idle.asks = {} /\ Idle.rounds = 0 /\ Idle.got = 0
           /\ Idle.snap = Empty
BY EntryTypes DEF Assumptions, Idle, Control, Commands, Steps

LEMMA GotoAlone ==
    ASSUME Typed, NEW c \in Clients, NEW pc \in Steps \ {"copy", "copying"}, Goto(c, pc)
    PROVE  Alone(c, [cl[c] EXCEPT !.pc = pc])
<1>1. cl[c] \in Control /\ DOMAIN cl = Clients
  BY DEF Typed, TypeOK, CommandsOK
<1>2. [cl[c] EXCEPT !.pc = pc] \in Control
  BY <1>1 DEF Control
<1>3. cl' = [cl EXCEPT ![c] = [cl[c] EXCEPT !.pc = pc]]
  BY <1>1 DEF Goto
<1>4. FetchSound([cl[c] EXCEPT !.pc = pc])
  <2> DEFINE r == [cl[c] EXCEPT !.pc = pc]
  <2>1. r.cmd = cl[c].cmd /\ r.sent = cl[c].sent /\ r.snap = cl[c].snap /\ r.pc = pc
    BY <1>1 DEF Control
  <2> HIDE DEF r
  <2> QED
    BY <2>1 DEF Typed, FetchOK, FetchSound
<1> QED
  BY <1>2, <1>3, <1>4 DEF Alone

LEMMA QuietAlone ==
    ASSUME Assumptions, Typed, NEW c \in Clients, Quiet(c)
    PROVE  /\ Alone(c, Idle)
           /\ ans' = [ans EXCEPT ![c] = Silence] /\ ans' \in [Clients -> [Jobs -> Answer]]
           /\ box' = [box EXCEPT ![c] = Empty] /\ box' \in [Clients -> [Jobs -> Entry]]
           /\ seen' \in [Clients -> [Jobs -> SUBSET Sightings]]
<1>1. Alone(c, Idle)
  BY IdleOK DEF Quiet, Alone, FetchSound
<1>2. Silence \in [Jobs -> Answer] /\ Empty \in [Jobs -> Entry]
  BY EntryTypes DEF Assumptions
<1> QED
  BY <1>1, <1>2 DEF Quiet, Typed, TypeOK, CommandsOK, GhostsOK

\* The records that commands start from.
LEMMA StartAlone ==
    ASSUME Assumptions, NEW c \in Clients
    PROVE  /\ \A u \in Seq(Jobs) :
                 cl' = [cl EXCEPT ![c] = [Idle EXCEPT !.cmd = "submit", !.pc = "post",
                                                      !.line = u, !.ready = u]]
                    => Alone(c, [Idle EXCEPT !.cmd = "submit", !.pc = "post",
                                             !.line = u, !.ready = u])
           /\ \A k \in {"jobs", "info"}, S \in SUBSET Jobs :
                 cl' = [cl EXCEPT ![c] = [Idle EXCEPT !.cmd = k, !.pc = "post", !.asks = S]]
                    => Alone(c, [Idle EXCEPT !.cmd = k, !.pc = "post", !.asks = S])
           /\ \A k \in {"qdel", "forget"}, pc \in {"call", "lock"}, S \in SUBSET Jobs :
                 cl' = [cl EXCEPT ![c] = [Idle EXCEPT !.cmd = k, !.pc = pc, !.sent = S]]
                    => Alone(c, [Idle EXCEPT !.cmd = k, !.pc = pc, !.sent = S])
           /\ \A x \in Jobs, e \in Entry :
                 e.host # NoWorker /\ cl' = [cl EXCEPT ![c] = [Idle EXCEPT !.cmd = "fetch", !.pc = "copy",
                                             !.sent = {x}, !.snap = [Empty EXCEPT ![x] = e]]]
                    => Alone(c, [Idle EXCEPT !.cmd = "fetch", !.pc = "copy",
                                             !.sent = {x}, !.snap = [Empty EXCEPT ![x] = e]])
<1>1. /\ {"post", "call", "lock", "copy"} \subseteq Steps
      /\ {"submit", "jobs", "info", "qdel", "forget", "fetch"} \subseteq Commands
  BY DEF Steps, Commands
<1>2. ASSUME NEW u \in Seq(Jobs)
      PROVE  LET r == [Idle EXCEPT !.cmd = "submit", !.pc = "post", !.line = u, !.ready = u]
             IN  r \in Control /\ FetchSound(r)
  BY <1>1, IdleOK DEF Control, FetchSound
<1>3. ASSUME NEW k \in {"jobs", "info"}, NEW S \in SUBSET Jobs
      PROVE  LET r == [Idle EXCEPT !.cmd = k, !.pc = "post", !.asks = S]
             IN  r \in Control /\ FetchSound(r)
  BY <1>1, IdleOK DEF Control, FetchSound
<1>4. ASSUME NEW k \in {"qdel", "forget"}, NEW pc \in {"call", "lock"}, NEW S \in SUBSET Jobs
      PROVE  LET r == [Idle EXCEPT !.cmd = k, !.pc = pc, !.sent = S]
             IN  r \in Control /\ FetchSound(r)
  BY <1>1, IdleOK DEF Control, FetchSound
<1>5. ASSUME NEW x \in Jobs, NEW e \in Entry, e.host # NoWorker
      PROVE  LET r == [Idle EXCEPT !.cmd = "fetch", !.pc = "copy", !.sent = {x},
                                   !.snap = [Empty EXCEPT ![x] = e]]
             IN  r \in Control /\ FetchSound(r)
  <2> DEFINE snap == [Empty EXCEPT ![x] = e]
  <2>1. snap \in [Jobs -> Entry] /\ snap[x] = e
    BY EntryTypes DEF Assumptions
  <2>2. e.host \in Workers
    BY <1>5 DEF Entry, Place
  <2> HIDE DEF snap
  <2>3. LET r == [Idle EXCEPT !.cmd = "fetch", !.pc = "copy", !.sent = {x}, !.snap = snap]
        IN  r \in Control /\ r.cmd = "fetch" /\ r.sent = {x} /\ r.snap = snap
    BY <1>1, <2>1, IdleOK DEF Control
  <2> QED
    BY <2>1, <2>2, <2>3 DEF snap, FetchSound
<1> QED
  BY <1>2, <1>3, <1>4, <1>5 DEF Alone

LEMMA SpendOK ==
    ASSUME Typed, NEW kind \in Kinds, Spend(kind)
    PROVE  budget' \in [Kinds -> Nat]
BY DEF Typed, TypeOK, GhostsOK, Spend

LEMMA KindsOK ==
    {"submit", "batch", "jobs", "info", "qdel", "forget", "fetch", "give_up", "refuse",
     "write_fails", "die", "launch", "operate", "crash", "evict", "recycle"} \subseteq Kinds
BY DEF Kinds

LEMMA WatchOK ==
    ASSUME Typed, view' \in [Jobs -> H!View], Watch
    PROVE  seen' \in [Clients -> [Jobs -> SUBSET Sightings]]
<1>1. \A v \in H!View : Sighting(v) \in Sightings
  BY DEF Sighting, Sightings
<1> QED
  BY <1>1 DEF Watch, Watched, Typed, TypeOK, GhostsOK

\* Steps of commands that leave the host, the ledger and the past alone.
ghostRest == <<minted, posted, told, removed, failedOnce, excused, appended, refetched>>

LEMMA PlainTyped ==
    ASSUME Typed, NEW c \in Clients, NEW r, Alone(c, r),
           UNCHANGED <<hostVars, oldHost, ghostRest>>,
           ledger' \in [Jobs -> Entry], lock' \in Clients \cup {NoClient},
           cache' \in [Jobs -> Copy], late' \in SUBSET Requests,
           ans' \in [Clients -> [Jobs -> Answer]],
           box' \in [Clients -> [Jobs -> Entry]],
           seen' \in [Clients -> [Jobs -> SUBSET Sightings]],
           budget' \in [Kinds -> Nat]
    PROVE  Typed'
<1>1. cl' \in [Clients -> Control] /\ FetchOK'
  BY AloneOK
<1>2. HostOK' /\ HostInv'
  BY HostFlows DEF ghostRest, Typed, TypeOK, GhostsOK
<1> QED
  BY <1>1, <1>2 DEF Typed, TypeOK, MachineOK, CommandsOK, GhostsOK, ghostRest

\* A step that only takes c elsewhere.
LEMMA StepTyped ==
    ASSUME Typed, NEW c \in Clients, NEW r, Alone(c, r),
           UNCHANGED <<world, ans, box, seen, ghostRest>>, budget' \in [Kinds -> Nat]
    PROVE  Typed'
<1>1. /\ ledger' \in [Jobs -> Entry] /\ lock' \in Clients \cup {NoClient}
      /\ cache' \in [Jobs -> Copy] /\ late' \in SUBSET Requests
      /\ ans' \in [Clients -> [Jobs -> Answer]]
      /\ box' \in [Clients -> [Jobs -> Entry]]
      /\ seen' \in [Clients -> [Jobs -> SUBSET Sightings]]
  BY DEF Typed, TypeOK, MachineOK, CommandsOK, GhostsOK, world, clientVars
<1>2. UNCHANGED <<hostVars, oldHost, ghostRest>>
  BY DEF world
<1> QED
  BY <1>1, <1>2, PlainTyped

LEMMA StartsTyped ==
    ASSUME Assumptions, Typed, NEW c \in Clients,
           \/ StartJobs(c)
           \/ \E j \in Jobs : StartInfo(c, j) \/ StartForget(c, j)
           \/ \E S \in SUBSET Jobs : StartQdel(c, S)
    PROVE  Typed'
<1>u. ghostVars' = ghostVars => ghostRest' = ghostRest
  BY DEF ghostVars, ghostRest
<1>1. CASE StartJobs(c)
  <2>1. UNCHANGED <<world, ans, box, seen, ghostRest>> /\ budget' \in [Kinds -> Nat]
    BY <1>1, <1>u, KindsOK, SpendOK DEF StartJobs, Begin
  <2>2. PICK S \in SUBSET Jobs :
           cl' = [cl EXCEPT ![c] = [Idle EXCEPT !.cmd = "jobs", !.pc = "post", !.asks = S]]
    BY <1>1 DEF StartJobs, TrackedIn
  <2>3. Alone(c, [Idle EXCEPT !.cmd = "jobs", !.pc = "post", !.asks = S])
    BY <2>2, StartAlone
  <2> QED
    BY <2>1, <2>3, StepTyped
<1>2. ASSUME NEW j \in Jobs, StartInfo(c, j) PROVE Typed'
  <2>1. UNCHANGED <<world, ans, box, seen, ghostRest>> /\ budget' \in [Kinds -> Nat]
    BY <1>2, <1>u, KindsOK, SpendOK DEF StartInfo, Begin
  <2>3. Alone(c, [Idle EXCEPT !.cmd = "info", !.pc = "post", !.asks = {j}])
    BY <1>2, StartAlone DEF StartInfo
  <2> QED
    BY <2>1, <2>3, StepTyped
<1>3. ASSUME NEW j \in Jobs, StartForget(c, j) PROVE Typed'
  <2>1. UNCHANGED <<world, ans, box, seen, ghostRest>> /\ budget' \in [Kinds -> Nat]
    BY <1>3, <1>u, KindsOK, SpendOK DEF StartForget, Begin
  <2>3. Alone(c, [Idle EXCEPT !.cmd = "forget", !.pc = "lock", !.sent = {j}])
    BY <1>3, StartAlone DEF StartForget
  <2> QED
    BY <2>1, <2>3, StepTyped
<1>4. ASSUME NEW S \in SUBSET Jobs, StartQdel(c, S) PROVE Typed'
  <2>1. UNCHANGED <<world, ans, box, seen, ghostRest>> /\ budget' \in [Kinds -> Nat]
    BY <1>4, <1>u, KindsOK, SpendOK DEF StartQdel, Begin
  <2>3. Alone(c, [Idle EXCEPT !.cmd = "qdel", !.pc = "call", !.sent = S])
    BY <1>4, StartAlone DEF StartQdel
  <2> QED
    BY <2>1, <2>3, StepTyped
<1> QED
  BY <1>1, <1>2, <1>3, <1>4

LEMMA HostSame ==
    ASSUME Typed, UNCHANGED <<hostVars, failedOnce>>
    PROVE  HostOK' /\ HostInv'
BY HostFlows DEF Typed, TypeOK, GhostsOK

LEMMA StartSubmitTyped ==
    ASSUME Assumptions, Typed, NEW c \in Clients, NEW ids \in Submissions,
           StartSubmit(c, ids)
    PROVE  Typed'
<1>1. PICK u \in Uploads(ids) :
         cl' = [cl EXCEPT ![c] = [Idle EXCEPT !.cmd = "submit", !.pc = "post",
                                              !.line = u, !.ready = u]]
  BY DEF StartSubmit
<1>2. Alone(c, [Idle EXCEPT !.cmd = "submit", !.pc = "post", !.line = u, !.ready = u])
  BY <1>1, UploadsOK, StartAlone DEF Assumptions
<1>3. cl' \in [Clients -> Control] /\ FetchOK'
  BY <1>2, AloneOK
<1>4. budget' \in [Kinds -> Nat]
  BY KindsOK, SpendOK DEF StartSubmit, Begin
<1>5. minted' \in SUBSET Jobs
  <2>1. ids \in Seq(Jobs)
    BY DEF Assumptions, ClientAssumption
  <2> QED
    BY <2>1 DEF StartSubmit, Typed, TypeOK, GhostsOK
<1>6. HostOK' /\ HostInv'
  BY HostSame DEF StartSubmit, world
<1> QED
  BY <1>3, <1>4, <1>5, <1>6 DEF StartSubmit, Typed, TypeOK, MachineOK, CommandsOK, GhostsOK,
     world, clientVars

LEMMA StartFetchTyped ==
    ASSUME Assumptions, Typed, NEW c \in Clients, NEW j \in Jobs, StartFetch(c, j)
    PROVE  Typed'
<1>1. Alone(c, [Idle EXCEPT !.cmd = "fetch", !.pc = "copy", !.sent = {j},
                            !.snap = [Empty EXCEPT ![j] = ledger[j]]])
  BY StartAlone DEF StartFetch, ShouldFetch, Typed, TypeOK, MachineOK
<1>3. cl' \in [Clients -> Control] /\ FetchOK'
  BY <1>1, AloneOK
<1>4. budget' \in [Kinds -> Nat]
  BY KindsOK, SpendOK DEF StartFetch, Begin
<1>5. refetched' \in SUBSET Jobs
  BY DEF StartFetch, Typed, TypeOK, GhostsOK
<1>6. HostOK' /\ HostInv'
  BY HostSame DEF StartFetch, world
<1> QED
  BY <1>3, <1>4, <1>5, <1>6 DEF StartFetch, Typed, TypeOK, MachineOK, CommandsOK, GhostsOK,
     world, clientVars

LEMMA WatchesTyped ==
    ASSUME Assumptions, Typed, Watches
    PROVE  Typed'
<1>1. UNCHANGED <<world, ans, box, seen, ghostRest>> /\ budget' \in [Kinds -> Nat]
  BY DEF Watches, ghostRest, ghostVars, Typed, TypeOK, GhostsOK
<1>2. PICK S \in SUBSET Jobs :
         cl' = [cl EXCEPT ![Watcher] = [Idle EXCEPT !.cmd = "jobs", !.pc = "post", !.asks = S]]
  BY DEF Watches, TrackedIn
<1>3. Watcher \in Clients
  BY DEF Assumptions, WatcherAssumption
<1>4. Alone(Watcher, [Idle EXCEPT !.cmd = "jobs", !.pc = "post", !.asks = S])
  BY <1>2, <1>3, StartAlone
<1> QED
  BY <1>1, <1>3, <1>4, StepTyped

\* The host changes its queue; nothing else about it.
LEMMA QueueChangeOK ==
    ASSUME Typed, NEW S \in SUBSET Jobs, UNCHANGED <<runs, lastFail, logs, failedOnce>>,
           Enqueued(S) \/ (Queued(S) /\ TakenOff(S))
    PROVE  HostOK' /\ HostInv' /\ \A j \in Jobs : Flows(view[j], view'[j])
<1>1. view \in [Jobs -> H!View] /\ \A j \in Jobs : Sane(view[j])
  BY DEF Typed, TypeOK, HostOK, HostInv
<1>2. ASSUME NEW j \in Jobs PROVE Calm(view[j], view'[j])
  <2>1. CASE view'[j] = view[j]
    BY <1>1, <2>1, CalmMoves
  <2>2. CASE view[j].at = "new" /\ view'[j] = [view[j] EXCEPT !.at = "queue"]
    BY <1>1, <2>2, OtherMoves
  <2>3. CASE view[j].at = "queue" /\ view'[j] = [view[j] EXCEPT !.at = "gone"]
    BY <1>1, <2>3, OtherMoves
  <2> QED
    BY <2>1, <2>2, <2>3 DEF Enqueued, Queued, TakenOff
<1>3. view' \in [Jobs -> H!View]
  <2>1. DOMAIN view' = Jobs /\ view' = [j \in Jobs |-> view'[j]]
    BY DEF Enqueued, TakenOff
  <2> QED
    BY <1>2, <2>1 DEF Calm, Flows
<1>4. HostInv'
  BY <1>2 DEF Typed, HostInv, Calm, Flows, Sane
<1> QED
  BY <1>2, <1>3, <1>4 DEF Calm, Typed, TypeOK, HostOK

LEMMA SubmitTyped ==
    ASSUME Assumptions, Typed, NEW c \in Clients,
           Post(c) \/ ServeEnqueue(c) \/ EnqueuedAnswer(c)
    PROVE  Typed'
<1>0. /\ cl[c] \in Control /\ DOMAIN cl = Clients /\ oldHost \in BOOLEAN
      /\ cl[c].line \in Seq(Jobs) /\ cl[c].results \in Seq(Jobs) /\ cl[c].rounds \in Nat
      /\ cl[c].sent \in SUBSET Jobs
  BY DEF Typed, TypeOK, CommandsOK, Control
<1>p. /\ Parcel(cl[c].line) \in Seq(Jobs) /\ Len(Parcel(cl[c].line)) \in 0..Len(cl[c].line)
  BY <1>0, Parcels DEF Assumptions
<1>s. {"post", "call", "reply", "lock"} \subseteq Steps
  BY DEF Steps
<1>1. CASE Post(c)
  <2>1. InParcel(c) \subseteq Jobs
    BY <1>p DEF InParcel
  <2> DEFINE r == [cl[c] EXCEPT !.pc = "call", !.sent = InParcel(c), !.rounds = @ + 1]
  <2>2. r \in Control /\ FetchSound(r)
    BY <1>0, <1>1, <1>s, <2>1 DEF Control, Post, FetchSound
  <2>3. cl' = [cl EXCEPT ![c] = r]
    BY <1>0, <1>1 DEF Post
  <2> HIDE DEF r
  <2>4. cl' \in [Clients -> Control] /\ FetchOK'
    BY <2>2, <2>3, AloneOK DEF Alone
  <2>5. posted' \in [Jobs -> Nat]
    BY <1>1 DEF Post, Typed, TypeOK, GhostsOK
  <2>6. HostOK' /\ HostInv'
    BY <1>1, HostSame DEF Post, world
  <2> QED
    BY <1>1, <2>4, <2>5, <2>6 DEF Post, Typed, TypeOK, MachineOK, CommandsOK, GhostsOK,
       world, clientVars
<1>2. CASE ServeEnqueue(c)
  <2>1. HostOK' /\ HostInv'
    BY <1>0, <1>2, QueueChangeOK DEF ServeEnqueue, ghostVars
  <2>2. cl' \in [Clients -> Control] /\ FetchOK'
    BY <1>2, <1>s, GotoAlone, AloneOK DEF ServeEnqueue
  <2>3. seen' \in [Clients -> [Jobs -> SUBSET Sightings]]
    BY <1>2, <2>1, WatchOK DEF ServeEnqueue, HostOK
  <2> QED
    BY <1>2, <2>1, <2>2, <2>3 DEF ServeEnqueue, Typed, TypeOK, MachineOK, CommandsOK,
       GhostsOK, ghostVars, clientVars
<1>3. CASE EnqueuedAnswer(c)
  <2> DEFINE line   == cl[c].line
             parcel == Parcel(line)
             rest   == SubSeq(line, Len(parcel) + 1, Len(line))
             pc     == IF rest # <<>> /\ (oldHost \/ cl[c].rounds < MaxRounds)
                       THEN "post" ELSE "lock"
             more   == cl[c].results \o parcel
             r == [cl[c] EXCEPT !.results = more, !.line = rest, !.sent = {}, !.pc = pc]
  <2>1. rest \in Seq(Jobs)
    BY <1>0, <1>p, Suffix
  <2>2. more \in Seq(Jobs)
    BY <1>0, <1>p, Joined
  <2>3. pc \in {"post", "lock"}
    OBVIOUS
  <2>4. cl' = [cl EXCEPT ![c] = r]
    <3>1. cl' = [cl EXCEPT ![c].results = more, ![c].line = rest, ![c].sent = {},
                           ![c].pc = pc]
      BY <1>3 DEF EnqueuedAnswer
    <3> HIDE DEF more, rest, pc
    <3> QED
      BY <1>0, <3>1
  <2> HIDE DEF more, rest, pc
  <2>5. r \in Control /\ FetchSound(r)
    BY <1>0, <1>3, <1>s, <2>1, <2>2, <2>3 DEF Control, EnqueuedAnswer, FetchSound
  <2>6. UNCHANGED <<world, ans, box, seen, ghostRest, budget>>
    BY <1>3 DEF EnqueuedAnswer, ghostVars, ghostRest
  <2>7. budget' \in [Kinds -> Nat]
    BY <2>6 DEF Typed, TypeOK, GhostsOK
  <2> QED
    BY <2>4, <2>5, <2>6, <2>7, StepTyped DEF Alone
<1> QED
  BY <1>1, <1>2, <1>3

LEMMA QdelTyped ==
    ASSUME Assumptions, Typed, NEW c \in Clients,
           ServeQdel(c) \/ QdelNotFound(c) \/ QdelAnswer(c)
    PROVE  Typed'
<1>0. cl[c].sent \in SUBSET Jobs
  BY DEF Typed, TypeOK, CommandsOK, Control
<1>s. {"reply", "lock"} \subseteq Steps
  BY DEF Steps
<1>1. CASE ServeQdel(c)
  <2>1. HostOK' /\ HostInv'
    BY <1>0, <1>1, QueueChangeOK DEF ServeQdel
  <2>2. cl' \in [Clients -> Control] /\ FetchOK'
    BY <1>1, <1>s, GotoAlone, AloneOK DEF ServeQdel
  <2>3. seen' \in [Clients -> [Jobs -> SUBSET Sightings]]
    BY <1>1, <2>1, WatchOK DEF ServeQdel, HostOK
  <2>4. removed' \in SUBSET Jobs
    BY <1>0, <1>1 DEF ServeQdel, TakenOff, Typed, TypeOK, GhostsOK
  <2> QED
    BY <1>1, <2>1, <2>2, <2>3, <2>4 DEF ServeQdel, Typed, TypeOK, MachineOK, CommandsOK,
       GhostsOK, clientVars
<1>2. CASE QdelNotFound(c)
  <2>1. /\ Alone(c, Idle) /\ ans' \in [Clients -> [Jobs -> Answer]]
        /\ box' \in [Clients -> [Jobs -> Entry]]
        /\ seen' \in [Clients -> [Jobs -> SUBSET Sightings]]
    BY <1>2, QuietAlone DEF QdelNotFound, Exit
  <2>2. UNCHANGED <<hostVars, oldHost, ghostRest, ledger, lock, cache, late, budget>>
    BY <1>2 DEF QdelNotFound, Exit, world, clientVars, ghostVars, ghostRest
  <2>3. /\ ledger' \in [Jobs -> Entry] /\ lock' \in Clients \cup {NoClient}
        /\ cache' \in [Jobs -> Copy] /\ late' \in SUBSET Requests
        /\ budget' \in [Kinds -> Nat]
    BY <2>2 DEF Typed, TypeOK, MachineOK, CommandsOK, GhostsOK
  <2> QED
    BY <2>1, <2>2, <2>3, PlainTyped
<1>3. CASE QdelAnswer(c)
  <2>1. UNCHANGED <<world, ans, box, seen, ghostRest>> /\ budget' \in [Kinds -> Nat]
    BY <1>3 DEF QdelAnswer, ghostVars, ghostRest, Typed, TypeOK, GhostsOK
  <2>2. Alone(c, [cl[c] EXCEPT !.pc = "lock"])
    BY <1>3, <1>s, GotoAlone DEF QdelAnswer
  <2> QED
    BY <2>1, <2>2, StepTyped
<1> QED
  BY <1>1, <1>2, <1>3


LEMMA AccountTyped ==
    ASSUME Typed, NEW j \in Jobs,
           NEW file \in {"queue", "running", "completed", "failed"}, Found(j, file)
    PROVE  Account(j, file) \in Answer /\ Account(j, file).status \in HostStatuses
<1> DEFINE n == runs[j].n
           m == lastFail[j].n
<1>1. /\ n \in Nat /\ m \in Nat /\ runs[j].host \in Place /\ lastFail[j].host \in Place
      /\ view[j] \in H!View
  BY DEF Typed, TypeOK, HostOK, Run
<1>2. NoWorker \in Place
  BY DEF Place
<1>3. CASE file = "queue"
  BY <1>2, <1>3 DEF Account, Says, Answer, HostStatuses
<1>4. CASE file = "running"
  <2>1. n > 0
    BY <1>4 DEF Found, Typed, HostInv, Launched
  <2>2. 2 * n - 1 \in Nat
    BY <1>1, <2>1
  <2>3. Account(j, file) = [status |-> "running", host |-> runs[j].host,
                            started |-> 2 * n - 1, finished |-> 0]
    BY <1>4 DEF Account, Says
  <2> QED
    BY <1>1, <2>2, <2>3 DEF Answer, HostStatuses
<1>5. CASE file = "completed"
  <2>1. view[j].done # "none"
    BY <1>5 DEF Found
  <2>2. n > 0
    BY <2>1 DEF Typed, HostInv, Sane, Launched
  <2>3. 2 * n - 1 \in Nat /\ 2 * n \in Nat
    BY <1>1, <2>2
  <2>4. view[j].done \in {"completed", "unknown"}
    BY <1>1, <2>1 DEF H!View
  <2>5. Account(j, file) = [status |-> view[j].done, host |-> runs[j].host,
                            started |-> 2 * n - 1, finished |-> 2 * n]
    BY <1>5 DEF Account, Says
  <2> QED
    BY <1>1, <2>3, <2>4, <2>5 DEF Answer, HostStatuses
<1>6. CASE file = "failed"
  <2>1. m > 0
    BY <1>6 DEF Found, Typed, HostInv
  <2>2. 2 * m - 1 \in Nat /\ 2 * m \in Nat
    BY <1>1, <2>1
  <2>3. Account(j, file) = [status |-> "failed", host |-> lastFail[j].host,
                            started |-> 2 * m - 1, finished |-> 2 * m]
    BY <1>6 DEF Account, Says
  <2> QED
    BY <1>1, <2>2, <2>3 DEF Answer, HostStatuses
<1> QED
  BY <1>3, <1>4, <1>5, <1>6

LEMMA NoneTyped ==
    /\ Says("none", NoWorker, 0, 0) \in Answer
    /\ Says("none", NoWorker, 0, 0).status = "none"
BY DEF Says, Answer, Place

LEMMA AskTyped ==
    ASSUME Assumptions, Typed, NEW c \in Clients, Ask(c)
    PROVE  Typed'
<1>0. /\ cl[c] \in Control /\ DOMAIN cl = Clients /\ cl[c].asks \in SUBSET Jobs
      /\ cl[c].rounds \in Nat /\ DOMAIN ans = Clients /\ DOMAIN seen = Clients
      /\ ans[c] \in [Jobs -> Answer] /\ seen[c] \in [Jobs -> SUBSET Sightings]
  BY DEF Typed, TypeOK, CommandsOK, GhostsOK, Control
<1>1. PICK S \in SUBSET cl[c].asks :
         /\ cl' = [cl EXCEPT ![c].pc = "read_queue", ![c].sent = S,
                             ![c].rounds = @ + 1]
         /\ ans' = [ans EXCEPT ![c] =
                        [j \in Jobs |-> IF j \in S THEN Says("none", NoWorker, 0, 0)
                                                   ELSE @[j]]]
         /\ seen' = [seen EXCEPT ![c] =
                         [j \in Jobs |-> IF j \in S THEN {Sighting(view[j])}
                                                    ELSE @[j]]]
  BY DEF Ask
<1> DEFINE r == [cl[c] EXCEPT !.pc = "read_queue", !.sent = S, !.rounds = @ + 1]
<1>2. cl' = [cl EXCEPT ![c] = r]
  BY <1>0, <1>1
<1>3. r \in Control /\ FetchSound(r)
  BY <1>0 DEF Control, Steps, Ask, FetchSound
<1>4. Alone(c, r)
  BY <1>2, <1>3 DEF Alone
<1>5. ans' \in [Clients -> [Jobs -> Answer]]
  <2> DEFINE a == [j \in Jobs |-> IF j \in S THEN Says("none", NoWorker, 0, 0)
                                  ELSE ans[c][j]]
  <2>1. ans' = [ans EXCEPT ![c] = a]
    BY <1>0, <1>1
  <2>2. a \in [Jobs -> Answer]
    BY <1>0, NoneTyped
  <2> HIDE DEF a
  <2> QED
    BY <2>1, <2>2 DEF Typed, TypeOK, CommandsOK
<1>6. seen' \in [Clients -> [Jobs -> SUBSET Sightings]]
  <2> DEFINE a == [j \in Jobs |-> IF j \in S THEN {Sighting(view[j])} ELSE seen[c][j]]
  <2>1. seen' = [seen EXCEPT ![c] = a]
    BY <1>0, <1>1
  <2>2. a \in [Jobs -> SUBSET Sightings]
    BY <1>0 DEF Sighting, Sightings
  <2> HIDE DEF a
  <2> QED
    BY <2>1, <2>2 DEF Typed, TypeOK, GhostsOK
<1>7. UNCHANGED <<hostVars, oldHost, ghostRest, ledger, lock, cache, late, box, budget>>
  BY DEF Ask, clientVars, ghostVars, ghostRest
<1> HIDE DEF r
<1>8. /\ ledger' \in [Jobs -> Entry] /\ lock' \in Clients \cup {NoClient}
      /\ cache' \in [Jobs -> Copy] /\ late' \in SUBSET Requests
      /\ box' \in [Clients -> [Jobs -> Entry]] /\ budget' \in [Kinds -> Nat]
  BY <1>7 DEF Typed, TypeOK, MachineOK, CommandsOK, GhostsOK
<1>9. UNCHANGED <<hostVars, oldHost, ghostRest>>
  BY <1>7
<1> QED
  BY <1>4, <1>5, <1>6, <1>8, <1>9, PlainTyped

LEMMA ReadTyped ==
    ASSUME Assumptions, Typed, NEW c \in Clients,
           NEW file \in {"queue", "running", "completed", "failed"},
           NEW next \in Steps \ {"copy", "copying"}, Read(c, file, next)
    PROVE  Typed'
<1>0. DOMAIN ans = Clients /\ ans[c] \in [Jobs -> Answer] /\ cl[c].sent \in SUBSET Jobs
  BY DEF Typed, TypeOK, CommandsOK, Control
<1>1. Alone(c, [cl[c] EXCEPT !.pc = next])
  BY GotoAlone DEF Read, Goto
<1>2. ans' \in [Clients -> [Jobs -> Answer]]
  <2> DEFINE a == [j \in Jobs |->
                      IF j \in cl[c].sent /\ ans[c][j].status = "none" /\ Found(j, file)
                      THEN Account(j, file) ELSE ans[c][j]]
  <2>1. ans' = [ans EXCEPT ![c] = a]
    BY <1>0 DEF Read
  <2>2. a \in [Jobs -> Answer]
    BY <1>0, AccountTyped
  <2> HIDE DEF a
  <2> QED
    BY <2>1, <2>2 DEF Typed, TypeOK, CommandsOK
<1>3. UNCHANGED <<hostVars, oldHost, ghostRest, ledger, lock, cache, late, box, seen, budget>>
  BY DEF Read, clientVars, ghostVars, ghostRest
<1>4. /\ ledger' \in [Jobs -> Entry] /\ lock' \in Clients \cup {NoClient}
      /\ cache' \in [Jobs -> Copy] /\ late' \in SUBSET Requests
      /\ seen' \in [Clients -> [Jobs -> SUBSET Sightings]]
      /\ box' \in [Clients -> [Jobs -> Entry]] /\ budget' \in [Kinds -> Nat]
  BY <1>3 DEF Typed, TypeOK, MachineOK, CommandsOK, GhostsOK
<1>5. UNCHANGED <<hostVars, oldHost, ghostRest>>
  BY <1>3
<1> QED
  BY <1>1, <1>2, <1>4, <1>5, PlainTyped

LEMMA LookupTyped ==
    ASSUME Assumptions, Typed, NEW c \in Clients, Lookup(c)
    PROVE  Typed'
<1>1. {"read_running", "read_completed", "read_failed", "reply"}
         \subseteq Steps \ {"copy", "copying"}
  BY DEF Steps
<1> QED
  BY <1>1, ReadTyped DEF Lookup, ReadQueue, ReadRunning, ReadCompleted, ReadFailed

\* A command ends, the file and the host being as they were.
LEMMA QuietTyped ==
    ASSUME Assumptions, Typed, NEW c \in Clients, Quiet(c),
           UNCHANGED <<hostVars, oldHost, ghostRest>>,
           ledger' \in [Jobs -> Entry], lock' \in Clients \cup {NoClient},
           cache' \in [Jobs -> Copy], late' \in SUBSET Requests,
           budget' \in [Kinds -> Nat]
    PROVE  Typed'
BY QuietAlone, PlainTyped

LEMMA LookedUpTyped ==
    ASSUME Assumptions, Typed, NEW c \in Clients, LookedUp(c) \/ LookupRefused(c)
    PROVE  Typed'
<1>0. /\ cl[c] \in Control /\ DOMAIN cl = Clients /\ cl[c].asks \in SUBSET Jobs
      /\ DOMAIN ans = Clients /\ ans[c] \in [Jobs -> Answer]
  BY DEF Typed, TypeOK, CommandsOK, Control
<1>s. {"post", "reply", "lock"} \subseteq Steps
  BY DEF Steps
<1>u. /\ ledger \in [Jobs -> Entry] /\ lock \in Clients \cup {NoClient}
      /\ cache \in [Jobs -> Copy] /\ late \in SUBSET Requests
      /\ seen \in [Clients -> [Jobs -> SUBSET Sightings]]
      /\ box \in [Clients -> [Jobs -> Entry]] /\ budget \in [Kinds -> Nat]
  BY DEF Typed, TypeOK, MachineOK, CommandsOK, GhostsOK
<1>1. CASE LookedUp(c)
  <2> DEFINE rest == cl[c].asks \ cl[c].sent
  <2>0. /\ LookupEnds(c, rest) /\ UNCHANGED budget
        /\ cl[c].cmd \in {"jobs", "info"} /\ rest \in SUBSET Jobs
    BY <1>0, <1>1 DEF LookedUp
  <2> HIDE DEF rest
  <2>m. ASSUME NEW S \in SUBSET Jobs, NEW pc \in {"post", "lock"},
               cl' = [cl EXCEPT ![c].asks = S, ![c].sent = {}, ![c].pc = pc],
               UNCHANGED <<world, ans, box, seen, ghostVars>>
        PROVE  Typed'
    <3> DEFINE r == [cl[c] EXCEPT !.asks = S, !.sent = {}, !.pc = pc]
    <3>1. cl' = [cl EXCEPT ![c] = r]
      BY <1>0, <2>m
    <3>2. r \in Control /\ FetchSound(r)
      BY <1>0, <1>s, <2>0 DEF Control, FetchSound
    <3> HIDE DEF r
    <3>3. Alone(c, r)
      BY <3>1, <3>2 DEF Alone
    <3>4. UNCHANGED <<world, ans, box, seen, ghostRest>> /\ budget' \in [Kinds -> Nat]
      BY <1>u, <2>0, <2>m DEF ghostVars, ghostRest
    <3> QED
      BY <3>3, <3>4, StepTyped
  <2>q. ASSUME Quiet(c), UNCHANGED <<world, ghostVars>>
        PROVE  Typed'
    <3>1. UNCHANGED <<hostVars, oldHost, ghostRest, ledger, lock, cache, late, budget>>
      BY <2>0, <2>q DEF world, clientVars, ghostVars, ghostRest
    <3> QED
      BY <1>u, <2>q, <3>1, QuietTyped
  <2> QED
    BY <2>0, <2>m, <2>q DEF LookupEnds
<1>2. CASE LookupRefused(c)
  <2>1. Alone(c, [cl[c] EXCEPT !.pc = "reply"])
    BY <1>2, <1>s, GotoAlone DEF LookupRefused
  <2>2. ans' \in [Clients -> [Jobs -> Answer]]
    <3> DEFINE a == [j \in Jobs |-> IF j \in cl[c].sent
                                    THEN Says("none", NoWorker, 0, 0) ELSE ans[c][j]]
    <3>1. ans' = [ans EXCEPT ![c] = a]
      BY <1>0, <1>2 DEF LookupRefused
    <3>2. a \in [Jobs -> Answer]
      BY <1>0, NoneTyped
    <3> HIDE DEF a
    <3> QED
      BY <3>1, <3>2 DEF Typed, TypeOK, CommandsOK
  <2>3. UNCHANGED <<hostVars, oldHost, ghostRest, ledger, lock, cache, late, box, seen>>
    BY <1>2 DEF LookupRefused, world, clientVars, ghostVars, ghostRest
  <2>4. budget' \in [Kinds -> Nat]
    BY <1>2, KindsOK, SpendOK DEF LookupRefused
  <2> QED
    BY <1>u, <2>1, <2>2, <2>3, <2>4, PlainTyped
<1> QED
  BY <1>1, <1>2


\* What is on its way becomes a request that nobody waits for.
LEMMA LateOK ==
    ASSUME Typed, NEW c \in Clients,
           \/ UNCHANGED late
           \/ late' = late \cup
                {[op |-> IF cl[c].cmd = "submit" THEN "enqueue" ELSE "qdel",
                  jobs |-> cl[c].sent]}
    PROVE  late' \in SUBSET Requests
<1>1. late \in SUBSET Requests /\ cl[c].sent \in SUBSET Jobs
  BY DEF Typed, TypeOK, CommandsOK, Control
<1>2. [op |-> IF cl[c].cmd = "submit" THEN "enqueue" ELSE "qdel", jobs |-> cl[c].sent]
         \in Requests
  BY <1>1 DEF Requests
<1> QED
  BY <1>1, <1>2

LEMMA UnlockOK ==
    ASSUME Typed, NEW c \in Clients, Unlock(c)
    PROVE  lock' \in Clients \cup {NoClient}
BY DEF Unlock, Typed, TypeOK, MachineOK

LEMMA EndsTyped ==
    ASSUME Assumptions, Typed, NEW c \in Clients,
           Refused(c) \/ GiveUp(c) \/ Die(c)
    PROVE  Typed'
<1>u. /\ ledger \in [Jobs -> Entry] /\ lock \in Clients \cup {NoClient}
      /\ cache \in [Jobs -> Copy] /\ late \in SUBSET Requests
  BY DEF Typed, TypeOK, MachineOK, CommandsOK
<1>1. CASE Refused(c)
  <2>1. budget' \in [Kinds -> Nat]
    BY <1>1, KindsOK, SpendOK DEF Refused
  <2>2. UNCHANGED <<hostVars, oldHost, ghostRest, ledger, lock, cache, late>> /\ Quiet(c)
    BY <1>1 DEF Refused, world, clientVars, ghostVars, ghostRest
  <2> QED
    BY <1>u, <2>1, <2>2, QuietTyped
<1>2. CASE GiveUp(c)
  <2>1. budget' \in [Kinds -> Nat]
    BY <1>2, KindsOK, SpendOK DEF GiveUp
  <2>2. UNCHANGED <<hostVars, oldHost, ghostRest, ledger, lock, cache>> /\ Quiet(c)
    BY <1>2 DEF GiveUp, clientVars, ghostVars, ghostRest
  <2>3. late' \in SUBSET Requests
    BY <1>2, LateOK DEF GiveUp
  <2> QED
    BY <1>u, <2>1, <2>2, <2>3, QuietTyped
<1>3. CASE Die(c)
  <2>1. budget' \in [Kinds -> Nat]
    BY <1>3, KindsOK, SpendOK DEF Die
  <2>2. UNCHANGED <<hostVars, oldHost, ghostRest, ledger, cache>> /\ Quiet(c)
    BY <1>3 DEF Die, ghostVars, ghostRest
  <2>3. late' \in SUBSET Requests
    BY <1>3, LateOK DEF Die
  <2>4. lock' \in Clients \cup {NoClient}
    BY <1>3, UnlockOK DEF Die
  <2> QED
    BY <1>u, <2>1, <2>2, <2>3, <2>4, QuietTyped
<1> QED
  BY <1>1, <1>2, <1>3

LEMMA ServeLateTyped ==
    ASSUME Assumptions, Typed, NEW r \in late, ServeLate(r)
    PROVE  Typed'
<1>0. r \in Requests /\ r.jobs \in SUBSET Jobs /\ late' \in SUBSET Requests
  BY DEF Typed, TypeOK, CommandsOK, Requests, ServeLate
<1>1. /\ UNCHANGED <<runs, lastFail, logs, clientVars, cl, ans, box, oldHost, minted,
                     posted, told, failedOnce, excused, appended, refetched, budget>>
      /\ Watch
  BY DEF ServeLate
<1>2. HostOK' /\ HostInv' /\ removed' \in SUBSET Jobs
  <2>1. CASE Enqueued(r.jobs) /\ UNCHANGED removed
    BY <1>0, <1>1, <2>1, QueueChangeOK DEF Typed, TypeOK, GhostsOK
  <2>2. CASE Queued(r.jobs) /\ TakenOff(r.jobs)
    <3>1. removed' \in SUBSET Jobs
      BY <1>0, <2>2 DEF TakenOff, Typed, TypeOK, GhostsOK
    <3> QED
      BY <1>0, <1>1, <2>2, <3>1, QueueChangeOK
  <2>3. CASE UNCHANGED <<view, removed>>
    BY <1>1, <2>3, HostSame DEF hostVars, Typed, TypeOK, GhostsOK
  <2> QED
    BY <2>1, <2>2, <2>3 DEF ServeLate
<1>3. seen' \in [Clients -> [Jobs -> SUBSET Sightings]]
  BY <1>1, <1>2, WatchOK DEF HostOK
<1> QED
  BY <1>0, <1>1, <1>2, <1>3 DEF Typed, TypeOK, MachineOK, CommandsOK, GhostsOK,
     clientVars, FetchOK

LEMMA CopyTyped ==
    ASSUME Assumptions, Typed, NEW c \in Clients,
           CopyStarts(c) \/ CopyEnds(c) \/ CopyFails(c) \/ Tidy(c)
    PROVE  Typed'
<1>0. /\ cl[c] \in Control /\ DOMAIN cl = Clients /\ cl[c].sent \in SUBSET Jobs
      /\ cl[c].got \in Nat /\ cl[c].snap \in [Jobs -> Entry]
      /\ FetchOK
  BY DEF Typed, TypeOK, CommandsOK, Control
<1>s. "copying" \in Steps /\ {"lock", "tidy"} \subseteq Steps \ {"copy", "copying"}
  BY DEF Steps
<1>u. /\ ledger \in [Jobs -> Entry] /\ lock \in Clients \cup {NoClient}
      /\ cache \in [Jobs -> Copy] /\ late \in SUBSET Requests
      /\ ans \in [Clients -> [Jobs -> Answer]] /\ box \in [Clients -> [Jobs -> Entry]]
      /\ seen \in [Clients -> [Jobs -> SUBSET Sightings]] /\ budget \in [Kinds -> Nat]
      /\ logs \in [Workers \X Jobs -> Nat]
  BY DEF Typed, TypeOK, HostOK, MachineOK, CommandsOK, GhostsOK
\* What every step but Tidy has in common.
<1>m. ASSUME NEW k, Alone(c, k), cache' \in [Jobs -> Copy], UNCHANGED copyRest,
             budget' \in [Kinds -> Nat]
      PROVE  Typed'
  <2>1. /\ UNCHANGED <<hostVars, oldHost, ghostRest>>
        /\ UNCHANGED <<ledger, lock, late, ans, box, seen>>
    BY <1>m DEF copyRest, ghostVars, ghostRest
  <2> QED
    BY <1>u, <1>m, <2>1, PlainTyped
<1>1. CASE CopyStarts(c)
  <2>1. PICK j \in cl[c].sent :
           \/ Goto(c, "lock") /\ UNCHANGED cache
           \/ /\ logs[<<cl[c].snap[j].host, j>>] # 0
              /\ cl' = [cl EXCEPT ![c].pc = "copying",
                                  ![c].got = logs[<<cl[c].snap[j].host, j>>]]
              /\ cache' = [cache EXCEPT ![j] = [n |-> logs[<<cl[c].snap[j].host, j>>],
                                                whole |-> FALSE]]
    BY <1>1 DEF CopyStarts
  <2>2. UNCHANGED <<copyRest, budget>>
    BY <1>1 DEF CopyStarts
  <2>3. CASE Goto(c, "lock") /\ UNCHANGED cache
    BY <1>m, <1>s, <1>u, <2>2, <2>3, GotoAlone
  <2>4. ASSUME NEW n \in Nat, cl' = [cl EXCEPT ![c].pc = "copying", ![c].got = n],
               cache' = [cache EXCEPT ![j] = [n |-> n, whole |-> FALSE]]
        PROVE  Typed'
    <3> DEFINE r == [cl[c] EXCEPT !.pc = "copying", !.got = n]
    <3>1. cl' = [cl EXCEPT ![c] = r]
      BY <1>0, <2>4
    <3>2. r \in Control /\ FetchSound(r)
      <4>1. r \in Control /\ r.cmd = cl[c].cmd /\ r.sent = cl[c].sent /\ r.snap = cl[c].snap
        BY <1>0, <1>s DEF Control
      <4>2. FetchSound(cl[c]) /\ cl[c].cmd = "fetch"
        BY <1>0, <1>1 DEF FetchOK, FetchSound, CopyStarts
      <4> HIDE DEF r
      <4> QED
        BY <4>1, <4>2 DEF FetchSound
    <3> HIDE DEF r
    <3>3. Alone(c, r)
      BY <3>1, <3>2 DEF Alone
    <3>4. [n |-> n, whole |-> FALSE] \in Copy
      BY DEF Copy
    <3>5. cache' \in [Jobs -> Copy]
      BY <1>u, <2>4, <3>4
    <3> QED
      BY <1>m, <1>u, <2>2, <3>3, <3>5
  <2>5. logs[<<cl[c].snap[j].host, j>>] \in Nat
    <3>1. PICK x \in Jobs : cl[c].sent = {x} /\ cl[c].snap[x].host \in Workers
      BY <1>0, <1>1 DEF FetchOK, FetchSound, CopyStarts
    <3>2. j = x
      BY <3>1
    <3> QED
      BY <1>u, <3>1, <3>2
  <2> QED
    BY <2>1, <2>3, <2>4, <2>5
<1>2. CASE CopyEnds(c)
  <2>1. PICK j \in cl[c].sent, whole \in BOOLEAN :
           cache' = [cache EXCEPT ![j] = [n |-> cl[c].got, whole |-> whole]]
    BY <1>2 DEF CopyEnds
  <2>2. [n |-> cl[c].got, whole |-> whole] \in Copy
    BY <1>0 DEF Copy
  <2>3. cache' \in [Jobs -> Copy]
    BY <1>u, <2>1, <2>2
  <2>4. UNCHANGED <<copyRest, budget>> /\ Goto(c, "lock")
    BY <1>2 DEF CopyEnds
  <2> QED
    BY <1>m, <1>s, <1>u, <2>3, <2>4, GotoAlone
<1>3. CASE CopyFails(c)
  <2>1. budget' \in [Kinds -> Nat]
    BY <1>3, KindsOK, SpendOK DEF CopyFails
  <2>2. UNCHANGED <<copyRest, cache>> /\ Goto(c, "tidy")
    BY <1>3 DEF CopyFails
  <2> QED
    BY <1>m, <1>s, <1>u, <2>1, <2>2, GotoAlone
<1>4. CASE Tidy(c)
  <2>1. cache' \in [Jobs -> Copy]
    <3>1. NoCopy \in Copy
      BY DEF NoCopy, Copy
    <3> QED
      BY <1>4, <1>u, <3>1 DEF Tidy
  <2>2. UNCHANGED <<hostVars, oldHost, ghostRest, ledger, lock, late, budget>> /\ Quiet(c)
    BY <1>4 DEF Tidy, ghostVars, ghostRest
  <2> QED
    BY <1>u, <2>1, <2>2, QuietTyped
<1> QED
  BY <1>1, <1>2, <1>3, <1>4

\* What a write makes of each record it read.
LEMMA ChangeOK ==
    ASSUME Assumptions, Typed, NEW c \in Clients
    PROVE  /\ Change(c) \in [Jobs -> Entry]
           /\ \A j \in Jobs :
                 \/ Change(c)[j].status = box[c][j].status
                 \/ /\ cl[c].cmd \in {"jobs", "info"} /\ IsTracked(box[c][j])
                    /\ Change(c)[j].status \in {ans[c][j].status, "missing"}
                 \/ /\ cl[c].cmd = "qdel" /\ j \in cl[c].sent /\ IsTracked(box[c][j])
                    /\ Change(c)[j].status = "deleted"
                 \/ cl[c].cmd = "submit" /\ Change(c)[j].status = "submitted"
                 \/ /\ cl[c].cmd = "forget" /\ j \in cl[c].sent
                    /\ Change(c)[j].status = "untracked"
<1> DEFINE l == box[c]
           k == cl[c]
<1>0. /\ l \in [Jobs -> Entry] /\ k \in Control /\ ans[c] \in [Jobs -> Answer]
      /\ appended \in Nat /\ k.sent \in SUBSET Jobs /\ k.results \in Seq(Jobs)
      /\ k.ready \in Seq(Jobs) /\ k.snap \in [Jobs -> Entry] /\ k.got \in Nat
  BY DEF Typed, TypeOK, CommandsOK, GhostsOK, Control
<1>a. LedgerAssumption
  BY DEF Assumptions
<1>1. CASE k.cmd = "submit"
  <2>1. Change(c) = Recorded(l, k.results, k.ready, appended)
    BY <1>1 DEF Change
  <2> HIDE DEF l, k
  <2>2. /\ Recorded(l, k.results, k.ready, appended) \in [Jobs -> Entry]
        /\ \A j \in Jobs :
              \/ Recorded(l, k.results, k.ready, appended)[j].status = l[j].status
              \/ Recorded(l, k.results, k.ready, appended)[j].status = "submitted"
    BY <1>0, <1>a, RecordedOK DEF Appends
  <2> QED
    BY <1>1, <2>1, <2>2 DEF l, k
<1>2. CASE k.cmd \in {"jobs", "info"}
  <2>1. Change(c) = Applied(l, ans[c])
    BY <1>2 DEF Change
  <2> HIDE DEF l, k
  <2>2. /\ Applied(l, ans[c]) \in [Jobs -> Entry]
        /\ \A j \in Jobs :
              /\ IsTracked(Applied(l, ans[c])[j]) <=> IsTracked(l[j])
              /\ Applied(l, ans[c])[j].status \in {l[j].status, ans[c][j].status, "missing"}
    BY <1>0, <1>a, AppliedOK
  <2>3. ASSUME NEW j \in Jobs
        PROVE  \/ Applied(l, ans[c])[j].status = l[j].status
               \/ /\ IsTracked(l[j])
                  /\ Applied(l, ans[c])[j].status \in {ans[c][j].status, "missing"}
    <3>1. CASE IsTracked(l[j])
      BY <2>2, <3>1
    <3>2. CASE ~IsTracked(l[j])
      <4>1. ~IsTracked(Applied(l, ans[c])[j])
        BY <2>2, <3>2
      <4> QED
        BY <3>2, <4>1 DEF IsTracked
    <3> QED
      BY <3>1, <3>2
  <2> QED
    BY <1>2, <2>1, <2>2, <2>3 DEF l, k
<1>3. CASE k.cmd = "qdel"
  <2>1. Change(c) = Marked(l, k.sent)
    BY <1>3 DEF Change
  <2> HIDE DEF l, k
  <2>2. /\ Marked(l, k.sent) \in [Jobs -> Entry]
        /\ \A j \in Jobs :
              \/ Marked(l, k.sent)[j].status = l[j].status
              \/ /\ j \in k.sent /\ IsTracked(l[j])
                 /\ Marked(l, k.sent)[j].status = "deleted"
    <3>1. \A j \in Jobs : ~IsTracked(l[j]) => Marked(l, k.sent)[j] = l[j]
      BY <1>0 DEF Marked
    <3> QED
      BY <1>0, <3>1, MarkedOK
  <2> QED
    BY <1>3, <2>1, <2>2 DEF l, k
<1>4. CASE k.cmd = "forget"
  <2>1. Change(c) = Without(l, k.sent)
    BY <1>4 DEF Change
  <2> HIDE DEF l, k
  <2>2. /\ Without(l, k.sent) \in [Jobs -> Entry]
        /\ \A j \in Jobs : \/ Without(l, k.sent)[j].status = l[j].status
                           \/ j \in k.sent /\ Without(l, k.sent)[j].status = "untracked"
    BY <1>0, <1>a, WithoutOK
  <2> QED
    BY <1>4, <2>1, <2>2 DEF l, k
<1>5. CASE k.cmd = "fetch"
  <2>1. PICK x \in Jobs : k.sent = {x}
    BY <1>5 DEF Typed, FetchOK, FetchSound
  <2>2. Change(c) = LogNoted(l, x, k.got # 0, CacheKey(k.snap[x]))
    <3>1. (CHOOSE y \in k.sent : TRUE) = x
      BY <2>1
    <3>2. Change(c) = LET j == CHOOSE y \in k.sent : TRUE
                      IN  LogNoted(l, j, k.got # 0, CacheKey(k.snap[j]))
      BY <1>5 DEF Change
    <3> QED
      BY <3>1, <3>2
  <2> DEFINE key == CacheKey(k.snap[x])
  <2>3. key \in Key
    BY <1>0, <1>a, EntryTypes
  <2>4. Change(c) \in {l, [l EXCEPT ![x] = WithLog(l[x], key)],
                         [l EXCEPT ![x] = WithoutLog(l[x], key)]}
    <3>1. [l EXCEPT ![x].logFor = key, ![x].missingFor = NoKey]
             = [l EXCEPT ![x] = WithLog(l[x], key)]
      BY <1>0 DEF WithLog
    <3>2. [l EXCEPT ![x].missingFor = key] = [l EXCEPT ![x] = WithoutLog(l[x], key)]
      BY <1>0 DEF WithoutLog
    <3>3. Change(c) \in {l, [l EXCEPT ![x].logFor = key, ![x].missingFor = NoKey],
                            [l EXCEPT ![x].missingFor = key]}
      BY <2>2 DEF LogNoted
    <3> HIDE DEF l, k, key
    <3> QED
      BY <3>1, <3>2, <3>3
  <2> DEFINE m == Change(c)
  <2> HIDE DEF l, k, key, m
  <2>5. /\ m \in [Jobs -> Entry]
        /\ \A j \in Jobs : m[j].status = l[j].status
    <3>1. m \in {l, [l EXCEPT ![x] = WithLog(l[x], key)],
                     [l EXCEPT ![x] = WithoutLog(l[x], key)]}
      BY <2>4 DEF m
    <3>2. l \in [Jobs -> Entry]
      BY <1>0
    <3> QED
      BY <1>a, <2>3, <3>1, <3>2, LogNotedOK
  <2> QED
    BY <2>5 DEF l, m
<1>6. CASE k.cmd = "none"
  BY <1>0, <1>6 DEF Change
<1> QED
  BY <1>0, <1>1, <1>2, <1>3, <1>4, <1>5, <1>6 DEF Control, Commands

\* A command that deletes cached logs before it ends.
LEMMA ToTidyTyped ==
    ASSUME Assumptions, Typed, NEW c \in Clients, ToTidy(c),
           UNCHANGED <<hostVars, cache, late, oldHost, minted, posted, removed,
                       failedOnce, refetched>>,
           ledger' \in [Jobs -> Entry], lock' \in Clients \cup {NoClient},
           told' \in SUBSET Jobs, excused' \in SUBSET Jobs, appended' \in Nat,
           budget' \in [Kinds -> Nat]
    PROVE  Typed'
<1>1. "tidy" \in Steps \ {"copy", "copying"}
  BY DEF Steps
<1>2. cl' \in [Clients -> Control] /\ FetchOK'
  BY <1>1, GotoAlone, AloneOK DEF ToTidy
<1>3. box' \in [Clients -> [Jobs -> Entry]]
  BY EntryTypes DEF ToTidy, Assumptions, Typed, TypeOK, CommandsOK
<1>4. HostOK' /\ HostInv'
  BY HostSame
<1> QED
  BY <1>2, <1>3, <1>4 DEF ToTidy, Typed, TypeOK, MachineOK, CommandsOK, GhostsOK

LEMMA EndTyped ==
    ASSUME Assumptions, Typed, NEW c \in Clients, Quiet(c),
           UNCHANGED <<hostVars, cache, late, oldHost, minted, posted, removed,
                       failedOnce, refetched>>,
           ledger' \in [Jobs -> Entry], lock' \in Clients \cup {NoClient},
           told' \in SUBSET Jobs, excused' \in SUBSET Jobs, appended' \in Nat,
           budget' \in [Kinds -> Nat]
    PROVE  Typed'
<1>1. /\ Alone(c, Idle) /\ ans' \in [Clients -> [Jobs -> Answer]]
      /\ box' \in [Clients -> [Jobs -> Entry]]
      /\ seen' \in [Clients -> [Jobs -> SUBSET Sightings]]
  BY QuietAlone
<1>2. cl' \in [Clients -> Control] /\ FetchOK'
  BY <1>1, AloneOK
<1>3. HostOK' /\ HostInv'
  BY HostSame
<1> QED
  BY <1>1, <1>2, <1>3 DEF Typed, TypeOK, MachineOK, CommandsOK, GhostsOK

LEMMA LedgerStepTyped ==
    ASSUME Assumptions, Typed, NEW c \in Clients,
           Lock(c) \/ Write(c) \/ WriteFails(c)
    PROVE  Typed'
<1>u. /\ ledger \in [Jobs -> Entry] /\ lock \in Clients \cup {NoClient}
      /\ cache \in [Jobs -> Copy] /\ late \in SUBSET Requests
      /\ ans \in [Clients -> [Jobs -> Answer]] /\ box \in [Clients -> [Jobs -> Entry]]
      /\ seen \in [Clients -> [Jobs -> SUBSET Sightings]] /\ budget \in [Kinds -> Nat]
      /\ told \in SUBSET Jobs /\ excused \in SUBSET Jobs /\ appended \in Nat
      /\ cl[c].results \in Seq(Jobs) /\ cl[c].sent \in SUBSET Jobs
  BY DEF Typed, TypeOK, MachineOK, CommandsOK, GhostsOK, Control
<1>a. Accepted(c) \in SUBSET Jobs /\ Len(cl[c].results) \in Nat
  BY <1>u DEF Accepted
<1>t. Reported(c) => told' \in SUBSET Jobs
  BY <1>u, <1>a DEF Reported
<1>1. CASE Lock(c)
  <2>1. "write" \in Steps \ {"copy", "copying"}
    BY DEF Steps
  <2>2. Alone(c, [cl[c] EXCEPT !.pc = "write"])
    BY <1>1, <2>1, GotoAlone DEF Lock
  <2>3. lock' \in Clients \cup {NoClient} /\ box' \in [Clients -> [Jobs -> Entry]]
    BY <1>1, <1>u DEF Lock
  <2>4. /\ UNCHANGED <<hostVars, oldHost, ghostRest>>
        /\ UNCHANGED <<ledger, cache, late, ans, seen, budget>>
    BY <1>1 DEF Lock, ghostVars, ghostRest
  <2> QED
    BY <1>u, <2>2, <2>3, <2>4, PlainTyped
<1>2. CASE Write(c)
  <2>1. Change(c) \in [Jobs -> Entry]
    BY ChangeOK
  <2>2. Pruned(Change(c)) \in [Jobs -> Entry] /\ OverCap(Change(c)) \subseteq Jobs
    BY <2>1, PrunedOK DEF Assumptions, OverCap, TrackedIn
  <2>3. ledger' \in [Jobs -> Entry] /\ excused' \in SUBSET Jobs
    BY <1>2, <1>u, <2>2 DEF Write
  <2>4. appended' \in Nat
    BY <1>2, <1>a, <1>u DEF Write
  <2>5. told' \in SUBSET Jobs /\ lock' \in Clients \cup {NoClient}
    BY <1>2, <1>t, UnlockOK DEF Write
  <2>6. /\ UNCHANGED <<hostVars, cache, late, oldHost, minted, posted, removed,
                       failedOnce, refetched>>
        /\ budget' \in [Kinds -> Nat]
        /\ ToTidy(c) \/ Quiet(c)
    BY <1>2, <1>u DEF Write
  <2> QED
    BY <2>3, <2>4, <2>5, <2>6, ToTidyTyped, EndTyped
<1>3. CASE WriteFails(c)
  <2>1. excused' \in SUBSET Jobs /\ appended' \in Nat
    BY <1>3, <1>a, <1>u DEF WriteFails
  <2>2. told' \in SUBSET Jobs /\ lock' \in Clients \cup {NoClient}
    BY <1>3, <1>t, UnlockOK DEF WriteFails
  <2>3. budget' \in [Kinds -> Nat]
    BY <1>3, KindsOK, SpendOK DEF WriteFails
  <2>4. /\ UNCHANGED <<hostVars, cache, late, oldHost, minted, posted, removed,
                       failedOnce, refetched>>
        /\ ledger' \in [Jobs -> Entry]
        /\ ToTidy(c) \/ Quiet(c)
    BY <1>3, <1>u DEF WriteFails
  <2> QED
    BY <2>1, <2>2, <2>3, <2>4, ToTidyTyped, EndTyped
<1> QED
  BY <1>1, <1>2, <1>3

LEMMA HostStepTyped ==
    ASSUME Assumptions, Typed, HostStep
    PROVE  Typed'
<1>1. /\ HostOK' /\ HostInv' /\ failedOnce' \in SUBSET Jobs
  BY HostFlows DEF Typed, TypeOK, GhostsOK
<1>2. UNCHANGED hostRest
  BY DEF HostStep, Launch, Recycle, Progress, Fail, GoBack, Operate, HostLoses
<1>3. seen' \in [Clients -> [Jobs -> SUBSET Sightings]]
  <2>1. Watch \/ UNCHANGED seen
    BY DEF HostStep, Launch, Recycle, Progress, Fail, GoBack, Operate, HostLoses, Moved
  <2> QED
    BY <1>1, <2>1, WatchOK DEF HostOK, Typed, TypeOK, GhostsOK
<1>4. budget' \in [Kinds -> Nat]
  <2>1. UNCHANGED budget \/ \E kind \in Kinds : Spend(kind)
    BY KindsOK DEF HostStep, Launch, Recycle, Progress, Fail, GoBack, Operate, HostLoses
  <2> QED
    BY <2>1, SpendOK DEF Typed, TypeOK, GhostsOK
<1> QED
  BY <1>1, <1>2, <1>3, <1>4 DEF hostRest, clientVars, procVars, Typed, TypeOK, MachineOK,
     CommandsOK, GhostsOK, FetchOK

-----------------------------------------------------------------------------
LEMMA InitTyped ==
    ASSUME Assumptions, Init
    PROVE  Typed
<1>1. HostOK /\ HostInv
  <2>1. H!Unseen \in H!View /\ H!Unseen.at = "new" /\ H!Unseen.done = "none"
        /\ ~H!Unseen.fail /\ ~H!Unseen.due
    BY DEF H!Unseen, H!View, H!Places
  <2>2. NoRun \in Run
    BY DEF NoRun, Run, Place
  <2>3. /\ view = [j \in Jobs |-> H!Unseen] /\ runs = [j \in Jobs |-> NoRun]
        /\ lastFail = [j \in Jobs |-> NoRun] /\ logs = [x \in Workers \X Jobs |-> 0]
    BY DEF Init, H!Init
  <2>4. HostOK
    BY <2>1, <2>2, <2>3 DEF HostOK
  <2>5. HostInv
    BY <2>1, <2>3 DEF HostInv, Sane, Launched
  <2> QED
    BY <2>4, <2>5
<1>2. MachineOK
  <2>1. NoCopy \in Copy
    BY DEF NoCopy, Copy
  <2> QED
    BY <2>1, EntryTypes DEF Assumptions, Init, MachineOK
<1>3. CommandsOK /\ FetchOK
  <2>1. Idle \in Control /\ FetchSound(Idle)
    BY IdleOK DEF FetchSound
  <2>2. Silence \in [Jobs -> Answer] /\ Empty \in [Jobs -> Entry]
    BY EntryTypes DEF Assumptions
  <2>3. oldHost \in BOOLEAN
    BY DEF Init
  <2>4. /\ cl = [c \in Clients |-> Idle] /\ ans = [c \in Clients |-> Silence]
        /\ box = [c \in Clients |-> Empty] /\ late = {}
    BY DEF Init
  <2> QED
    BY <2>1, <2>2, <2>3, <2>4 DEF CommandsOK, FetchOK
<1>4. GhostsOK
  BY DEF Init, GhostsOK, Assumptions, ClientAssumption
<1> QED
  BY <1>1, <1>2, <1>3, <1>4 DEF Typed, TypeOK

LEMMA StartsAllTyped ==
    ASSUME Assumptions, Typed, NEW c \in Clients, Starts(c)
    PROVE  Typed'
BY StartSubmitTyped, StartsTyped, StartFetchTyped DEF Starts

LEMMA GoesTyped ==
    ASSUME Assumptions, Typed, NEW c \in Clients, Goes(c)
    PROVE  Typed'
BY SubmitTyped, AskTyped, LookupTyped, LookedUpTyped, QdelTyped, CopyTyped,
   LedgerStepTyped DEF Goes

LEMMA BreaksTyped ==
    ASSUME Assumptions, Typed, NEW c \in Clients, Breaks(c)
    PROVE  Typed'
BY LookedUpTyped, EndsTyped, CopyTyped, LedgerStepTyped DEF Breaks

LEMMA StutterTyped ==
    ASSUME Typed, UNCHANGED vars
    PROVE  Typed'
<1>1. /\ UNCHANGED <<view, runs, lastFail, logs, ledger, lock, cache, cl, ans, box, late,
                     oldHost, seen, budget>>
      /\ UNCHANGED <<minted, posted, told, removed, failedOnce, excused, appended, refetched>>
  BY DEF vars, hostVars, clientVars, procVars, ghostVars
<1>2. HostOK' /\ HostInv'
  BY <1>1, HostSame DEF hostVars
<1> QED
  BY <1>1, <1>2 DEF Typed, TypeOK, MachineOK, CommandsOK, GhostsOK, FetchOK

LEMMA NextTyped ==
    ASSUME Assumptions, Typed, [Next]_vars
    PROVE  Typed'
BY StartsAllTyped, GoesTyped, BreaksTyped, WatchesTyped, ServeLateTyped, HostStepTyped,
   StutterTyped DEF Next, ClientStep

LEMMA AlwaysTyped ==
    ASSUME Assumptions
    PROVE  Spec => []Typed
BY InitTyped, NextTyped, PTL DEF Spec

\* Every value stays of its kind: the records of the ledger, what each command
\* holds between its steps, requests nobody waits for, and the answers, whose
\* times are those of a launch that happened.
THEOREM TypeCorrect == Spec => []TypeOK
BY AlwaysTyped, LedgerAssumption, ClientAssumption, WatcherAssumption, PTL
   DEF Assumptions, Typed

-----------------------------------------------------------------------------
(* What a step can touch.                                                  *)

\* A step of c leaves the other processes alone; only a write changes the
\* ledger, and only a process that takes the lock is about to write.
Frame(c) ==
    /\ \A d \in Clients \ {c} : cl'[d] = cl[d] /\ ans'[d] = ans[d] /\ box'[d] = box[d]
    /\ ledger' = ledger \/ Write(c)
    /\ lock' = lock \/ Lock(c) \/ Unlock(c)
    /\ cl'[c].pc = "write" => Lock(c)

Shapes ==
    /\ DOMAIN cl = Clients /\ DOMAIN ans = Clients /\ DOMAIN box = Clients
    /\ \A c \in Clients : /\ cl[c] \in Control /\ ans[c] \in [Jobs -> Answer]
                          /\ box[c] \in [Jobs -> Entry]

LEMMA ShapesOK == ASSUME Typed PROVE Shapes
BY DEF Typed, TypeOK, CommandsOK, Shapes

LEMMA QuietFrame ==
    ASSUME Assumptions, Shapes, NEW c \in Clients, Quiet(c)
    PROVE  /\ cl'[c] = Idle /\ ans'[c] = Silence /\ box'[c] = Empty
           /\ \A d \in Clients \ {c} : cl'[d] = cl[d] /\ ans'[d] = ans[d] /\ box'[d] = box[d]
           /\ cl'[c].pc # "write"
BY IdleOK DEF Quiet, Shapes

LEMMA GotoFrame ==
    ASSUME Shapes, NEW c \in Clients, NEW pc, Goto(c, pc)
    PROVE  /\ cl'[c] = [cl[c] EXCEPT !.pc = pc] /\ cl'[c].pc = pc
           /\ cl'[c].cmd = cl[c].cmd /\ cl'[c].line = cl[c].line
           /\ cl'[c].ready = cl[c].ready /\ cl'[c].results = cl[c].results
           /\ cl'[c].sent = cl[c].sent
           /\ \A d \in Clients \ {c} : cl'[d] = cl[d]
BY DEF Goto, Shapes, Control

LEMMA StartsFrame ==
    ASSUME Assumptions, Shapes, NEW c \in Clients, Starts(c)
    PROVE  /\ Frame(c) /\ UNCHANGED <<view, failedOnce, removed, ledger, lock, ans, box>>
           /\ cl'[c].pc # "write" /\ cl'[c].pc \in {"post", "call", "lock", "copy"}
<1> DEFINE Good == /\ \A d \in Clients \ {c} : cl'[d] = cl[d]
                   /\ cl'[c].pc \in {"post", "call", "lock", "copy"}
                   /\ UNCHANGED <<view, failedOnce, removed, ledger, lock, ans, box>>
<1> USE DEF Shapes, world, hostVars, clientVars, ghostVars
<1>1. ASSUME NEW ids \in Submissions, StartSubmit(c, ids) PROVE Good
  <2>1. PICK u \in Uploads(ids) :
           cl' = [cl EXCEPT ![c] = [Idle EXCEPT !.cmd = "submit", !.pc = "post",
                                                !.line = u, !.ready = u]]
    BY <1>1 DEF StartSubmit
  <2>2. cl'[c].pc = "post" /\ \A d \in Clients \ {c} : cl'[d] = cl[d]
    BY <2>1, IdleOK DEF Control
  <2> QED
    BY <1>1, <2>2 DEF StartSubmit
<1>2. ASSUME StartJobs(c) PROVE Good
  <2>1. cl'[c].pc = "post" /\ \A d \in Clients \ {c} : cl'[d] = cl[d]
    BY <1>2, IdleOK DEF StartJobs, Control
  <2> QED
    BY <1>2, <2>1 DEF StartJobs
<1>3. ASSUME NEW j \in Jobs, StartInfo(c, j) PROVE Good
  <2>1. cl'[c].pc = "post" /\ \A d \in Clients \ {c} : cl'[d] = cl[d]
    BY <1>3, IdleOK DEF StartInfo, Control
  <2> QED
    BY <1>3, <2>1 DEF StartInfo
<1>4. ASSUME NEW j \in Jobs, StartForget(c, j) PROVE Good
  <2>1. cl'[c].pc = "lock" /\ \A d \in Clients \ {c} : cl'[d] = cl[d]
    BY <1>4, IdleOK DEF StartForget, Control
  <2> QED
    BY <1>4, <2>1 DEF StartForget
<1>5. ASSUME NEW j \in Jobs, StartFetch(c, j) PROVE Good
  <2>1. cl'[c].pc = "copy" /\ \A d \in Clients \ {c} : cl'[d] = cl[d]
    BY <1>5, IdleOK DEF StartFetch, Control
  <2> QED
    BY <1>5, <2>1 DEF StartFetch
<1>6. ASSUME NEW S \in SUBSET Jobs, StartQdel(c, S) PROVE Good
  <2>1. cl'[c].pc = "call" /\ \A d \in Clients \ {c} : cl'[d] = cl[d]
    BY <1>6, IdleOK DEF StartQdel, Control
  <2> QED
    BY <1>6, <2>1 DEF StartQdel
<1>7. Good
  BY <1>1, <1>2, <1>3, <1>4, <1>5, <1>6 DEF Starts
<1> QED
  BY <1>7 DEF Frame

LEMMA RequestsFrame ==
    ASSUME Assumptions, Shapes, NEW c \in Clients,
           \/ Post(c) \/ ServeEnqueue(c) \/ EnqueuedAnswer(c)
           \/ Ask(c) \/ Lookup(c) \/ LookedUp(c) \/ LookupRefused(c)
           \/ ServeQdel(c) \/ QdelNotFound(c) \/ QdelAnswer(c)
    PROVE  /\ Frame(c) /\ UNCHANGED <<ledger, lock, failedOnce>>
           /\ cl'[c].pc # "write"
<1> DEFINE Good == /\ \A d \in Clients \ {c} : cl'[d] = cl[d] /\ ans'[d] = ans[d]
                                               /\ box'[d] = box[d]
                   /\ cl'[c].pc # "write"
                   /\ UNCHANGED <<ledger, lock, failedOnce>>
<1> USE DEF world, hostVars, clientVars, ghostVars
<1>1. ASSUME Post(c) PROVE Good
  <2>1. cl'[c].pc = "call" /\ \A d \in Clients \ {c} : cl'[d] = cl[d]
    BY <1>1 DEF Post, Shapes, Control
  <2> QED
    BY <1>1, <2>1 DEF Post
<1>2. ASSUME ServeEnqueue(c) PROVE Good
  <2>1. cl'[c].pc = "reply" /\ \A d \in Clients \ {c} : cl'[d] = cl[d]
    BY <1>2, GotoFrame DEF ServeEnqueue
  <2> QED
    BY <1>2, <2>1 DEF ServeEnqueue
<1>3. ASSUME EnqueuedAnswer(c) PROVE Good
  <2>1. cl'[c].pc \in {"post", "lock"} /\ \A d \in Clients \ {c} : cl'[d] = cl[d]
    BY <1>3 DEF EnqueuedAnswer, Shapes, Control
  <2> QED
    BY <1>3, <2>1 DEF EnqueuedAnswer
<1>4. ASSUME Ask(c) PROVE Good
  <2>0. PICK S \in SUBSET cl[c].asks :
           /\ cl' = [cl EXCEPT ![c].pc = "read_queue", ![c].sent = S,
                               ![c].rounds = @ + 1]
           /\ ans' = [ans EXCEPT ![c] =
                        [j \in Jobs |-> IF j \in S THEN Says("none", NoWorker, 0, 0)
                                                   ELSE @[j]]]
    BY <1>4 DEF Ask
  <2>1. /\ cl'[c].pc = "read_queue"
        /\ \A d \in Clients \ {c} : cl'[d] = cl[d] /\ ans'[d] = ans[d]
    BY <2>0 DEF Shapes, Control
  <2> QED
    BY <1>4, <2>1 DEF Ask
<1>5. ASSUME Lookup(c) PROVE Good
  <2>1. ASSUME NEW file, NEW next \in {"read_running", "read_completed", "read_failed", "reply"},
               Read(c, file, next)
        PROVE  Good
    <3>1. cl'[c].pc = next /\ \A d \in Clients \ {c} : cl'[d] = cl[d] /\ ans'[d] = ans[d]
      BY <2>1 DEF Read, Shapes, Control
    <3> QED
      BY <2>1, <3>1 DEF Read
  <2> QED
    BY <1>5, <2>1 DEF Lookup, ReadQueue, ReadRunning, ReadCompleted, ReadFailed
<1>6. ASSUME LookedUp(c) PROVE Good
  <2>1. PICK rest : LookupEnds(c, rest)
    BY <1>6 DEF LookedUp
  <2>2. ASSUME Quiet(c), UNCHANGED <<world, ghostVars>> PROVE Good
    BY <2>2, QuietFrame
  <2>3. ASSUME NEW S, NEW pc \in {"post", "lock"},
               cl' = [cl EXCEPT ![c].asks = S, ![c].sent = {}, ![c].pc = pc],
               UNCHANGED <<world, ans, box, seen, ghostVars>>
        PROVE  Good
    <3>1. cl'[c].pc = pc /\ \A d \in Clients \ {c} : cl'[d] = cl[d]
      BY <2>3 DEF Shapes, Control
    <3> QED
      BY <2>3, <3>1
  <2> QED
    BY <2>1, <2>2, <2>3 DEF LookupEnds
<1>7. ASSUME LookupRefused(c) PROVE Good
  <2>1. cl'[c].pc = "reply" /\ \A d \in Clients \ {c} : cl'[d] = cl[d]
    BY <1>7, GotoFrame DEF LookupRefused
  <2>2. \A d \in Clients \ {c} : ans'[d] = ans[d]
    BY <1>7 DEF LookupRefused, Shapes
  <2> QED
    BY <1>7, <2>1, <2>2 DEF LookupRefused
<1>8. ASSUME ServeQdel(c) PROVE Good
  <2>1. cl'[c].pc = "reply" /\ \A d \in Clients \ {c} : cl'[d] = cl[d]
    BY <1>8, GotoFrame DEF ServeQdel
  <2> QED
    BY <1>8, <2>1 DEF ServeQdel
<1>9. ASSUME QdelNotFound(c) PROVE Good
  BY <1>9, QuietFrame DEF QdelNotFound, Exit
<1>10. ASSUME QdelAnswer(c) PROVE Good
  <2>1. cl'[c].pc = "lock" /\ \A d \in Clients \ {c} : cl'[d] = cl[d]
    BY <1>10, GotoFrame DEF QdelAnswer
  <2> QED
    BY <1>10, <2>1 DEF QdelAnswer
<1>11. Good
  BY <1>1, <1>2, <1>3, <1>4, <1>5, <1>6, <1>7, <1>8, <1>9, <1>10
<1> QED
  BY <1>11 DEF Frame

LEMMA LocalFrame ==
    ASSUME Assumptions, Shapes, NEW c \in Clients,
           \/ CopyStarts(c) \/ CopyEnds(c) \/ CopyFails(c) \/ Tidy(c)
           \/ Lock(c) \/ Write(c) \/ WriteFails(c)
           \/ Refused(c) \/ GiveUp(c) \/ Die(c)
    PROVE  /\ Frame(c) /\ UNCHANGED <<view, failedOnce, removed>>
           /\ cl'[c].pc # "write" \/ Lock(c)
<1> DEFINE Good == /\ \A d \in Clients \ {c} : cl'[d] = cl[d] /\ ans'[d] = ans[d]
                                               /\ box'[d] = box[d]
                   /\ ledger' = ledger \/ Write(c)
                   /\ lock' = lock \/ Lock(c) \/ Unlock(c)
                   /\ cl'[c].pc # "write" \/ Lock(c)
                   /\ UNCHANGED <<view, failedOnce, removed>>
<1> USE DEF world, hostVars, clientVars, ghostVars
<1>t. ToTidy(c) => /\ cl'[c].pc = "tidy"
                   /\ \A d \in Clients \ {c} : cl'[d] = cl[d] /\ ans'[d] = ans[d]
                                               /\ box'[d] = box[d]
  <2>1. SUFFICES ASSUME ToTidy(c)
                 PROVE  /\ cl'[c].pc = "tidy"
                        /\ \A d \in Clients \ {c} : cl'[d] = cl[d] /\ ans'[d] = ans[d]
                                                    /\ box'[d] = box[d]
    OBVIOUS
  <2>2. cl'[c].pc = "tidy" /\ \A d \in Clients \ {c} : cl'[d] = cl[d]
    BY <2>1, GotoFrame DEF ToTidy
  <2>3. \A d \in Clients \ {c} : ans'[d] = ans[d] /\ box'[d] = box[d]
    BY <2>1 DEF ToTidy, Shapes
  <2> QED
    BY <2>2, <2>3
<1>1. ASSUME CopyStarts(c) PROVE Good
  <2>1. cl'[c].pc \in {"lock", "copying"} /\ \A d \in Clients \ {c} : cl'[d] = cl[d]
    BY <1>1 DEF CopyStarts, Goto, Shapes, Control
  <2> QED
    BY <1>1, <2>1 DEF CopyStarts, copyRest
<1>2. ASSUME CopyEnds(c) PROVE Good
  <2>1. Goto(c, "lock") /\ UNCHANGED <<copyRest, budget>>
    BY <1>2 DEF CopyEnds
  <2>2. UNCHANGED <<view, failedOnce, removed, ledger, lock, ans, box>>
    BY <2>1 DEF copyRest
  <2>3. cl'[c].pc = "lock" /\ \A d \in Clients \ {c} : cl'[d] = cl[d]
    BY <2>1, GotoFrame
  <2> QED
    BY <2>2, <2>3
<1>3. ASSUME CopyFails(c) PROVE Good
  BY <1>3, GotoFrame DEF CopyFails, copyRest
<1>4. ASSUME Tidy(c) PROVE Good
  BY <1>4, QuietFrame DEF Tidy
<1>5. ASSUME Lock(c) PROVE Good
  <2>1. \A d \in Clients \ {c} : cl'[d] = cl[d]
    BY <1>5, GotoFrame DEF Lock
  <2>2. \A d \in Clients \ {c} : ans'[d] = ans[d] /\ box'[d] = box[d]
    BY <1>5 DEF Lock, Shapes
  <2> QED
    BY <1>5, <2>1, <2>2 DEF Lock
<1>6. ASSUME Write(c) PROVE Good
  <2>1. /\ Unlock(c) /\ UNCHANGED <<view, failedOnce, removed>>
        /\ ToTidy(c) \/ Quiet(c)
    BY <1>6 DEF Write
  <2> QED
    BY <1>6, <1>t, <2>1, QuietFrame
<1>7. ASSUME WriteFails(c) PROVE Good
  <2>1. /\ Unlock(c) /\ UNCHANGED <<view, failedOnce, removed, ledger>>
        /\ ToTidy(c) \/ Quiet(c)
    BY <1>7 DEF WriteFails
  <2> QED
    BY <1>t, <2>1, QuietFrame
<1>8. ASSUME Refused(c) PROVE Good
  BY <1>8, QuietFrame DEF Refused
<1>9. ASSUME GiveUp(c) PROVE Good
  BY <1>9, QuietFrame DEF GiveUp
<1>10. ASSUME Die(c) PROVE Good
  BY <1>10, QuietFrame DEF Die
<1>11. Good
  BY <1>1, <1>2, <1>3, <1>4, <1>5, <1>6, <1>7, <1>8, <1>9, <1>10
<1> QED
  BY <1>11 DEF Frame

\* How a command begins.
LEMMA StartsCourse ==
    ASSUME Assumptions, Shapes, NEW c \in Clients, Starts(c)
    PROVE  \/ \E ids \in Submissions : StartSubmit(c, ids)
           \/ cl'[c].cmd \in {"jobs", "info", "forget", "fetch"}
           \/ cl'[c].cmd = "qdel" /\ cl'[c].pc = "call"
<1> USE DEF Shapes
<1>2. ASSUME StartJobs(c) PROVE cl'[c].cmd = "jobs"
  BY <1>2, IdleOK DEF Control, StartJobs
<1>3. ASSUME NEW j \in Jobs, StartInfo(c, j) PROVE cl'[c].cmd = "info"
  BY <1>3, IdleOK DEF Control, StartInfo
<1>4. ASSUME NEW j \in Jobs, StartForget(c, j) PROVE cl'[c].cmd = "forget"
  BY <1>4, IdleOK DEF Control, StartForget
<1>5. ASSUME NEW j \in Jobs, StartFetch(c, j) PROVE cl'[c].cmd = "fetch"
  BY <1>5, IdleOK DEF Control, StartFetch
<1>6. ASSUME NEW S \in SUBSET Jobs, StartQdel(c, S)
      PROVE  cl'[c].cmd = "qdel" /\ cl'[c].pc = "call"
  BY <1>6, IdleOK DEF Control, StartQdel
<1> QED
  BY <1>2, <1>3, <1>4, <1>5, <1>6 DEF Starts

\* How it goes on: it ends, or remains the command it is.
LEMMA Course ==
    ASSUME Assumptions, Shapes, NEW c \in Clients, Goes(c) \/ Breaks(c)
    PROVE  \/ Quiet(c) /\ cl'[c] = Idle
           \/ /\ cl'[c].cmd = cl[c].cmd
              /\ \/ Post(c) \/ ServeEnqueue(c) \/ EnqueuedAnswer(c)
                 \/ ServeQdel(c) \/ QdelAnswer(c) \/ Lock(c)
                 \/ cl[c].cmd \in {"jobs", "info", "forget", "fetch"}
                 \/ cl[c].pc \in Reading \cup {"copy", "copying"}
<1> DEFINE Same == cl'[c].cmd = cl[c].cmd
           Ends == Quiet(c) /\ cl'[c] = Idle
<1>q. Quiet(c) => Ends
  BY QuietFrame
<1>g. ASSUME NEW pc, Goto(c, pc) PROVE Same
  BY <1>g, GotoFrame
<1>1. CASE Post(c) \/ ServeEnqueue(c) \/ EnqueuedAnswer(c) \/ ServeQdel(c) \/ QdelAnswer(c)
           \/ Lock(c)
  <2>1. CASE Post(c)
    BY <2>1 DEF Post, Shapes, Control
  <2>2. CASE EnqueuedAnswer(c)
    <3>1. cl'[c].cmd = cl[c].cmd
      BY <2>2 DEF EnqueuedAnswer, Shapes, Control
    <3> QED
      BY <2>2, <3>1
  <2>3. CASE ServeEnqueue(c) \/ ServeQdel(c) \/ QdelAnswer(c) \/ Lock(c)
    BY <1>g, <2>3 DEF ServeEnqueue, ServeQdel, QdelAnswer, Lock
  <2> QED
    BY <1>1, <2>1, <2>2, <2>3
<1>2. CASE Ask(c)
  <2>1. PICK S : cl' = [cl EXCEPT ![c].pc = "read_queue", ![c].sent = S, ![c].rounds = @ + 1]
    BY <1>2 DEF Ask
  <2>2. Same
    BY <2>1 DEF Shapes, Control
  <2> QED
    BY <1>2, <2>2 DEF Ask
<1>3. CASE LookedUp(c)
  <2>1. PICK rest : LookupEnds(c, rest) /\ cl[c].cmd \in {"jobs", "info"}
    BY <1>3 DEF LookedUp
  <2>2. ASSUME NEW S, NEW pc, cl' = [cl EXCEPT ![c].asks = S, ![c].sent = {}, ![c].pc = pc]
        PROVE  Same
    BY <2>2 DEF Shapes, Control
  <2> QED
    BY <1>q, <2>1, <2>2 DEF LookupEnds
<1>4. CASE Lookup(c) \/ LookupRefused(c)
  <2>1. cl[c].pc \in Reading
    BY <1>4 DEF Lookup, ReadQueue, ReadRunning, ReadCompleted, ReadFailed, LookupRefused,
       Reading
  <2>2. \E pc : Goto(c, pc)
    BY <1>4 DEF Lookup, ReadQueue, ReadRunning, ReadCompleted, ReadFailed, LookupRefused,
       Read, Goto
  <2> QED
    BY <1>g, <2>1, <2>2
<1>5. CASE CopyStarts(c) \/ CopyEnds(c) \/ CopyFails(c)
  <2>1. /\ cl[c].pc \in {"copy", "copying"}
        /\ \/ \E pc : Goto(c, pc)
           \/ \E n : cl' = [cl EXCEPT ![c].pc = "copying", ![c].got = n]
    BY <1>5 DEF CopyStarts, CopyEnds, CopyFails
  <2>2. ASSUME NEW n, cl' = [cl EXCEPT ![c].pc = "copying", ![c].got = n] PROVE Same
    BY <2>2 DEF Shapes, Control
  <2> QED
    BY <1>g, <2>1, <2>2
<1>6. CASE Write(c) \/ WriteFails(c)
  <2>1. Quiet(c) \/ (cl[c].cmd \in {"forget", "fetch"} /\ Goto(c, "tidy"))
    BY <1>6 DEF Write, WriteFails, ToTidy
  <2> QED
    BY <1>g, <1>q, <2>1
<1>7. CASE QdelNotFound(c) \/ Tidy(c) \/ Refused(c) \/ GiveUp(c) \/ Die(c)
  BY <1>7, <1>q DEF QdelNotFound, Exit, Tidy, Refused, GiveUp, Die
<1> QED
  BY <1>1, <1>2, <1>3, <1>4, <1>5, <1>6, <1>7 DEF Goes, Breaks

\* Whatever a process does, the host's records of ends, the past and the other
\* processes are safe from it.
LEMMA StepFrame ==
    ASSUME Assumptions, Typed, NEW c \in Clients, Starts(c) \/ Goes(c) \/ Breaks(c)
    PROVE  Frame(c)
<1>1. Shapes
  BY ShapesOK
<1> QED
  BY <1>1, StartsFrame, RequestsFrame, LocalFrame DEF Goes, Breaks

\* Steps of no process.
LEMMA OtherSteps ==
    ASSUME HostStep \/ (\E r \in late : ServeLate(r)) \/ UNCHANGED vars
    PROVE  UNCHANGED <<ledger, lock, cl, ans, box, told, posted, minted, excused, oldHost>>
<1>1. CASE HostStep
  BY <1>1 DEF HostStep, Launch, Recycle, Progress, Fail, GoBack, Operate, HostLoses, hostRest,
     clientVars, procVars
<1>2. CASE \E r \in late : ServeLate(r)
  BY <1>2 DEF ServeLate, clientVars
<1>3. CASE UNCHANGED vars
  BY <1>3 DEF vars, clientVars, procVars, ghostVars
<1> QED
  BY <1>1, <1>2, <1>3

\* `jobs` is started again.
LEMMA WatchesStep ==
    ASSUME Assumptions, Typed, Watches
    PROVE  /\ UNCHANGED <<ledger, lock, ans, box, told, posted, minted, excused, oldHost>>
           /\ UNCHANGED <<seen, hostVars, failedOnce, removed>>
           /\ \E S \in SUBSET Jobs :
                 Alone(Watcher, [Idle EXCEPT !.cmd = "jobs", !.pc = "post", !.asks = S])
<1>1. /\ UNCHANGED <<ledger, lock, ans, box, told, posted, minted, excused, oldHost>>
      /\ UNCHANGED <<seen, hostVars, failedOnce, removed>>
  BY DEF Watches, world, clientVars, ghostVars
<1>2. PICK S \in SUBSET Jobs :
         cl' = [cl EXCEPT ![Watcher] = [Idle EXCEPT !.cmd = "jobs", !.pc = "post", !.asks = S]]
  BY DEF Watches, TrackedIn
<1>3. Watcher \in Clients
  BY DEF Assumptions, WatcherAssumption
<1>4. Alone(Watcher, [Idle EXCEPT !.cmd = "jobs", !.pc = "post", !.asks = S])
  BY <1>2, <1>3, StartAlone
<1> QED
  BY <1>1, <1>4

LEMMA WatchesFrame ==
    ASSUME Assumptions, Typed, Watches
    PROVE  /\ Watcher \in Clients
           /\ \A d \in Clients \ {Watcher} : cl'[d] = cl[d]
           /\ cl'[Watcher].pc = "post" /\ cl'[Watcher].cmd = "jobs"
           /\ cl'[Watcher].sent = {}
<1>1. Watcher \in Clients
  BY DEF Assumptions, WatcherAssumption
<1>2. PICK S \in SUBSET Jobs :
         Alone(Watcher, [Idle EXCEPT !.cmd = "jobs", !.pc = "post", !.asks = S])
  BY WatchesStep
<1>3. LET r == [Idle EXCEPT !.cmd = "jobs", !.pc = "post", !.asks = S]
      IN  r.pc = "post" /\ r.cmd = "jobs" /\ r.sent = {}
  BY IdleOK DEF Control
<1> QED
  BY <1>1, <1>2, <1>3, AloneOK

\* Completed jobs stay completed; failures and removals are not forgotten, and
\* a job that is removed is gone.
Onward ==
    /\ \A j \in Jobs : Flows(view[j], view'[j])
    /\ failedOnce \subseteq failedOnce' /\ removed \subseteq removed'
    /\ \A j \in removed' \ removed : view'[j].at = "gone"

LEMMA AlwaysOnward ==
    ASSUME Assumptions, Typed, [Next]_vars
    PROVE  Onward
<1>0. HostOK /\ HostInv /\ failedOnce \in SUBSET Jobs
  BY DEF Typed, TypeOK, GhostsOK
<1>q. ASSUME NEW S \in SUBSET Jobs, UNCHANGED <<runs, lastFail, logs, failedOnce>>,
             \/ Enqueued(S) /\ UNCHANGED removed
             \/ Queued(S) /\ TakenOff(S)
      PROVE  Onward
  <2>1. \A j \in Jobs : Flows(view[j], view'[j])
    BY <1>q, QueueChangeOK
  <2>2. removed \subseteq removed'
    BY <1>q DEF TakenOff
  <2>3. \A j \in removed' \ removed : view'[j].at = "gone"
    <3>1. CASE removed' = removed
      BY <3>1
    <3>2. CASE TakenOff(S)
      <4>1. \A j \in S : view[j] \in H!View
        BY <1>0 DEF HostOK
      <4> QED
        BY <3>2, <4>1 DEF TakenOff, H!View
    <3> QED
      BY <1>q, <3>1, <3>2
  <2> QED
    BY <1>q, <2>1, <2>2, <2>3 DEF Onward
<1>u. UNCHANGED <<view, runs, lastFail, logs, failedOnce, removed>> => Onward
  BY <1>0, HostFlows DEF Onward, hostVars
<1>v. UNCHANGED <<view, failedOnce, removed>> => Onward
  <2>1. \A j \in Jobs : Flows(view[j], view[j])
    BY <1>0, CalmMoves DEF HostInv, Calm
  <2> QED
    BY <2>1 DEF Onward
<1>1. ASSUME NEW c \in Clients, Starts(c) \/ Goes(c) \/ Breaks(c) PROVE Onward
  <2>0. Shapes /\ cl[c].sent \in SUBSET Jobs
    BY ShapesOK DEF Shapes, Control
  <2>1. CASE \/ Starts(c)
             \/ CopyStarts(c) \/ CopyEnds(c) \/ CopyFails(c) \/ Tidy(c)
             \/ Lock(c) \/ Write(c) \/ WriteFails(c)
             \/ Refused(c) \/ GiveUp(c) \/ Die(c)
    BY <1>v, <2>0, <2>1, StartsFrame, LocalFrame
  <2>2. CASE ServeEnqueue(c)
    <3>1. Enqueued(cl[c].sent) /\ UNCHANGED <<runs, lastFail, logs, failedOnce, removed>>
      BY <2>2 DEF ServeEnqueue, ghostVars
    <3> QED
      BY <1>q, <2>0, <3>1
  <2>3. CASE ServeQdel(c)
    <3>1. /\ Queued(cl[c].sent) /\ TakenOff(cl[c].sent)
          /\ UNCHANGED <<runs, lastFail, logs, failedOnce>>
      BY <2>3 DEF ServeQdel
    <3> QED
      BY <1>q, <2>0, <3>1
  <2>4. CASE \/ Post(c) \/ EnqueuedAnswer(c) \/ Ask(c) \/ Lookup(c) \/ LookedUp(c)
             \/ LookupRefused(c) \/ QdelNotFound(c) \/ QdelAnswer(c)
    <3>1. UNCHANGED <<view, failedOnce, removed>>
      <4> USE DEF world, hostVars, ghostVars
      <4>1. CASE Post(c) \/ EnqueuedAnswer(c) \/ Ask(c)
        BY <4>1 DEF Post, EnqueuedAnswer, Ask
      <4>2. CASE Lookup(c)
        BY <4>2 DEF Lookup, ReadQueue, ReadRunning, ReadCompleted, ReadFailed, Read
      <4>3. CASE LookedUp(c) \/ LookupRefused(c)
        BY <4>3 DEF LookedUp, LookupEnds, LookupRefused
      <4>4. CASE QdelNotFound(c) \/ QdelAnswer(c)
        BY <4>4 DEF QdelNotFound, QdelAnswer, Exit
      <4> QED
        BY <2>4, <4>1, <4>2, <4>3, <4>4
    <3> QED
      BY <1>v, <3>1
  <2> QED
    BY <1>1, <2>1, <2>2, <2>3, <2>4 DEF Goes, Breaks
<1>2. ASSUME NEW r \in late, ServeLate(r) PROVE Onward
  <2>0. r.jobs \in SUBSET Jobs
    BY DEF Typed, TypeOK, CommandsOK, Requests
  <2>1. /\ UNCHANGED <<runs, lastFail, logs, failedOnce>>
        /\ \/ Enqueued(r.jobs) /\ UNCHANGED removed
           \/ Queued(r.jobs) /\ TakenOff(r.jobs)
           \/ UNCHANGED <<view, removed>>
    BY <1>2 DEF ServeLate
  <2> QED
    BY <1>q, <1>v, <2>0, <2>1
<1>3. CASE HostStep
  <2>1. UNCHANGED removed
    BY <1>3 DEF HostStep, Launch, Recycle, Progress, Fail, GoBack, Operate, HostLoses, hostRest
  <2> QED
    BY <1>0, <1>3, <2>1, HostFlows DEF Onward
<1>4. CASE Watches
  BY <1>v, <1>4, WatchesStep DEF hostVars
<1>5. CASE UNCHANGED vars
  BY <1>v, <1>5 DEF vars, hostVars, ghostVars
<1> QED
  BY <1>1, <1>2, <1>3, <1>4, <1>5 DEF Next, ClientStep

-----------------------------------------------------------------------------
(* The lock.                                                               *)

\* Who is about to write holds the lock, and has the ledger as it is.
LockInv ==
    \A c \in Clients : cl[c].pc = "write" => lock = c /\ box[c] = ledger

\* Every step is a process's own, the watching one's, or nobody's.
LEMMA WhoseStep ==
    ASSUME [Next]_vars
    PROVE  \/ \E c \in Clients : Starts(c) \/ Goes(c) \/ Breaks(c)
           \/ Watches
           \/ HostStep \/ (\E r \in late : ServeLate(r)) \/ UNCHANGED vars
BY DEF Next, ClientStep

LEMMA LockInvKept ==
    ASSUME Assumptions, Typed, LockInv, [Next]_vars
    PROVE  LockInv'
<1>1. ASSUME NEW c \in Clients, Starts(c) \/ Goes(c) \/ Breaks(c) PROVE LockInv'
  <2>0. Frame(c)
    BY <1>1, StepFrame
  <2>1. ASSUME NEW d \in Clients \ {c}, cl'[d].pc = "write"
        PROVE  lock' = d /\ box'[d] = ledger'
    <3>1. cl[d].pc = "write" /\ lock = d /\ box[d] = ledger /\ box'[d] = box[d]
      BY <2>0, <2>1 DEF Frame, LockInv
    <3>2. ledger' = ledger
      BY <2>0, <3>1 DEF Frame, LockInv, Write
    <3>3. lock # NoClient
      BY <3>1 DEF Assumptions, ClientAssumption
    <3>4. lock' = lock
      BY <2>0, <3>1, <3>3 DEF Frame, Lock, Unlock
    <3> QED
      BY <3>1, <3>2, <3>4
  <2>2. ASSUME cl'[c].pc = "write"
        PROVE  lock' = c /\ box'[c] = ledger'
    <3>1. Lock(c)
      BY <2>0, <2>2 DEF Frame
    <3> QED
      BY <3>1 DEF Lock, Typed, TypeOK, CommandsOK
  <2> QED
    BY <2>1, <2>2 DEF LockInv
<1>2. CASE Watches
  BY <1>2, WatchesStep, WatchesFrame DEF LockInv
<1>3. CASE HostStep \/ (\E r \in late : ServeLate(r)) \/ UNCHANGED vars
  BY <1>3, OtherSteps DEF LockInv
<1> QED
  BY <1>1, <1>2, <1>3, WhoseStep

LEMMA AlwaysLocked ==
    ASSUME Assumptions
    PROVE  Spec => [](Typed /\ LockInv)
<1>1. Init => LockInv
  BY IdleOK DEF Init, LockInv
<1>2. (Typed /\ LockInv) /\ [Next]_vars => (Typed /\ LockInv)'
  BY NextTyped, LockInvKept
<1>3. Init => Typed /\ LockInv
  BY <1>1, InitTyped
<1> QED
  BY <1>2, <1>3, PTL DEF Spec

\* What a write leaves in the file.
LEMMA Written ==
    ASSUME Assumptions, Typed, LockInv, NEW c \in Clients, Write(c)
    PROVE  /\ Change(c) \in [Jobs -> Entry] /\ box[c] = ledger
           /\ excused \subseteq excused'
           /\ \A j \in Jobs :
                 /\ \/ ledger'[j] = Change(c)[j]
                    \/ /\ ledger'[j] = NoEntry(j) /\ IsTerminal(Change(c)[j])
                       /\ j \in excused'
                 /\ cl[c].cmd = "forget" /\ j \in cl[c].sent =>
                       ledger'[j] = ledger[j] \/ j \in excused'
<1>1. Change(c) \in [Jobs -> Entry]
  BY ChangeOK
<1>2. box[c] = ledger
  BY DEF LockInv, Write
<1>3. CASE Change(c) = box[c] /\ UNCHANGED <<ledger, excused>>
  BY <1>1, <1>2, <1>3
<1>4. CASE /\ ledger' = Pruned(Change(c))
           /\ excused' = excused \cup OverCap(Change(c))
                \cup (IF cl[c].cmd = "forget" THEN cl[c].sent ELSE {})
  <2>1. /\ \A j \in Jobs : Pruned(Change(c))[j] = IF j \in OverCap(Change(c)) THEN NoEntry(j)
                                                  ELSE Change(c)[j]
        /\ \A j \in OverCap(Change(c)) : IsTerminal(Change(c)[j])
    BY <1>1, PrunedOK DEF Assumptions
  <2> QED
    BY <1>1, <1>2, <1>4, <2>1
<1> QED
  BY <1>3, <1>4 DEF Write

-----------------------------------------------------------------------------
(* Settled statuses are facts.                                             *)

\* What answers and removals are worth on their way to the ledger.
Carried(c) ==
    /\ \A j \in Jobs : Backed(ans[c][j].status, j)
    /\ cl[c].cmd = "qdel" =>
          \/ cl[c].pc = "call"
          \/ cl[c].pc \in {"reply", "lock", "write"} /\ cl[c].sent \subseteq removed

Gone == \A j \in removed : view[j].at = "gone"

TruthInv == LedgerIsTrue /\ Gone /\ \A c \in Clients : Carried(c)

LEMMA StaysBacked ==
    ASSUME Onward, NEW j \in Jobs, NEW status, Backed(status, j)
    PROVE  Backed(status, j)'
BY DEF Backed, Onward, Flows

LEMMA StaysTrue ==
    ASSUME Onward, NEW j \in Jobs, Backed(ledger[j].status, j),
           ledger[j].status = "deleted" => j \in removed, ledger'[j] = ledger[j]
    PROVE  /\ Backed(ledger[j].status, j)'
           /\ ledger'[j].status = "deleted" => j \in removed'
BY DEF Backed, Onward, Flows

\* The answers of one lookup step, or the end of a command.
LEMMA AnswersBacked ==
    ASSUME Assumptions, Typed, Onward, NEW c \in Clients,
           \A j \in Jobs : Backed(ans[c][j].status, j),
           Starts(c) \/ Goes(c) \/ Breaks(c)
    PROVE  \A j \in Jobs : Backed(ans[c][j].status, j)'
<1> DEFINE Good == \A j \in Jobs : Backed(ans[c][j].status, j)'
<1>0. /\ DOMAIN ans = Clients /\ ans[c] \in [Jobs -> Answer]
  BY DEF Typed, TypeOK, CommandsOK
<1>1. ans'[c] = ans[c] => Good
  BY DEF Backed, Onward, Flows
<1>2. Quiet(c) => Good
  <2>1. Quiet(c) => ans'[c] = Silence
    BY <1>0 DEF Quiet
  <2>2. \A j \in Jobs : Silence[j].status = "unasked"
    BY DEF Silence, Unasked
  <2> QED
    BY <2>1, <2>2 DEF Backed
<1>3. ASSUME \A j \in Jobs : ans'[c][j] = ans[c][j] \/ ans'[c][j].status = "none"
      PROVE  Good
  <2>1. ASSUME NEW j \in Jobs PROVE Backed(ans[c][j].status, j)'
    <3>1. CASE ans'[c][j] = ans[c][j]
      BY <3>1 DEF Backed, Onward, Flows
    <3>2. CASE ans'[c][j].status = "none"
      BY <3>2 DEF Backed
    <3> QED
      BY <1>3, <3>1, <3>2
  <2> QED
    BY <2>1
<1>4. CASE Starts(c)
  <2>1. ans' = ans
    BY <1>4, ShapesOK, StartsFrame
  <2> QED
    BY <1>1, <2>1
<1>5. CASE Ask(c)
  <2>1. PICK S \in SUBSET cl[c].asks :
           ans' = [ans EXCEPT ![c] =
                     [j \in Jobs |-> IF j \in S THEN Says("none", NoWorker, 0, 0) ELSE @[j]]]
    BY <1>5 DEF Ask
  <2>2. \A j \in Jobs : ans'[c][j] = ans[c][j] \/ ans'[c][j].status = "none"
    BY <1>0, <2>1, NoneTyped
  <2> QED
    BY <1>3, <2>2
<1>6. CASE LookupRefused(c)
  <2>1. ans' = [ans EXCEPT ![c] =
                  [j \in Jobs |-> IF j \in cl[c].sent
                                  THEN Says("none", NoWorker, 0, 0) ELSE @[j]]]
    BY <1>6 DEF LookupRefused
  <2>2. \A j \in Jobs : ans'[c][j] = ans[c][j] \/ ans'[c][j].status = "none"
    BY <1>0, <2>1, NoneTyped
  <2> QED
    BY <1>3, <2>2
<1>7. CASE Lookup(c)
  <2>1. PICK file \in {"queue", "running", "completed", "failed"} :
           /\ ans' = [ans EXCEPT ![c] =
                  [j \in Jobs |->
                      IF j \in cl[c].sent /\ @[j].status = "none" /\ Found(j, file)
                      THEN Account(j, file) ELSE @[j]]]
           /\ UNCHANGED hostVars /\ UNCHANGED failedOnce
    BY <1>7 DEF Lookup, ReadQueue, ReadRunning, ReadCompleted, ReadFailed, Read, ghostVars
  <2>2. ASSUME NEW j \in Jobs PROVE Backed(ans[c][j].status, j)'
    <3>1. CASE ans'[c][j] = ans[c][j]
      BY <3>1 DEF Backed, Onward, Flows
    <3>2. CASE Found(j, file) /\ ans'[c][j] = Account(j, file)
      <4>1. CASE file \in {"queue", "running"}
        BY <3>2, <4>1 DEF Account, Says, Backed
      <4>2. CASE file = "completed"
        <5>1. ans'[c][j].status = view'[j].done
          BY <2>1, <3>2, <4>2 DEF Account, Says, hostVars
        <5>2. view[j] \in H!View /\ view'[j] = view[j] /\ view[j].done # "none"
          BY <2>1, <3>2, <4>2 DEF Found, hostVars, Typed, TypeOK, HostOK
        <5> QED
          BY <5>1, <5>2 DEF Backed, H!View
      <4>3. CASE file = "failed"
        <5>1. ans'[c][j].status = "failed" /\ view[j].fail
          BY <3>2, <4>3 DEF Account, Says, Found
        <5>2. j \in failedOnce'
          BY <2>1, <5>1 DEF Typed, HostInv
        <5> QED
          BY <5>1, <5>2 DEF Backed
      <4> QED
        BY <4>1, <4>2, <4>3
    <3> QED
      BY <1>0, <2>1, <3>1, <3>2
  <2> QED
    BY <2>2
<1>8. CASE \/ Post(c) \/ ServeEnqueue(c) \/ EnqueuedAnswer(c)
           \/ ServeQdel(c) \/ QdelAnswer(c) \/ CopyStarts(c) \/ CopyEnds(c) \/ CopyFails(c)
           \/ Lock(c)
  <2>1. ans' = ans
    BY <1>8 DEF Post, ServeEnqueue, EnqueuedAnswer, ServeQdel, QdelAnswer, CopyStarts, CopyEnds,
       CopyFails, Lock, copyRest
  <2> QED
    BY <1>1, <2>1
<1>9. CASE \/ LookedUp(c) \/ QdelNotFound(c) \/ Tidy(c) \/ Write(c) \/ WriteFails(c)
           \/ Refused(c) \/ GiveUp(c) \/ Die(c)
  <2>1. Quiet(c) \/ ans' = ans
    BY <1>9 DEF LookedUp, LookupEnds, QdelNotFound, Exit, Tidy, Write, WriteFails, ToTidy,
       Refused, GiveUp, Die
  <2> QED
    BY <1>1, <1>2, <2>1
<1> QED
  BY <1>4, <1>5, <1>6, <1>7, <1>8, <1>9 DEF Goes, Breaks

LEMMA QdelCarried ==
    ASSUME Assumptions, Typed, Onward, NEW c \in Clients, Carried(c),
           Starts(c) \/ Goes(c) \/ Breaks(c)
    PROVE  cl'[c].cmd = "qdel" =>
              \/ cl'[c].pc = "call"
              \/ cl'[c].pc \in {"reply", "lock", "write"} /\ cl'[c].sent \subseteq removed'
<1> DEFINE Good == cl'[c].cmd = "qdel" =>
              \/ cl'[c].pc = "call"
              \/ cl'[c].pc \in {"reply", "lock", "write"} /\ cl'[c].sent \subseteq removed'
<1>0. /\ Shapes /\ cl[c] \in Control /\ DOMAIN cl = Clients
      /\ removed \subseteq removed'
  BY ShapesOK DEF Shapes, Onward
<1>1. CASE Starts(c)
  <2>1. ASSUME NEW ids \in Submissions, StartSubmit(c, ids) PROVE cl'[c].cmd = "submit"
    <3>1. PICK u : cl' = [cl EXCEPT ![c] = [Idle EXCEPT !.cmd = "submit", !.pc = "post",
                                                        !.line = u, !.ready = u]]
      BY <2>1 DEF StartSubmit
    <3> QED
      BY <1>0, <3>1, IdleOK DEF Control
  <2> QED
    BY <1>0, <1>1, <2>1, StartsCourse
<1>2. CASE cl'[c] = Idle
  BY <1>2, IdleOK
<1>3. CASE /\ cl'[c].cmd = cl[c].cmd
           /\ \/ Post(c) \/ ServeEnqueue(c) \/ EnqueuedAnswer(c)
              \/ cl[c].cmd \in {"jobs", "info", "forget", "fetch"}
              \/ cl[c].pc \in Reading \cup {"copy", "copying"}
  <2>1. cl[c].cmd # "qdel"
    BY <1>3 DEF Carried, Post, ServeEnqueue, EnqueuedAnswer, Reading
  <2> QED
    BY <1>3, <2>1
<1>4. CASE ServeQdel(c)
  <2>1. cl'[c].pc = "reply" /\ cl'[c].sent = cl[c].sent /\ removed' = removed \cup cl[c].sent
    BY <1>0, <1>4, GotoFrame DEF ServeQdel, TakenOff
  <2> QED
    BY <2>1
<1>5. CASE (QdelAnswer(c) \/ Lock(c)) /\ cl'[c].cmd = cl[c].cmd
  <2>1. cl'[c].pc \in {"lock", "write"} /\ cl'[c].sent = cl[c].sent /\ cl[c].pc # "call"
    BY <1>0, <1>5, GotoFrame DEF QdelAnswer, Lock
  <2>2. cl'[c].cmd = "qdel" => cl[c].sent \subseteq removed
    BY <1>5, <2>1 DEF Carried
  <2> QED
    BY <1>0, <2>1, <2>2
<1> QED
  BY <1>0, <1>1, <1>2, <1>3, <1>4, <1>5, Course

\* A record that a command is about to write is backed by what it carried.
LEMMA ChangeTrue ==
    ASSUME Assumptions, Typed, LedgerIsTrue, NEW c \in Clients, Carried(c),
           box[c] = ledger, cl[c].pc = "write", NEW j \in Jobs
    PROVE  /\ Backed(Change(c)[j].status, j)
           /\ Change(c)[j].status = "deleted" => j \in removed
<1>1. Backed(ledger[j].status, j) /\ (ledger[j].status = "deleted" => j \in removed)
  BY DEF LedgerIsTrue
<1>2. /\ ans[c][j].status # "deleted" /\ Backed(ans[c][j].status, j)
      /\ Backed("missing", j) /\ Backed("deleted", j)
      /\ Backed("submitted", j) /\ Backed("untracked", j)
  <2>1. ans[c][j] \in Answer
    BY DEF Typed, TypeOK, CommandsOK
  <2> QED
    BY <2>1 DEF Carried, Answer, HostStatuses, Backed
<1>3. cl[c].cmd = "qdel" /\ j \in cl[c].sent => j \in removed
  BY DEF Carried
<1> QED
  BY <1>1, <1>2, <1>3, ChangeOK

LEMMA WriteTrue ==
    ASSUME Assumptions, Typed, LockInv, Onward, LedgerIsTrue, NEW c \in Clients, Carried(c),
           Write(c), NEW j \in Jobs
    PROVE  /\ Backed(ledger[j].status, j)'
           /\ ledger'[j].status = "deleted" => j \in removed'
<1>1. /\ box[c] = ledger /\ cl[c].pc = "write"
      /\ ledger'[j] = Change(c)[j] \/ ledger'[j] = NoEntry(j)
  BY Written DEF Write
<1>2. CASE ledger'[j] = NoEntry(j)
  BY <1>2 DEF NoEntry, Backed
<1>3. CASE ledger'[j] = Change(c)[j]
  <2>1. /\ Backed(Change(c)[j].status, j)
        /\ Change(c)[j].status = "deleted" => j \in removed
    BY <1>1, ChangeTrue
  <2> QED
    BY <1>3, <2>1 DEF Backed, Onward, Flows
<1> QED
  BY <1>1, <1>2, <1>3

LEMMA TruthKept ==
    ASSUME Assumptions, Typed, LockInv, TruthInv, [Next]_vars
    PROVE  TruthInv'
<1>0. Onward
  BY AlwaysOnward
<1>l. ledger' = ledger => LedgerIsTrue'
  BY <1>0, StaysTrue DEF TruthInv, LedgerIsTrue
<1>g. Gone'
  <2>1. removed' \subseteq Jobs
    BY NextTyped DEF Typed, TypeOK, GhostsOK
  <2>2. ASSUME NEW j \in removed' PROVE view'[j].at = "gone"
    BY <1>0, <2>1, <2>2 DEF TruthInv, Gone, Onward, Flows
  <2> QED
    BY <2>2 DEF Gone
<1>s. ASSUME NEW d \in Clients, cl'[d] = cl[d], ans'[d] = ans[d] PROVE Carried(d)'
  <2>1. \A j \in Jobs : Backed(ans[d][j].status, j)'
    BY <1>0, <1>s DEF TruthInv, Carried, Backed, Onward, Flows
  <2>2. removed \subseteq removed'
    BY <1>0 DEF Onward
  <2> QED
    BY <1>s, <2>1, <2>2 DEF TruthInv, Carried
<1>1. ASSUME NEW c \in Clients, Starts(c) \/ Goes(c) \/ Breaks(c) PROVE TruthInv'
  <2>0. Frame(c) /\ Carried(c)
    BY <1>1, StepFrame DEF TruthInv
  <2>1. LedgerIsTrue'
    <3>1. CASE Write(c)
      BY <1>0, <2>0, <3>1, WriteTrue DEF TruthInv, LedgerIsTrue
    <3> QED
      BY <1>l, <2>0, <3>1 DEF Frame
  <2>2. Carried(c)'
    <3>1. \A j \in Jobs : Backed(ans[c][j].status, j)'
      BY <1>0, <1>1, <2>0, AnswersBacked DEF Carried
    <3>2. cl'[c].cmd = "qdel" =>
              \/ cl'[c].pc = "call"
              \/ cl'[c].pc \in {"reply", "lock", "write"} /\ cl'[c].sent \subseteq removed'
      BY <1>0, <1>1, <2>0, QdelCarried
    <3> QED
      BY <3>1, <3>2 DEF Carried
  <2>3. \A d \in Clients \ {c} : Carried(d)'
    BY <1>s, <2>0 DEF Frame
  <2> QED
    BY <1>g, <2>1, <2>2, <2>3 DEF TruthInv
<1>2. CASE Watches
  <2>1. /\ ledger' = ledger /\ ans' = ans
        /\ \A d \in Clients \ {Watcher} : cl'[d] = cl[d]
        /\ cl'[Watcher].cmd = "jobs" /\ Watcher \in Clients
    BY <1>2, WatchesStep, WatchesFrame
  <2>2. Carried(Watcher)'
    <3>1. \A j \in Jobs : Backed(ans[Watcher][j].status, j)'
      BY <1>0, <2>1 DEF TruthInv, Carried, Backed, Onward, Flows
    <3> QED
      BY <2>1, <3>1 DEF Carried
  <2> QED
    BY <1>g, <1>l, <1>s, <2>1, <2>2 DEF TruthInv
<1>3. CASE HostStep \/ (\E r \in late : ServeLate(r)) \/ UNCHANGED vars
  BY <1>3, <1>g, <1>l, <1>s, OtherSteps DEF TruthInv
<1> QED
  BY <1>1, <1>2, <1>3, WhoseStep

LEMMA AlwaysTrue ==
    ASSUME Assumptions
    PROVE  Spec => [](Typed /\ LockInv /\ TruthInv)
<1>1. Init => TruthInv
  <2>1. \A j \in Jobs : Empty[j].status = "untracked" /\ Silence[j].status = "unasked"
    BY DEF Empty, NoEntry, Silence, Unasked
  <2> QED
    BY <2>1, IdleOK DEF Init, TruthInv, LedgerIsTrue, Gone, Carried, Backed
<1>2. TruthInv /\ Typed /\ LockInv /\ [Next]_vars => TruthInv'
  BY TruthKept
<1> QED
  BY <1>1, <1>2, AlwaysLocked, PTL DEF Spec

\* A settled status in the ledger is a fact, for any number of clients and
\* jobs and however late the answer that brought it: the host's histories say
\* so, and "deleted" means that a qdel of this client removed the job.
THEOREM LedgerStaysTrue == Spec => []LedgerIsTrue
<1>a. Assumptions
  BY LedgerAssumption, ClientAssumption, WatcherAssumption DEF Assumptions
<1>1. TruthInv => LedgerIsTrue
  BY DEF TruthInv
<1> QED
  BY <1>a, <1>1, AlwaysTrue, PTL

\* Only a settled record makes room for others, for any number of clients and
\* of records: the write that drops a job is of the ledger as it is, and drops
\* settled records, or the one it was told to forget; and what settled it is a
\* fact, so that the job is neither queued nor running, unless it had failed.
THEOREM OnlySettledGo == Spec => LiveNeverEvicted
<1> DEFINE Dropped(j) == IsTracked(ledger[j]) /\ ~IsTracked(ledger'[j]) /\ ~Forgetting(j)
           Over(j) == /\ \E c \in Clients : cl[c].pc = "write" /\ IsTerminal(Change(c)[j])
                      /\ InFlight(j) => j \in failedOnce
<1>a. Assumptions
  BY LedgerAssumption, ClientAssumption, WatcherAssumption DEF Assumptions
<1>1. ASSUME Typed, LockInv, TruthInv, [Next]_vars, NEW j \in Jobs, Dropped(j)
      PROVE  Over(j)
  <2>1. PICK c \in Clients : Write(c)
    <3>1. ASSUME NEW c \in Clients, Starts(c) \/ Goes(c) \/ Breaks(c) PROVE Write(c)
      BY <1>1, <1>a, <3>1, StepFrame DEF Frame
    <3>2. ~Watches
      BY <1>1, <1>a, WatchesStep
    <3>3. ~(HostStep \/ (\E r \in late : ServeLate(r)) \/ UNCHANGED vars)
      BY <1>1, OtherSteps
    <3> QED
      BY <1>1, <3>1, <3>2, <3>3, WhoseStep
  <2>2. /\ box[c] = ledger /\ cl[c].pc = "write"
        /\ ledger'[j] = Change(c)[j] \/ IsTerminal(Change(c)[j])
    BY <1>1, <1>a, <2>1, Written DEF Write
  <2>3. IsTerminal(Change(c)[j])
    <3>1. SUFFICES ASSUME ledger'[j] = Change(c)[j] PROVE FALSE
      BY <2>2
    <3>2. ans[c][j] \in Answer
      BY <1>1 DEF Typed, TypeOK, CommandsOK
    <3>3. ans[c][j].status # "untracked"
      BY <3>2 DEF Answer, HostStatuses
    <3>4. cl[c].cmd = "forget" /\ j \in cl[c].sent
      BY <1>1, <1>a, <2>2, <3>1, <3>3, ChangeOK DEF IsTracked
    <3> QED
      BY <1>1, <2>2, <3>4 DEF Forgetting
  <2>4. /\ Backed(Change(c)[j].status, j)
        /\ Change(c)[j].status = "deleted" => j \in removed
    BY <1>1, <1>a, <2>2, ChangeTrue DEF TruthInv
  <2>5. InFlight(j) => view[j].done = "none" /\ j \notin removed
    BY <1>1 DEF Typed, HostInv, Sane, InFlight, TruthInv, Gone
  <2>6. InFlight(j) => j \in failedOnce
    BY <2>3, <2>4, <2>5 DEF IsTerminal, Terminal, Backed
  <2> QED
    BY <2>2, <2>3, <2>6
<1>2. Typed /\ LockInv /\ TruthInv /\ [Next]_vars
         => [\A j \in Jobs :
                IsTracked(ledger[j]) /\ ~IsTracked(ledger'[j]) /\ ~Forgetting(j) =>
                    /\ \E c \in Clients : cl[c].pc = "write" /\ IsTerminal(Change(c)[j])
                    /\ InFlight(j) => j \in failedOnce]_vars
  BY <1>1
<1> QED
  BY <1>2, <1>a, AlwaysTrue, PTL DEF Spec, LiveNeverEvicted

-----------------------------------------------------------------------------
(* Submissions.                                                            *)

\* What the host answered and what is still in the line are, together and in
\* their order, the jobs whose payload was uploaded; none is there twice.
Aligned(c) ==
    LET k == cl[c]
    IN  k.cmd = "submit" =>
          /\ k.pc \in {"post", "call", "reply", "lock", "write"}
          /\ Len(k.results) + Len(k.line) = Len(k.ready)
          /\ \A i \in 1..Len(k.results) : k.results[i] = k.ready[i]
          /\ \A i \in 1..Len(k.line) : k.line[i] = k.ready[Len(k.results) + i]
          /\ \A i, n \in 1..Len(k.line) : k.line[i] = k.line[n] => i = n

\* The jobs of a submission that have never been sent.
Waiting(c) ==
    LET k == cl[c]
        n == CASE k.pc = "post" -> 0
               [] k.pc \in {"call", "reply"} -> Len(Parcel(k.line))
               [] OTHER -> Len(k.line)
    IN  IF k.cmd = "submit" THEN {k.line[i] : i \in (n + 1)..Len(k.line)} ELSE {}

\* The steps of a command that is a submission afterwards.
LEMMA SubmitCourse ==
    ASSUME Assumptions, Typed, NEW c \in Clients, Aligned(c),
           Starts(c) \/ Goes(c) \/ Breaks(c), cl'[c].cmd = "submit"
    PROVE  \/ \E ids \in Submissions : StartSubmit(c, ids)
           \/ Post(c) \/ ServeEnqueue(c) \/ EnqueuedAnswer(c)
           \/ Lock(c) /\ cl[c].cmd = "submit"
<1>0. Shapes
  BY ShapesOK
<1>1. CASE Starts(c)
  BY <1>0, <1>1, StartsCourse
<1>2. CASE Goes(c) \/ Breaks(c)
  <2>1. cl'[c] # Idle
    BY IdleOK
  <2>2. /\ cl[c].cmd = "submit"
        /\ \/ Post(c) \/ ServeEnqueue(c) \/ EnqueuedAnswer(c)
           \/ ServeQdel(c) \/ QdelAnswer(c) \/ Lock(c)
           \/ cl[c].pc \in Reading \cup {"copy", "copying"}
    BY <1>0, <1>2, <2>1, Course
  <2>3. cl[c].pc \notin Reading \cup {"copy", "copying"}
    BY <2>2 DEF Aligned, Reading
  <2> QED
    BY <2>2, <2>3 DEF ServeQdel, QdelAnswer
<1> QED
  BY <1>1, <1>2

\* What the steps of a submission do to its lists.
LEMMA SubmitSteps ==
    ASSUME Assumptions, Typed, NEW c \in Clients
    PROVE  /\ \A ids \in Submissions : StartSubmit(c, ids) =>
                 /\ cl'[c].pc = "post" /\ cl'[c].results = <<>>
                 /\ cl'[c].line = cl'[c].ready /\ cl'[c].line \in Uploads(ids)
           /\ Post(c) \/ ServeEnqueue(c) \/ Lock(c) =>
                 /\ cl'[c].cmd = cl[c].cmd /\ cl'[c].results = cl[c].results
                 /\ cl'[c].line = cl[c].line /\ cl'[c].ready = cl[c].ready
           /\ Post(c) => cl[c].pc = "post" /\ cl'[c].pc = "call" /\ cl[c].cmd = "submit"
           /\ ServeEnqueue(c) => cl[c].pc = "call" /\ cl'[c].pc = "reply" /\ cl[c].cmd = "submit"
           /\ Lock(c) => cl[c].pc = "lock" /\ cl'[c].pc = "write"
           /\ EnqueuedAnswer(c) =>
                 LET line == cl[c].line
                     sent == Parcel(line)
                 IN  /\ cl[c].pc = "reply" /\ cl[c].cmd = "submit"
                     /\ cl'[c].pc \in {"post", "lock"} /\ cl'[c].cmd = "submit"
                     /\ cl'[c].results = cl[c].results \o sent
                     /\ cl'[c].line = SubSeq(line, Len(sent) + 1, Len(line))
                     /\ cl'[c].ready = cl[c].ready
<1>0. Shapes /\ cl[c] \in Control /\ DOMAIN cl = Clients
  BY ShapesOK DEF Shapes
<1>1. ASSUME NEW ids \in Submissions, StartSubmit(c, ids)
      PROVE  /\ cl'[c].pc = "post" /\ cl'[c].results = <<>>
             /\ cl'[c].line = cl'[c].ready /\ cl'[c].line \in Uploads(ids)
  <2>1. PICK u \in Uploads(ids) :
           cl' = [cl EXCEPT ![c] = [Idle EXCEPT !.cmd = "submit", !.pc = "post",
                                                !.line = u, !.ready = u]]
    BY <1>1 DEF StartSubmit
  <2> DEFINE r == [Idle EXCEPT !.cmd = "submit", !.pc = "post", !.line = u, !.ready = u]
  <2>2. r.pc = "post" /\ r.results = <<>> /\ r.line = u /\ r.ready = u
    BY IdleOK DEF Control
  <2>3. cl'[c] = r
    BY <1>0, <2>1
  <2> HIDE DEF r
  <2> QED
    BY <2>2, <2>3
<1>2. CASE Post(c)
  <2> DEFINE r == [cl[c] EXCEPT !.pc = "call", !.sent = InParcel(c), !.rounds = @ + 1]
  <2>1. cl'[c] = r
    BY <1>0, <1>2 DEF Post
  <2>2. /\ r.cmd = cl[c].cmd /\ r.results = cl[c].results /\ r.line = cl[c].line
        /\ r.ready = cl[c].ready /\ r.pc = "call"
    BY <1>0 DEF Control
  <2> HIDE DEF r
  <2>3. /\ cl'[c].cmd = cl[c].cmd /\ cl'[c].results = cl[c].results
        /\ cl'[c].line = cl[c].line /\ cl'[c].ready = cl[c].ready /\ cl'[c].pc = "call"
    BY <2>1, <2>2
  <2>4. cl[c].pc = "post" /\ cl[c].cmd = "submit"
    BY <1>2 DEF Post
  <2> QED
    BY <1>1, <2>3, <2>4 DEF ServeEnqueue, EnqueuedAnswer, Lock
<1>3. CASE ServeEnqueue(c)
  <2>1. Goto(c, "reply") /\ cl[c].pc = "call" /\ cl[c].cmd = "submit"
    BY <1>3 DEF ServeEnqueue
  <2>2. /\ cl'[c].pc = "reply" /\ cl'[c].cmd = cl[c].cmd /\ cl'[c].results = cl[c].results
        /\ cl'[c].line = cl[c].line /\ cl'[c].ready = cl[c].ready
    BY <1>0, <2>1, GotoFrame
  <2> QED
    BY <1>1, <2>1, <2>2 DEF Post, EnqueuedAnswer, Lock
<1>4. CASE Lock(c)
  <2>1. Goto(c, "write") /\ cl[c].pc = "lock"
    BY <1>4 DEF Lock
  <2>2. /\ cl'[c].pc = "write" /\ cl'[c].cmd = cl[c].cmd /\ cl'[c].results = cl[c].results
        /\ cl'[c].line = cl[c].line /\ cl'[c].ready = cl[c].ready
    BY <1>0, <2>1, GotoFrame
  <2> QED
    BY <1>1, <2>1, <2>2 DEF Post, EnqueuedAnswer, ServeEnqueue
<1>5. CASE EnqueuedAnswer(c)
  <2> DEFINE line == cl[c].line
             sent == Parcel(line)
             rest == SubSeq(line, Len(sent) + 1, Len(line))
             more == cl[c].results \o sent
             pc   == IF rest # <<>> /\ (oldHost \/ cl[c].rounds < MaxRounds)
                     THEN "post" ELSE "lock"
             r == [cl[c] EXCEPT !.results = more, !.line = rest, !.sent = {}, !.pc = pc]
  <2>1. pc \in {"post", "lock"} /\ cl[c].pc = "reply" /\ cl[c].cmd = "submit"
    BY <1>5 DEF EnqueuedAnswer
  <2>2. cl' = [cl EXCEPT ![c].results = more, ![c].line = rest, ![c].sent = {}, ![c].pc = pc]
    BY <1>5 DEF EnqueuedAnswer
  <2> HIDE DEF more, rest, pc
  <2>3. cl'[c] = r
    BY <1>0, <2>2
  <2>4. /\ r.pc = pc /\ r.cmd = cl[c].cmd /\ r.results = more /\ r.line = rest
        /\ r.ready = cl[c].ready
    BY <1>0 DEF Control
  <2> HIDE DEF r
  <2>5. /\ cl'[c].pc \in {"post", "lock"} /\ cl'[c].cmd = "submit"
        /\ cl'[c].results = more /\ cl'[c].line = rest /\ cl'[c].ready = cl[c].ready
    BY <2>1, <2>3, <2>4
  <2>6. ~Post(c) /\ ~ServeEnqueue(c) /\ ~Lock(c)
    BY <2>1 DEF Post, ServeEnqueue, Lock
  <2> QED
    BY <1>1, <2>1, <2>5, <2>6 DEF more, rest
<1>6. CASE ~Post(c) /\ ~ServeEnqueue(c) /\ ~Lock(c) /\ ~EnqueuedAnswer(c)
  BY <1>1, <1>6, Zenon
<1> QED
  BY <1>2, <1>3, <1>4, <1>5, <1>6

LEMMA AlignedKept ==
    ASSUME Assumptions, Typed, NEW c \in Clients, Aligned(c),
           Starts(c) \/ Goes(c) \/ Breaks(c)
    PROVE  Aligned(c)'
<1>0. SUFFICES ASSUME cl'[c].cmd = "submit" PROVE Aligned(c)'
  BY DEF Aligned
<1>t. /\ cl[c].line \in Seq(Jobs) /\ cl[c].results \in Seq(Jobs) /\ cl[c].ready \in Seq(Jobs)
      /\ oldHost \in BOOLEAN /\ ClientAssumption
  BY DEF Typed, TypeOK, CommandsOK, Control, Assumptions
<1>1. ASSUME NEW ids \in Submissions, StartSubmit(c, ids) PROVE Aligned(c)'
  <2> DEFINE u == cl'[c].line
  <2>1. u \in Seq(Jobs) /\ \A i, n \in DOMAIN u : u[i] = u[n] => i = n
    BY <1>1, <1>t, SubmitSteps, UploadsOK
  <2>2. cl'[c].pc = "post" /\ cl'[c].results = <<>> /\ cl'[c].ready = u
    BY <1>1, SubmitSteps
  <2> HIDE DEF u
  <2>3. Len(<<>>) = 0 /\ Len(u) \in Nat /\ DOMAIN u = 1..Len(u)
    BY <2>1
  <2> QED
    BY <2>1, <2>2, <2>3 DEF Aligned, u
<1>2. CASE (Post(c) \/ ServeEnqueue(c) \/ Lock(c)) /\ cl[c].cmd = "submit"
  <2>1. /\ cl'[c].results = cl[c].results /\ cl'[c].line = cl[c].line
        /\ cl'[c].ready = cl[c].ready /\ cl'[c].pc \in {"call", "reply", "write"}
    BY <1>2, SubmitSteps
  <2> QED
    BY <1>2, <2>1 DEF Aligned
<1>3. CASE EnqueuedAnswer(c)
  <2> DEFINE line == cl[c].line
             sent == Parcel(line)
             rest == SubSeq(line, Len(sent) + 1, Len(line))
             old  == cl[c].results
             more == old \o sent
             ready == cl[c].ready
  <2>1. /\ cl'[c].pc \in {"post", "lock"} /\ cl'[c].results = more /\ cl'[c].line = rest
        /\ cl'[c].ready = ready /\ cl[c].cmd = "submit"
    BY <1>3, SubmitSteps
  <2>2. /\ sent \in Seq(Jobs) /\ Len(sent) \in 0..Len(line)
        /\ \A i \in 1..Len(sent) : sent[i] = line[i]
    BY <1>t, Parcels
  <2>3. /\ Len(old) + Len(line) = Len(ready)
        /\ \A i \in 1..Len(old) : old[i] = ready[i]
        /\ \A i \in 1..Len(line) : line[i] = ready[Len(old) + i]
        /\ \A i, n \in 1..Len(line) : line[i] = line[n] => i = n
    BY <2>1 DEF Aligned
  <2>4. /\ line \in Seq(Jobs) /\ old \in Seq(Jobs) /\ Len(line) \in Nat /\ Len(old) \in Nat
        /\ Len(sent) \in Nat
    BY <1>t, <2>2
  <2> HIDE DEF line, sent, old, ready
  <2>5. /\ rest \in Seq(Jobs) /\ Len(rest) = Len(line) - Len(sent)
        /\ \A i \in 1..(Len(line) - Len(sent)) : rest[i] = line[i + Len(sent)]
    BY <2>2, <2>4, Suffix
  <2>6. /\ Len(more) = Len(old) + Len(sent)
        /\ \A i \in 1..Len(old) : more[i] = old[i]
        /\ \A i \in 1..Len(sent) : more[Len(old) + i] = sent[i]
    BY <2>2, <2>4, Joined
  <2> HIDE DEF rest, more
  <2>7. Len(more) + Len(rest) = Len(ready)
    <3> DEFINE a == Len(old)
               b == Len(line)
               n == Len(sent)
    <3>1. a \in Nat /\ b \in Nat /\ n \in Nat
      BY <2>4
    <3>2. Len(more) = a + n /\ Len(rest) = b - n /\ Len(ready) = a + b
      BY <2>3, <2>5, <2>6
    <3> HIDE DEF a, b, n
    <3> QED
      BY <3>1, <3>2
  <2>8. ASSUME NEW i \in 1..Len(more) PROVE more[i] = ready[i]
    <3>1. CASE i \in 1..Len(old)
      BY <2>3, <2>6, <3>1
    <3>2. CASE i \notin 1..Len(old)
      <4>1. i - Len(old) \in 1..Len(sent) /\ i - Len(old) \in 1..Len(line)
        BY <2>2, <2>4, <2>6, <3>2
      <4>2. i = Len(old) + (i - Len(old))
        BY <2>4, <2>6
      <4>3. more[i] = sent[i - Len(old)] /\ ready[i] = line[i - Len(old)]
        BY <2>3, <2>6, <4>1, <4>2
      <4> QED
        BY <2>2, <4>1, <4>3
    <3> QED
      BY <3>1, <3>2
  <2>9. ASSUME NEW i \in 1..Len(rest) PROVE rest[i] = ready[Len(more) + i]
    <3>1. i + Len(sent) \in 1..Len(line) /\ i \in 1..(Len(line) - Len(sent))
      BY <2>2, <2>4, <2>5
    <3>2. rest[i] = ready[Len(old) + (i + Len(sent))]
      BY <2>3, <2>5, <3>1
    <3>3. Len(old) + (i + Len(sent)) = Len(more) + i
      BY <2>4, <2>6, <3>1
    <3> QED
      BY <3>2, <3>3
  <2>10. ASSUME NEW i \in 1..Len(rest), NEW n \in 1..Len(rest), rest[i] = rest[n]
         PROVE  i = n
    <3>1. /\ i + Len(sent) \in 1..Len(line) /\ i \in 1..(Len(line) - Len(sent))
          /\ n + Len(sent) \in 1..Len(line) /\ n \in 1..(Len(line) - Len(sent))
      BY <2>2, <2>4, <2>5
    <3>2. i + Len(sent) = n + Len(sent)
      BY <2>3, <2>5, <2>10, <3>1
    <3> QED
      BY <2>4, <3>1, <3>2
  <2> QED
    BY <2>1, <2>7, <2>8, <2>9, <2>10 DEF Aligned
<1> QED
  BY <1>0, <1>1, <1>2, <1>3, SubmitCourse DEF Post, ServeEnqueue

\* What a step of c does to the past.
LEMMA PastFrame ==
    ASSUME NEW c \in Clients, Starts(c) \/ Goes(c) \/ Breaks(c)
    PROVE  /\ UNCHANGED <<told, excused>> \/ Write(c) \/ WriteFails(c)
           /\ UNCHANGED posted \/ Post(c)
           /\ UNCHANGED minted \/ \E ids \in Submissions : StartSubmit(c, ids)
           /\ UNCHANGED oldHost
<1> DEFINE Rest == UNCHANGED <<told, excused, posted, minted, oldHost>>
<1> USE DEF world, ghostVars
<1>1. CASE Starts(c)
  <2>1. ASSUME NEW ids \in Submissions, StartSubmit(c, ids)
        PROVE  UNCHANGED <<told, excused, posted, oldHost>>
    BY <2>1 DEF StartSubmit
  <2>2. StartJobs(c) => Rest
    BY DEF StartJobs
  <2>3. ASSUME NEW j \in Jobs, StartInfo(c, j) \/ StartForget(c, j) \/ StartFetch(c, j)
        PROVE  Rest
    BY <2>3 DEF StartInfo, StartForget, StartFetch
  <2>4. ASSUME NEW S \in SUBSET Jobs, StartQdel(c, S) PROVE Rest
    BY <2>4 DEF StartQdel
  <2> QED
    BY <1>1, <2>1, <2>2, <2>3, <2>4 DEF Starts
<1>2. CASE Post(c) \/ ServeEnqueue(c) \/ EnqueuedAnswer(c) \/ ServeQdel(c) \/ QdelNotFound(c)
           \/ QdelAnswer(c)
  <2>1. Post(c) => UNCHANGED <<told, excused, minted, oldHost>>
    BY DEF Post
  <2>2. ServeEnqueue(c) \/ EnqueuedAnswer(c) => Rest
    BY DEF ServeEnqueue, EnqueuedAnswer
  <2>3. ServeQdel(c) \/ QdelNotFound(c) \/ QdelAnswer(c) => Rest
    BY DEF ServeQdel, QdelNotFound, QdelAnswer, Exit
  <2> QED
    BY <1>2, <2>1, <2>2, <2>3
<1>3. CASE Ask(c) \/ Lookup(c) \/ LookedUp(c) \/ LookupRefused(c)
  <2>1. Ask(c) \/ Lookup(c) => Rest
    BY DEF Ask, Lookup, ReadQueue, ReadRunning, ReadCompleted, ReadFailed, Read
  <2>2. LookedUp(c) \/ LookupRefused(c) => Rest
    BY DEF LookedUp, LookupEnds, LookupRefused
  <2> QED
    BY <1>3, <2>1, <2>2
<1>4. CASE CopyStarts(c) \/ CopyEnds(c) \/ CopyFails(c) \/ Tidy(c) \/ Lock(c)
  BY <1>4 DEF CopyStarts, CopyEnds, CopyFails, Tidy, Lock, copyRest
<1>5. CASE Write(c) \/ WriteFails(c)
  BY <1>5 DEF Write, WriteFails
<1>6. CASE Refused(c) \/ GiveUp(c) \/ Die(c)
  BY <1>6 DEF Refused, GiveUp, Die
<1> QED
  BY <1>1, <1>2, <1>3, <1>4, <1>5, <1>6 DEF Goes, Breaks

LEMMA AlignedSame ==
    ASSUME NEW c \in Clients, Aligned(c), cl'[c] = cl[c] \/ cl'[c].cmd # "submit"
    PROVE  Aligned(c)'
<1>1. CASE cl'[c] = cl[c]
  BY <1>1, Zenon DEF Aligned
<1>2. CASE cl'[c].cmd # "submit"
  BY <1>2 DEF Aligned
<1> QED
  BY <1>1, <1>2

LEMMA AlwaysAligned ==
    ASSUME Assumptions
    PROVE  Spec => [](Typed /\ LockInv /\ \A c \in Clients : Aligned(c))
<1>1. Init => \A c \in Clients : Aligned(c)
  BY IdleOK DEF Init, Aligned
<1>2. ASSUME Typed, LockInv, \A c \in Clients : Aligned(c), [Next]_vars
      PROVE  \A c \in Clients : Aligned(c)'
  <2>1. ASSUME NEW c \in Clients, Starts(c) \/ Goes(c) \/ Breaks(c)
        PROVE  \A d \in Clients : Aligned(d)'
    <3>1. Aligned(c)'
      BY <1>2, <2>1, AlignedKept
    <3>2. \A d \in Clients \ {c} : cl'[d] = cl[d]
      BY <1>2, <2>1, StepFrame DEF Frame
    <3> QED
      BY <1>2, <3>1, <3>2, AlignedSame
  <2>2. CASE Watches
    <3>1. /\ \A d \in Clients \ {Watcher} : cl'[d] = cl[d]
          /\ cl'[Watcher].cmd # "submit"
      BY <1>2, <2>2, WatchesFrame
    <3> QED
      BY <1>2, <3>1, AlignedSame
  <2>3. CASE HostStep \/ (\E r \in late : ServeLate(r)) \/ UNCHANGED vars
    BY <1>2, <2>3, OtherSteps, AlignedSame
  <2> QED
    BY <1>2, <2>1, <2>2, <2>3, WhoseStep
<1>3. Typed /\ LockInv /\ (\A c \in Clients : Aligned(c)) /\ [Next]_vars
         => (\A c \in Clients : Aligned(c))'
  BY <1>2
<1>4. (\A c \in Clients : Aligned(c)) /\ [](Typed /\ LockInv) /\ [][Next]_vars
         => [](\A c \in Clients : Aligned(c))
  BY <1>3, PTL
<1> QED
  BY <1>1, <1>4, AlwaysLocked, PTL DEF Spec

\* Every record is of its own job's payload, untracked jobs' too.
PayloadInv == \A j \in Jobs : ledger[j].payload = j

\* The records appended when the ids the host answered are those of the first
\* payloads.
LEMMA Paired ==
    ASSUME LedgerAssumption, NEW l \in [Jobs -> Entry], NEW born \in Nat,
           NEW ids \in Seq(Jobs), NEW owners \in Seq(Jobs), NEW line \in Seq(Jobs),
           Len(ids) + Len(line) = Len(owners),
           \A i \in 1..Len(ids) : ids[i] = owners[i]
    PROVE  /\ \A j \in Jobs : Recorded(l, ids, owners, born)[j].payload \in {l[j].payload, j}
           /\ \A i \in DOMAIN ids : IsTracked(Recorded(l, ids, owners, born)[ids[i]])
<1> DEFINE m == Recorded(l, ids, owners, born)
<1>1. /\ Len(ids) \in Nat /\ Len(owners) \in Nat /\ Len(line) \in Nat
      /\ DOMAIN ids = 1..Len(ids) /\ DOMAIN owners = 1..Len(owners)
  OBVIOUS
<1>2. \A i \in DOMAIN ids : i \in DOMAIN owners /\ ids[i] = owners[i] /\ ids[i] \in Jobs
  BY <1>1
<1>3. Appends(l, ids, owners, m)
  BY RecordedOK
<1> HIDE DEF m
<1>4. \A j \in Jobs : m[j].payload \in {l[j].payload, j}
  BY <1>2, <1>3 DEF Appends
<1>5. ASSUME NEW i \in DOMAIN ids PROVE IsTracked(m[ids[i]])
  BY <1>2, <1>3 DEF Appends, IsTracked
<1> QED
  BY <1>4, <1>5 DEF m

\* What a write does to payloads, and to the jobs it appends.
LEMMA ChangePayload ==
    ASSUME Assumptions, Typed, NEW c \in Clients, Aligned(c)
    PROVE  /\ \A j \in Jobs : Change(c)[j].payload \in {box[c][j].payload, j}
           /\ cl[c].cmd = "submit" => \A j \in Accepted(c) : IsTracked(Change(c)[j])
<1> DEFINE l == box[c]
           k == cl[c]
<1>0. /\ l \in [Jobs -> Entry] /\ k \in Control /\ ans[c] \in [Jobs -> Answer]
      /\ appended \in Nat /\ k.sent \in SUBSET Jobs /\ k.results \in Seq(Jobs)
      /\ k.ready \in Seq(Jobs) /\ k.line \in Seq(Jobs) /\ k.snap \in [Jobs -> Entry]
  BY DEF Typed, TypeOK, CommandsOK, GhostsOK, Control
<1>a. LedgerAssumption
  BY DEF Assumptions
<1>1. CASE k.cmd = "submit"
  <2>1. Change(c) = Recorded(l, k.results, k.ready, appended)
    BY <1>1 DEF Change
  <2>2. /\ Len(k.results) + Len(k.line) = Len(k.ready)
        /\ \A i \in 1..Len(k.results) : k.results[i] = k.ready[i]
    BY <1>1 DEF Aligned
  <2>3. Accepted(c) = {k.results[i] : i \in DOMAIN k.results}
    BY DEF Accepted
  <2>4. /\ \A j \in Jobs :
              Recorded(l, k.results, k.ready, appended)[j].payload \in {l[j].payload, j}
        /\ \A i \in DOMAIN k.results :
              IsTracked(Recorded(l, k.results, k.ready, appended)[k.results[i]])
    BY <1>0, <1>a, <2>2, Paired
  <2> QED
    BY <2>1, <2>3, <2>4
<1>2. CASE k.cmd \in {"jobs", "info"}
  <2>1. Change(c) = Applied(l, ans[c]) /\ cl[c].cmd # "submit"
    BY <1>2 DEF Change
  <2> HIDE DEF l, k
  <2>2. \A j \in Jobs : Applied(l, ans[c])[j].payload = l[j].payload
    BY <1>0, <1>a, AppliedOK
  <2> QED
    BY <2>1, <2>2 DEF l
<1>3. CASE k.cmd = "qdel"
  <2>1. Change(c) = Marked(l, k.sent) /\ cl[c].cmd # "submit"
    BY <1>3 DEF Change
  <2> HIDE DEF l, k
  <2>2. \A j \in Jobs : Marked(l, k.sent)[j].payload = l[j].payload
    BY <1>0, MarkedOK
  <2> QED
    BY <2>1, <2>2 DEF l
<1>4. CASE k.cmd = "forget"
  <2>1. Change(c) = Without(l, k.sent) /\ cl[c].cmd # "submit"
    BY <1>4 DEF Change
  <2> HIDE DEF l, k
  <2>2. \A j \in Jobs : Without(l, k.sent)[j].payload \in {l[j].payload, j}
    BY <1>0, <1>a, WithoutOK
  <2> QED
    BY <2>1, <2>2 DEF l
<1>5. CASE k.cmd = "fetch"
  <2>1. PICK x \in Jobs : k.sent = {x}
    BY <1>5 DEF Typed, FetchOK, FetchSound
  <2> DEFINE key == CacheKey(k.snap[x])
  <2>2. key \in Key
    BY <1>0, <1>a, EntryTypes
  <2>3. Change(c) \in {l, [l EXCEPT ![x] = WithLog(l[x], key)],
                          [l EXCEPT ![x] = WithoutLog(l[x], key)]}
    <3>1. [l EXCEPT ![x].logFor = key, ![x].missingFor = NoKey]
             = [l EXCEPT ![x] = WithLog(l[x], key)]
      BY <1>0 DEF WithLog
    <3>2. [l EXCEPT ![x].missingFor = key] = [l EXCEPT ![x] = WithoutLog(l[x], key)]
      BY <1>0 DEF WithoutLog
    <3>3. (CHOOSE y \in k.sent : TRUE) = x
      BY <2>1
    <3>4. Change(c) = LET j == CHOOSE y \in k.sent : TRUE
                      IN  LogNoted(l, j, k.got # 0, CacheKey(k.snap[j]))
      BY <1>5 DEF Change
    <3>5. Change(c) \in {l, [l EXCEPT ![x].logFor = key, ![x].missingFor = NoKey],
                            [l EXCEPT ![x].missingFor = key]}
      BY <3>3, <3>4 DEF LogNoted
    <3> HIDE DEF l, k, key
    <3> QED
      BY <3>1, <3>2, <3>5
  <2>4. cl[c].cmd # "submit"
    BY <1>5
  <2> HIDE DEF l, k, key
  <2>5. \A j \in Jobs : Change(c)[j].payload = l[j].payload
    BY <1>0, <1>a, <2>2, <2>3, LogNotedOK
  <2> QED
    BY <2>4, <2>5 DEF l
<1>6. CASE k.cmd = "none"
  BY <1>0, <1>6 DEF Change
<1> QED
  BY <1>0, <1>1, <1>2, <1>3, <1>4, <1>5, <1>6 DEF Control, Commands

LEMMA PayloadKept ==
    ASSUME Assumptions, Typed, LockInv, \A c \in Clients : Aligned(c), PayloadInv,
           [Next]_vars
    PROVE  PayloadInv'
<1>1. ASSUME NEW c \in Clients, Starts(c) \/ Goes(c) \/ Breaks(c) PROVE PayloadInv'
  <2>1. CASE Write(c)
    <3>1. /\ box[c] = ledger
          /\ \A j \in Jobs : ledger'[j] = Change(c)[j] \/ ledger'[j] = NoEntry(j)
      BY <2>1, Written
    <3>2. \A j \in Jobs : Change(c)[j].payload \in {box[c][j].payload, j}
      BY ChangePayload
    <3>3. \A j \in Jobs : NoEntry(j).payload = j
      BY DEF NoEntry
    <3> QED
      BY <3>1, <3>2, <3>3 DEF PayloadInv
  <2>2. CASE ledger' = ledger
    BY <2>2 DEF PayloadInv
  <2> QED
    BY <1>1, <2>1, <2>2, StepFrame DEF Frame
<1>2. CASE Watches
  BY <1>2, WatchesStep DEF PayloadInv
<1>3. CASE HostStep \/ (\E r \in late : ServeLate(r)) \/ UNCHANGED vars
  BY <1>3, OtherSteps DEF PayloadInv
<1> QED
  BY <1>1, <1>2, <1>3, WhoseStep

\* A record names the payload of its own job, for lists of any length and
\* caps of any size: the ids the host answered and the payloads that were
\* uploaded agree position by position, however the list was cut.
THEOREM PayloadsAgree == Spec => []OwnPayload
<1>a. Assumptions
  BY LedgerAssumption, ClientAssumption, WatcherAssumption DEF Assumptions
<1>1. Init => PayloadInv
  BY DEF Init, PayloadInv, Empty, NoEntry
<1>2. PayloadInv /\ Typed /\ LockInv /\ (\A c \in Clients : Aligned(c)) /\ [Next]_vars
         => PayloadInv'
  BY <1>a, PayloadKept
<1>3. PayloadInv => OwnPayload
  BY DEF PayloadInv, OwnPayload
<1> QED
  BY <1>a, <1>1, <1>2, <1>3, AlwaysAligned, PTL DEF Spec

LEMMA TrackedKept ==
    ASSUME Assumptions, Typed, LockInv, \A c \in Clients : Aligned(c), SubmittedIsTracked,
           [Next]_vars
    PROVE  SubmittedIsTracked'
<1>u. UNCHANGED <<told, excused, ledger>> => SubmittedIsTracked'
  BY DEF SubmittedIsTracked
<1>0. told \in SUBSET Jobs
  BY DEF Typed, TypeOK, GhostsOK
<1>1. ASSUME NEW c \in Clients, Starts(c) \/ Goes(c) \/ Breaks(c) PROVE SubmittedIsTracked'
  <2>0. Accepted(c) \in SUBSET Jobs
    BY DEF Accepted, Typed, TypeOK, CommandsOK, Control
  <2>1. CASE Write(c)
    <3>0. /\ box[c] = ledger /\ excused \subseteq excused' /\ Change(c) \in [Jobs -> Entry]
      BY <2>1, Written
    <3>1. \A j \in told' : j \in told \/ (cl[c].cmd = "submit" /\ j \in Accepted(c))
      BY <2>1 DEF Write, Reported
    <3>2. ASSUME NEW j \in told' PROVE IsTracked(ledger'[j]) \/ j \in excused'
      <4>0. j \in Jobs
        BY <1>0, <2>0, <3>1
      <4>1. /\ ledger'[j] = Change(c)[j] \/ j \in excused'
            /\ cl[c].cmd = "forget" /\ j \in cl[c].sent =>
                  ledger'[j] = ledger[j] \/ j \in excused'
        BY <2>1, <4>0, Written
      <4>2. CASE cl[c].cmd = "submit" /\ j \in Accepted(c)
        <5>1. IsTracked(Change(c)[j])
          BY <4>2, ChangePayload
        <5> QED
          BY <4>1, <5>1
      <4>3. CASE j \in told /\ j \notin excused
        <5>1. IsTracked(ledger[j])
          BY <4>3 DEF SubmittedIsTracked
        <5>2. CASE cl[c].cmd = "forget" /\ j \in cl[c].sent
          BY <4>1, <5>1, <5>2
        <5>3. CASE ~(cl[c].cmd = "forget" /\ j \in cl[c].sent)
          <6>1. ans[c][j] \in Answer
            BY <4>0 DEF Typed, TypeOK, CommandsOK
          <6>2. ans[c][j].status # "untracked"
            BY <6>1 DEF Answer, HostStatuses
          <6>3. IsTracked(Change(c)[j])
            BY <3>0, <4>0, <5>1, <5>3, <6>2, ChangeOK DEF IsTracked
          <6> QED
            BY <4>1, <6>3
        <5> QED
          BY <5>2, <5>3
      <4> QED
        BY <3>0, <3>1, <4>2, <4>3
    <3> QED
      BY <3>2 DEF SubmittedIsTracked
  <2>2. CASE WriteFails(c)
    <3>1. /\ UNCHANGED ledger
          /\ told' = IF cl[c].cmd = "submit" THEN told \cup Accepted(c) ELSE told
          /\ excused' = IF cl[c].cmd = "submit" THEN excused \cup Accepted(c) ELSE excused
      BY <2>2 DEF WriteFails, Reported
    <3> QED
      BY <3>1 DEF SubmittedIsTracked
  <2>3. CASE UNCHANGED <<told, excused>> /\ ~Write(c)
    <3>1. ledger' = ledger
      BY <1>1, <2>3, StepFrame DEF Frame
    <3> QED
      BY <1>u, <2>3, <3>1
  <2> QED
    BY <1>1, <2>1, <2>2, <2>3, PastFrame
<1>2. CASE Watches
  BY <1>2, <1>u, WatchesStep
<1>3. CASE HostStep \/ (\E r \in late : ServeLate(r)) \/ UNCHANGED vars
  BY <1>3, <1>u, OtherSteps
<1> QED
  BY <1>1, <1>2, <1>3, WhoseStep

\* What was reported as submitted is in the ledger, for any number of clients
\* that write to it at once: each writes what it read under the lock.
THEOREM SubmittedStaysTracked == Spec => []SubmittedIsTracked
<1>a. Assumptions
  BY LedgerAssumption, ClientAssumption, WatcherAssumption DEF Assumptions
<1>1. Init => SubmittedIsTracked
  BY DEF Init, SubmittedIsTracked
<1>2. SubmittedIsTracked /\ Typed /\ LockInv /\ (\A c \in Clients : Aligned(c)) /\ [Next]_vars
         => SubmittedIsTracked'
  BY <1>a, TrackedKept
<1> QED
  BY <1>a, <1>1, <1>2, AlwaysAligned, PTL DEF Spec

\* A step of c sends only jobs of c that have never been sent, which wait no
\* longer then; only a submission that begins has more of them.
LEMMA WaitingMoves ==
    ASSUME Assumptions, Typed, NEW c \in Clients, Aligned(c),
           Starts(c) \/ Goes(c) \/ Breaks(c)
    PROVE  /\ \/ Waiting(c)' \subseteq Waiting(c)
              \/ \E ids \in Submissions :
                    /\ StartSubmit(c, ids)
                    /\ Waiting(c)' \subseteq {ids[i] : i \in DOMAIN ids}
           /\ Post(c) => /\ InParcel(c) \subseteq Waiting(c)
                         /\ Waiting(c)' \cap InParcel(c) = {}
<1>t. /\ cl[c].line \in Seq(Jobs) /\ Len(cl[c].line) \in Nat
      /\ oldHost \in BOOLEAN /\ ClientAssumption
  BY DEF Typed, TypeOK, CommandsOK, Control, Assumptions
<1>o. oldHost' = oldHost
  BY PastFrame
<1> DEFINE line == cl[c].line
           sent == Parcel(line)
<1>p. /\ Len(sent) \in 0..Len(line) /\ DOMAIN sent = 1..Len(sent)
      /\ \A i \in 1..Len(sent) : sent[i] = line[i]
  BY <1>t, Parcels
<1>1. ASSUME NEW ids \in Submissions, StartSubmit(c, ids)
      PROVE  Waiting(c)' \subseteq {ids[i] : i \in DOMAIN ids} /\ ~Post(c)
  <2> DEFINE u == cl'[c].line
  <2>1. cl'[c].pc = "post" /\ u \in Seq(Jobs)
        /\ \A i \in DOMAIN u : \E k \in DOMAIN ids : u[i] = ids[k]
    BY <1>1, <1>t, SubmitSteps, UploadsOK
  <2>2. Waiting(c)' \subseteq {u[i] : i \in 1..Len(u)}
    BY <2>1 DEF Waiting
  <2>3. ~Post(c)
    BY <1>1 DEF StartSubmit, Begin, Post
  <2> HIDE DEF u
  <2> QED
    BY <2>1, <2>2, <2>3
<1>2. CASE Post(c)
  <2>1. /\ cl[c].cmd = "submit" /\ cl'[c].cmd = "submit" /\ cl[c].pc = "post"
        /\ cl'[c].pc = "call" /\ cl'[c].line = line
    BY <1>2, SubmitSteps
  <2>2. Waiting(c) = {line[i] : i \in 1..Len(line)}
    BY <2>1 DEF Waiting
  <2>3. Waiting(c)' = {line[i] : i \in (Len(sent) + 1)..Len(line)}
    BY <2>1, <1>o DEF Waiting, Parcel
  <2>4. \A i, n \in 1..Len(line) : line[i] = line[n] => i = n
    BY <2>1 DEF Aligned
  <2>5. InParcel(c) = {sent[i] : i \in 1..Len(sent)}
    BY <1>p DEF InParcel
  <2> HIDE DEF line, sent
  <2>6. \A i \in 1..Len(sent) : i \in 1..Len(line) /\ sent[i] = line[i]
    BY <1>p
  <2>7. \A i \in (Len(sent) + 1)..Len(line) : i \in 1..Len(line) /\ i \notin 1..Len(sent)
    BY <1>p, <1>t DEF line
  <2> QED
    BY <2>2, <2>3, <2>4, <2>5, <2>6, <2>7
<1>3. CASE ServeEnqueue(c)
  <2>1. /\ cl[c].cmd = "submit" /\ cl'[c].cmd = "submit" /\ cl[c].pc = "call"
        /\ cl'[c].pc = "reply" /\ cl'[c].line = line
    BY <1>3, SubmitSteps
  <2>2. Waiting(c)' = Waiting(c)
    BY <2>1, <1>o DEF Waiting, Parcel
  <2> QED
    BY <2>1, <2>2 DEF Post
<1>4. CASE EnqueuedAnswer(c)
  <2> DEFINE rest == SubSeq(line, Len(sent) + 1, Len(line))
  <2>1. /\ cl[c].cmd = "submit" /\ cl'[c].cmd = "submit" /\ cl[c].pc = "reply"
        /\ cl'[c].pc \in {"post", "lock"} /\ cl'[c].line = rest
    BY <1>4, SubmitSteps
  <2>2. Waiting(c) = {line[i] : i \in (Len(sent) + 1)..Len(line)}
    BY <2>1 DEF Waiting
  <2>3. /\ Len(rest) = Len(line) - Len(sent)
        /\ \A i \in 1..(Len(line) - Len(sent)) : rest[i] = line[i + Len(sent)]
    BY <1>p, <1>t, Suffix
  <2>4. Waiting(c)' \subseteq {rest[i] : i \in 1..Len(rest)}
    <3>1. Len(rest) \in Nat
      BY <2>3, <1>p, <1>t
    <3> HIDE DEF rest
    <3>2. CASE cl'[c].pc = "post"
      BY <2>1, <3>2 DEF Waiting
    <3>3. CASE cl'[c].pc = "lock"
      BY <2>1, <3>1, <3>3 DEF Waiting
    <3> QED
      BY <2>1, <3>2, <3>3
  <2> HIDE DEF rest, line, sent
  <2>5. \A i \in 1..Len(rest) : i + Len(sent) \in (Len(sent) + 1)..Len(line)
                                /\ rest[i] = line[i + Len(sent)]
    BY <1>p, <1>t, <2>3 DEF line
  <2>6. Waiting(c)' \subseteq Waiting(c)
    BY <2>2, <2>4, <2>5
  <2> QED
    BY <2>1, <2>6 DEF Post
<1>5. CASE Lock(c) /\ cl[c].cmd = "submit"
  <2>1. cl'[c].pc = "write" /\ cl[c].pc = "lock" /\ cl'[c].line = line
    BY <1>5, SubmitSteps
  <2>2. Waiting(c)' = {}
    BY <2>1, <1>t DEF Waiting
  <2> QED
    BY <2>1, <2>2 DEF Post
<1>6. CASE cl'[c].cmd # "submit"
  <2>1. Waiting(c)' = {}
    BY <1>6 DEF Waiting
  <2>2. ~Post(c)
    BY <1>6, SubmitSteps
  <2> QED
    BY <2>1, <2>2
<1> QED
  BY <1>1, <1>2, <1>3, <1>4, <1>5, <1>6, SubmitCourse

SentOnce ==
    /\ \A j \in Jobs : posted[j] \in {0, 1} /\ (posted[j] # 0 => j \in minted)
    /\ \A c \in Clients : \A j \in Waiting(c) : j \in minted /\ posted[j] = 0
    /\ \A c, d \in Clients : c # d => Waiting(c) \cap Waiting(d) = {}

LEMMA SentOnceKept ==
    ASSUME Assumptions, Typed, \A c \in Clients : Aligned(c), SentOnce, [Next]_vars
    PROVE  SentOnce'
<1>w. ASSUME NEW d \in Clients, cl'[d] = cl[d], oldHost' = oldHost
      PROVE  Waiting(d)' = Waiting(d)
  BY <1>w DEF Waiting, Parcel
<1>e. ASSUME NEW d \in Clients, cl'[d].cmd # "submit" PROVE Waiting(d)' = {}
  BY <1>e DEF Waiting
<1>1. ASSUME NEW c \in Clients, Starts(c) \/ Goes(c) \/ Breaks(c) PROVE SentOnce'
  <2>1. \A d \in Clients \ {c} : Waiting(d)' = Waiting(d)
    BY <1>1, <1>w, StepFrame, PastFrame DEF Frame
  <2>2. /\ \/ Waiting(c)' \subseteq Waiting(c)
           \/ \E ids \in Submissions :
                 /\ StartSubmit(c, ids)
                 /\ Waiting(c)' \subseteq {ids[i] : i \in DOMAIN ids}
        /\ Post(c) => /\ InParcel(c) \subseteq Waiting(c)
                      /\ Waiting(c)' \cap InParcel(c) = {}
    BY <1>1, WaitingMoves
  <2>3. ASSUME NEW ids \in Submissions, StartSubmit(c, ids),
               Waiting(c)' \subseteq {ids[i] : i \in DOMAIN ids}
        PROVE  SentOnce'
    <3>1. /\ minted' = minted \cup {ids[i] : i \in DOMAIN ids} /\ UNCHANGED posted
          /\ \A i \in DOMAIN ids : ids[i] \notin minted
      BY <2>3 DEF StartSubmit
    <3>2. \A j \in Waiting(c)' : j \notin minted /\ j \in minted' /\ j \in Jobs
      BY <2>3, <3>1 DEF Assumptions, ClientAssumption
    <3>3. \A j \in Waiting(c)' : posted[j] = 0
      BY <3>2 DEF SentOnce
    <3> HIDE DEF Waiting
    <3> QED
      BY <2>1, <3>1, <3>2, <3>3 DEF SentOnce
  <2>4. CASE Waiting(c)' \subseteq Waiting(c) /\ Post(c)
    <3>1. /\ UNCHANGED minted
          /\ posted' = [j \in Jobs |-> IF j \in InParcel(c) THEN posted[j] + 1 ELSE posted[j]]
      BY <2>4 DEF Post, ghostVars
    <3>2. /\ InParcel(c) \subseteq Waiting(c)
          /\ Waiting(c)' \cap InParcel(c) = {}
      BY <2>2, <2>4
    <3>3. \A d \in Clients \ {c} : Waiting(d) \cap InParcel(c) = {}
      BY <3>2 DEF SentOnce
    <3>4. ASSUME NEW j \in Jobs
          PROVE  posted'[j] \in {0, 1} /\ (posted'[j] # 0 => j \in minted)
      BY <3>1, <3>2 DEF SentOnce
    <3>5. ASSUME NEW d \in Clients, NEW j \in Waiting(d)'
          PROVE  j \in minted /\ posted'[j] = 0
      <4>1. j \in Waiting(d) /\ j \notin InParcel(c)
        BY <2>1, <2>4, <3>2, <3>3
      <4>2. j \in minted /\ posted[j] = 0
        BY <4>1 DEF SentOnce
      <4>3. j \in Jobs
        BY <4>2 DEF Typed, TypeOK, GhostsOK
      <4> QED
        BY <3>1, <4>1, <4>2, <4>3
    <3> QED
      BY <2>1, <2>4, <3>1, <3>4, <3>5 DEF SentOnce
  <2>5. CASE Waiting(c)' \subseteq Waiting(c) /\ ~Post(c)
            /\ ~\E ids \in Submissions : StartSubmit(c, ids)
    <3>1. UNCHANGED <<posted, minted>>
      BY <1>1, <2>5, PastFrame
    <3> QED
      BY <2>1, <2>5, <3>1 DEF SentOnce
  <2>6. ASSUME Waiting(c)' \subseteq Waiting(c), NEW ids \in Submissions, StartSubmit(c, ids)
        PROVE  SentOnce'
    <3>1. minted \subseteq minted' /\ UNCHANGED posted
      BY <2>6 DEF StartSubmit
    <3> QED
      BY <2>1, <2>6, <3>1 DEF SentOnce
  <2> QED
    BY <2>2, <2>3, <2>4, <2>5, <2>6
<1>2. CASE Watches
  <2>1. /\ \A d \in Clients \ {Watcher} : cl'[d] = cl[d]
        /\ cl'[Watcher].cmd # "submit" /\ Watcher \in Clients
    BY <1>2, WatchesFrame
  <2>2. UNCHANGED <<posted, minted, oldHost>>
    BY <1>2, WatchesStep
  <2>3. \A d \in Clients : Waiting(d)' = Waiting(d) \/ Waiting(d)' = {}
    BY <1>w, <1>e, <2>1, <2>2
  <2> QED
    BY <2>2, <2>3 DEF SentOnce
<1>3. CASE HostStep \/ (\E r \in late : ServeLate(r)) \/ UNCHANGED vars
  <2>1. UNCHANGED <<cl, posted, minted, oldHost>>
    BY <1>3, OtherSteps
  <2>2. \A d \in Clients : Waiting(d)' = Waiting(d)
    BY <1>w, <2>1
  <2> QED
    BY <2>1, <2>2 DEF SentOnce
<1> QED
  BY <1>1, <1>2, <1>3, WhoseStep

\* No job is ever sent to the host twice, for batches, caps and rounds of any
\* size and on an old host: a request carries only what no earlier request of
\* any command carried.
THEOREM SentAtMostOnce == Spec => []NeverSubmittedTwice
<1>a. Assumptions
  BY LedgerAssumption, ClientAssumption, WatcherAssumption DEF Assumptions
<1>1. Init => SentOnce
  BY <1>a, IdleOK DEF Init, SentOnce, Waiting
<1>2. SentOnce /\ Typed /\ LockInv /\ (\A c \in Clients : Aligned(c)) /\ [Next]_vars
         => SentOnce'
  BY <1>a, SentOnceKept
<1>3. SentOnce => NeverSubmittedTwice
  BY DEF SentOnce, NeverSubmittedTwice
<1> QED
  BY <1>a, <1>1, <1>2, <1>3, AlwaysAligned, PTL DEF Spec

-----------------------------------------------------------------------------
(* Lookups without the lock.                                               *)

\* A step that is not d's: either the host's jobs stay where they are, or a
\* lookup of d's in progress has them in sight.
Looks(d) ==
    \/ seen'[d] = Watched(d, view')
    \/ seen'[d] = seen[d] /\ view' = view

\* What a step of c does to answers and sightings.
LEMMA Glances ==
    ASSUME Assumptions, Typed, NEW c \in Clients, Starts(c) \/ Goes(c) \/ Breaks(c)
    PROVE  /\ \A d \in Clients \ {c} : Looks(d)
           /\ \/ Quiet(c) \/ Ask(c) \/ Lookup(c) \/ LookupRefused(c)
              \/ /\ cl[c].pc \notin Reading /\ cl'[c].pc \notin Reading
                 /\ ans'[c] = ans[c] /\ seen'[c] = seen[c]
<1> DEFINE Apart == \A d \in Clients \ {c} : Looks(d)
           Calmly == /\ cl[c].pc \notin Reading /\ cl'[c].pc \notin Reading
                     /\ ans'[c] = ans[c] /\ seen'[c] = seen[c]
<1>0. /\ Shapes /\ seen \in [Clients -> [Jobs -> SUBSET Sightings]]
  BY ShapesOK DEF Typed, TypeOK, GhostsOK
<1>s. seen' = seen /\ view' = view => Apart
  BY DEF Looks
<1>w. Watch => Apart
  BY DEF Looks, Watch
<1>x. Watch /\ cl[c].pc \notin Reading => seen'[c] = seen[c]
  BY <1>0 DEF Watch, Watched
<1>q. Quiet(c) /\ view' = view => Apart
  BY <1>0 DEF Quiet, Looks
<1> USE DEF world, hostVars
<1>1. CASE Starts(c)
  <2>1. /\ UNCHANGED <<view, ans>> /\ cl'[c].pc \in {"post", "call", "lock", "copy"}
    BY <1>0, <1>1, StartsFrame
  <2>2. cl[c].pc = "idle" /\ seen' = seen
    BY <1>1 DEF Starts, Begin, StartSubmit, StartJobs, StartInfo, StartForget, StartFetch,
       StartQdel
  <2>3. Calmly
    BY <2>1, <2>2 DEF Reading
  <2> QED
    BY <1>s, <2>1, <2>2, <2>3
<1>2. CASE Post(c) \/ EnqueuedAnswer(c)
  <2>1. cl'[c].pc \in {"call", "post", "lock"}
    BY <1>2, SubmitSteps
  <2>2. cl[c].pc \in {"post", "reply"} /\ UNCHANGED <<view, ans, seen>>
    BY <1>2 DEF Post, EnqueuedAnswer
  <2>3. Calmly
    BY <2>1, <2>2 DEF Reading
  <2> QED
    BY <1>s, <2>2, <2>3
<1>3. CASE ServeEnqueue(c) \/ ServeQdel(c)
  <2>1. Goto(c, "reply") /\ cl[c].pc = "call" /\ Watch /\ UNCHANGED ans
    BY <1>3 DEF ServeEnqueue, ServeQdel
  <2>2. cl'[c].pc = "reply"
    BY <1>0, <2>1, GotoFrame
  <2>3. Calmly
    BY <1>x, <2>1, <2>2 DEF Reading
  <2> QED
    BY <1>w, <2>1, <2>3
<1>4. CASE QdelAnswer(c) \/ Lock(c)
  <2>1. /\ Goto(c, "lock") \/ Goto(c, "write")
        /\ cl[c].pc \in {"reply", "lock"} /\ UNCHANGED <<view, ans, seen>>
    BY <1>4 DEF QdelAnswer, Lock
  <2>2. cl'[c].pc \in {"lock", "write"}
    BY <1>0, <2>1, GotoFrame
  <2>3. Calmly
    BY <2>1, <2>2 DEF Reading
  <2> QED
    BY <1>s, <2>1, <2>3
<1>5. CASE CopyStarts(c) \/ CopyEnds(c) \/ CopyFails(c)
  <2>1. /\ \/ Goto(c, "lock") \/ Goto(c, "tidy")
           \/ \E n : cl' = [cl EXCEPT ![c].pc = "copying", ![c].got = n]
        /\ cl[c].pc \in {"copy", "copying"}
    BY <1>5 DEF CopyStarts, CopyEnds, CopyFails
  <2>2. UNCHANGED <<view, ans, seen>>
    BY <1>5 DEF CopyStarts, CopyEnds, CopyFails, copyRest
  <2>3. ASSUME NEW n, cl' = [cl EXCEPT ![c].pc = "copying", ![c].got = n]
        PROVE  cl'[c].pc = "copying"
    BY <1>0, <2>3 DEF Shapes, Control
  <2>4. cl'[c].pc \in {"lock", "tidy", "copying"}
    BY <1>0, <2>1, <2>3, GotoFrame
  <2>5. Calmly
    BY <2>1, <2>2, <2>4 DEF Reading
  <2> QED
    BY <1>s, <2>2, <2>5
<1>6. CASE LookedUp(c)
  <2>1. PICK rest : LookupEnds(c, rest) /\ cl[c].pc = "reply"
    BY <1>6 DEF LookedUp
  <2>2. CASE Quiet(c) /\ UNCHANGED <<world, ghostVars>>
    BY <1>q, <2>2
  <2>3. ASSUME NEW S, NEW pc \in {"post", "lock"},
               cl' = [cl EXCEPT ![c].asks = S, ![c].sent = {}, ![c].pc = pc],
               UNCHANGED <<world, ans, box, seen, ghostVars>>
        PROVE  Apart /\ Calmly
    <3>1. cl'[c].pc = pc
      BY <1>0, <2>3 DEF Shapes, Control
    <3>2. Calmly
      BY <2>1, <2>3, <3>1 DEF Reading
    <3> QED
      BY <1>s, <2>3, <3>2
  <2> QED
    BY <2>1, <2>2, <2>3 DEF LookupEnds
<1>7. CASE Write(c) \/ WriteFails(c)
  <2>1. /\ cl[c].pc = "write" /\ view' = view
        /\ Quiet(c) \/ (Goto(c, "tidy") /\ UNCHANGED <<ans, seen>>)
    BY <1>7 DEF Write, WriteFails, ToTidy
  <2>2. ASSUME Goto(c, "tidy"), UNCHANGED <<ans, seen>> PROVE Apart /\ Calmly
    <3>1. cl'[c].pc = "tidy"
      BY <1>0, <2>2, GotoFrame
    <3>2. Calmly
      BY <2>1, <2>2, <3>1 DEF Reading
    <3> QED
      BY <1>s, <2>1, <2>2, <3>2
  <2> QED
    BY <1>q, <2>1, <2>2
<1>8. CASE QdelNotFound(c) \/ Tidy(c) \/ Refused(c) \/ GiveUp(c) \/ Die(c)
  <2>1. Quiet(c) /\ view' = view
    BY <1>8 DEF QdelNotFound, Exit, Tidy, Refused, GiveUp, Die
  <2> QED
    BY <1>q, <2>1
<1>9. CASE Lookup(c) \/ LookupRefused(c)
  <2>1. UNCHANGED <<view, seen>>
    BY <1>9 DEF Lookup, ReadQueue, ReadRunning, ReadCompleted, ReadFailed, Read, LookupRefused
  <2> QED
    BY <1>9, <1>s, <2>1
<1>10. CASE Ask(c)
  <2>1. view' = view /\ \E S : seen' = [seen EXCEPT ![c] =
                         [j \in Jobs |-> IF j \in S THEN {Sighting(view[j])} ELSE @[j]]]
    BY <1>10 DEF Ask
  <2>2. \A d \in Clients \ {c} : seen'[d] = seen[d]
    BY <1>0, <2>1
  <2> QED
    BY <1>10, <2>1, <2>2 DEF Looks
<1> QED
  BY <1>1, <1>2, <1>3, <1>4, <1>5, <1>6, <1>7, <1>8, <1>9, <1>10 DEF Goes, Breaks

\* The host's steps, and those done for nobody.
LEMMA OtherGlances ==
    ASSUME HostStep \/ (\E r \in late : ServeLate(r)) \/ UNCHANGED vars, NEW d \in Clients
    PROVE  Looks(d)
<1>w. Watch => Looks(d)
  BY DEF Watch, Looks
<1>1. CASE HostStep
  <2>1. Watch \/ (seen' = seen /\ view' = view)
    BY <1>1 DEF HostStep, Launch, Recycle, Progress, Fail, GoBack, Operate, HostLoses, Moved
  <2> QED
    BY <1>w, <2>1 DEF Looks
<1>2. CASE \E r \in late : ServeLate(r)
  BY <1>2, <1>w DEF ServeLate
<1>3. CASE UNCHANGED vars
  BY <1>3 DEF vars, hostVars, Looks
<1> QED
  BY <1>1, <1>2, <1>3

\* What a lookup at step pc has seen (S) of a job it is about, that is now as v
\* says, when its answer so far is s.
Glimpse(v, s, pc, S) ==
    /\ Sighting(v) \in S
    /\ s \in {"queued", "running"} => s \in S
    /\ s \notin {"queued", "running", "none"} => "neither" \in S
    /\ s = "none" /\ pc = "read_running" => v.at = "running" \/ "neither" \in S
    /\ s = "none" /\ pc \in {"read_completed", "read_failed"} => "neither" \in S

\* The job moves on under the lookup's eyes.
LEMMA GlimpseGrows ==
    ASSUME NEW v, NEW w, NEW s, NEW pc, NEW S, Glimpse(v, s, pc, S), Flows(v, w)
    PROVE  Glimpse(w, s, pc, S \cup {Sighting(w)})
<1>1. CASE s = "none" /\ pc = "read_running" /\ "neither" \notin S
  <2>1. w.at \in {"running", "hand"}
    BY <1>1 DEF Glimpse, Flows
  <2>2. w.at = "running" \/ Sighting(w) = "neither"
    BY <2>1 DEF Sighting
  <2> QED
    BY <1>1, <2>2 DEF Glimpse
<1>2. CASE ~(s = "none" /\ pc = "read_running" /\ "neither" \notin S)
  BY <1>2 DEF Glimpse
<1> QED
  BY <1>1, <1>2

\* The answers of c, and what it saw.
Sought(c, j) == cl[c].pc \in Reading /\ j \in cl[c].sent

SightOK(c, j) ==
    IF Sought(c, j)
    THEN Glimpse(view[j], ans[c][j].status, cl[c].pc, seen[c][j])
    ELSE ans[c][j].status # "unasked" =>
            \/ Claimed(ans[c][j].status) \in seen[c][j]
            \/ oldHost /\ ans[c][j].status = "none"

\* A lookup that does not move.
LEMMA SightStays ==
    ASSUME Typed, NEW d \in Clients, NEW j \in Jobs, SightOK(d, j), Looks(d),
           cl'[d] = cl[d], ans'[d] = ans[d], oldHost' = oldHost, Flows(view[j], view'[j])
    PROVE  SightOK(d, j)'
<1>1. CASE Sought(d, j) /\ view' = view /\ seen'[d] = seen[d]
  BY <1>1 DEF SightOK, Sought
<1>2. CASE Sought(d, j) /\ seen'[d] = Watched(d, view')
  <2>1. seen'[d][j] = seen[d][j] \cup {Sighting(view'[j])}
    BY <1>2 DEF Watched, Sought
  <2>2. Glimpse(view'[j], ans[d][j].status, cl[d].pc, seen'[d][j])
    BY <1>2, <2>1, GlimpseGrows DEF SightOK
  <2> QED
    BY <1>2, <2>2 DEF SightOK, Sought
<1>3. CASE ~Sought(d, j)
  <2>1. seen'[d][j] = seen[d][j]
    BY <1>3 DEF Looks, Watched, Sought
  <2> QED
    BY <1>3, <2>1 DEF SightOK, Sought
<1> QED
  BY <1>1, <1>2, <1>3 DEF Looks

\* One file is read.
LEMMA GlimpseReads ==
    ASSUME Typed, NEW c \in Clients, NEW j \in Jobs,
           Glimpse(view[j], ans[c][j].status, cl[c].pc, seen[c][j]),
           NEW file, NEW next,
           <<cl[c].pc, file, next>> \in {<<"read_queue", "queue", "read_running">>,
                                         <<"read_running", "running", "read_completed">>,
                                         <<"read_completed", "completed", "read_failed">>,
                                         <<"read_failed", "failed", "reply">>},
           NEW s, s = IF ans[c][j].status = "none" /\ Found(j, file)
                      THEN Account(j, file).status ELSE ans[c][j].status
    PROVE  /\ Glimpse(view[j], s, next, seen[c][j])
           /\ next = "reply" => Claimed(s) \in seen[c][j]
<1>0. view[j] \in H!View
  BY DEF Typed, TypeOK, HostOK
<1>1. CASE file = "queue" /\ cl[c].pc = "read_queue" /\ next = "read_running"
  <2>1. Found(j, file) => Account(j, file).status = "queued" /\ Sighting(view[j]) = "queued"
    BY <1>1 DEF Found, Account, Says, Sighting
  <2>2. ~Found(j, file) => view[j].at = "running" \/ Sighting(view[j]) = "neither"
    BY <1>1 DEF Found, Sighting
  <2> QED
    BY <1>1, <2>1, <2>2 DEF Glimpse
<1>2. CASE file = "running" /\ cl[c].pc = "read_running" /\ next = "read_completed"
  <2>1. Found(j, file) => Account(j, file).status = "running" /\ Sighting(view[j]) = "running"
    BY <1>2 DEF Found, Account, Says, Sighting
  <2>2. ~Found(j, file) => view[j].at # "running"
    BY <1>2 DEF Found
  <2> QED
    BY <1>2, <2>1, <2>2 DEF Glimpse
<1>3. CASE file = "completed" /\ cl[c].pc = "read_completed" /\ next = "read_failed"
  <2>1. Account(j, file).status = view[j].done
    BY <1>3 DEF Account, Says
  <2>2. Found(j, file) => view[j].done \in {"completed", "unknown"}
    BY <1>0, <1>3 DEF Found, H!View
  <2> QED
    BY <1>3, <2>1, <2>2 DEF Glimpse
<1>4. CASE file = "failed" /\ cl[c].pc = "read_failed" /\ next = "reply"
  <2>1. Account(j, file).status = "failed"
    BY <1>4 DEF Account, Says
  <2> QED
    BY <1>4, <2>1 DEF Glimpse, Claimed
<1> QED
  BY <1>1, <1>2, <1>3, <1>4

LEMMA SightLookup ==
    ASSUME Assumptions, Typed, NEW c \in Clients, Lookup(c), NEW j \in Jobs, SightOK(c, j)
    PROVE  SightOK(c, j)'
<1>0. /\ DOMAIN ans = Clients /\ ans[c] \in [Jobs -> Answer]
      /\ DOMAIN cl = Clients /\ cl[c] \in Control
  BY DEF Typed, TypeOK, CommandsOK
<1>1. PICK file, next :
         /\ <<cl[c].pc, file, next>> \in {<<"read_queue", "queue", "read_running">>,
                                          <<"read_running", "running", "read_completed">>,
                                          <<"read_completed", "completed", "read_failed">>,
                                          <<"read_failed", "failed", "reply">>}
         /\ Read(c, file, next)
  BY DEF Lookup, ReadQueue, ReadRunning, ReadCompleted, ReadFailed
<1>2. /\ UNCHANGED <<view, seen, oldHost>>
      /\ cl' = [cl EXCEPT ![c].pc = next]
      /\ ans' = [ans EXCEPT ![c] =
                  [i \in Jobs |->
                      IF i \in cl[c].sent /\ @[i].status = "none" /\ Found(i, file)
                      THEN Account(i, file) ELSE @[i]]]
  BY <1>1 DEF Read, hostVars
<1>3. cl'[c].pc = next /\ cl'[c].sent = cl[c].sent
  BY <1>0, <1>2 DEF Control
<1>4. /\ cl[c].pc \in Reading
      /\ next \in Reading \/ next = "reply"
      /\ next = "reply" => next \notin Reading
  BY <1>1 DEF Reading
<1>5. ans'[c][j] = IF j \in cl[c].sent /\ ans[c][j].status = "none" /\ Found(j, file)
                   THEN Account(j, file) ELSE ans[c][j]
  BY <1>0, <1>2
<1>6. CASE j \notin cl[c].sent
  BY <1>2, <1>3, <1>5, <1>6 DEF SightOK, Sought
<1>7. CASE j \in cl[c].sent
  <2> DEFINE s == ans'[c][j].status
  <2>1. s = IF ans[c][j].status = "none" /\ Found(j, file)
            THEN Account(j, file).status ELSE ans[c][j].status
    BY <1>5, <1>7
  <2>2. Glimpse(view[j], ans[c][j].status, cl[c].pc, seen[c][j])
    BY <1>4, <1>7 DEF SightOK, Sought
  <2>3. /\ Glimpse(view[j], s, next, seen[c][j])
        /\ next = "reply" => Claimed(s) \in seen[c][j]
    <3> HIDE DEF s
    <3> QED
      BY <1>1, <2>1, <2>2, GlimpseReads
  <2> QED
    BY <1>2, <1>3, <1>4, <1>7, <2>3 DEF SightOK, Sought
<1> QED
  BY <1>6, <1>7

LEMMA SightAsk ==
    ASSUME Assumptions, Typed, NEW c \in Clients, Ask(c), NEW j \in Jobs, SightOK(c, j)
    PROVE  SightOK(c, j)'
<1>0. /\ DOMAIN ans = Clients /\ ans[c] \in [Jobs -> Answer]
      /\ DOMAIN seen = Clients /\ seen[c] \in [Jobs -> SUBSET Sightings]
      /\ DOMAIN cl = Clients /\ cl[c] \in Control
  BY DEF Typed, TypeOK, CommandsOK, GhostsOK
<1>1. PICK S \in SUBSET cl[c].asks :
         /\ cl' = [cl EXCEPT ![c].pc = "read_queue", ![c].sent = S, ![c].rounds = @ + 1]
         /\ ans' = [ans EXCEPT ![c] =
                      [i \in Jobs |-> IF i \in S THEN Says("none", NoWorker, 0, 0) ELSE @[i]]]
         /\ seen' = [seen EXCEPT ![c] =
                       [i \in Jobs |-> IF i \in S THEN {Sighting(view[i])} ELSE @[i]]]
  BY DEF Ask
<1>2. UNCHANGED <<view, oldHost>> /\ cl[c].pc \notin Reading
  BY DEF Ask, hostVars, Reading
<1>3. cl'[c].pc = "read_queue" /\ cl'[c].sent = S
  <2> DEFINE r == [cl[c] EXCEPT !.pc = "read_queue", !.sent = S, !.rounds = @ + 1]
  <2>1. cl'[c] = r
    BY <1>0, <1>1
  <2>2. r.pc = "read_queue" /\ r.sent = S
    BY <1>0 DEF Control
  <2> HIDE DEF r
  <2> QED
    BY <2>1, <2>2
<1>4. CASE j \in S
  <2>1. ans'[c][j].status = "none" /\ seen'[c][j] = {Sighting(view[j])}
    BY <1>0, <1>1, <1>4 DEF Says
  <2>2. Glimpse(view[j], "none", "read_queue", {Sighting(view[j])})
    BY DEF Glimpse
  <2> QED
    BY <1>2, <1>3, <1>4, <2>1, <2>2 DEF SightOK, Sought, Reading
<1>5. CASE j \notin S
  <2>1. ans'[c][j] = ans[c][j] /\ seen'[c][j] = seen[c][j]
    BY <1>0, <1>1, <1>5
  <2> QED
    BY <1>2, <1>3, <1>5, <2>1 DEF SightOK, Sought
<1> QED
  BY <1>4, <1>5

\* A refused question to an old host leaves "none" for an answer.
LEMMA SightRefused ==
    ASSUME Assumptions, Typed, NEW c \in Clients, LookupRefused(c), NEW j \in Jobs,
           SightOK(c, j)
    PROVE  SightOK(c, j)'
<1>0. DOMAIN ans = Clients /\ ans[c] \in [Jobs -> Answer]
  BY DEF Typed, TypeOK, CommandsOK
<1>1. /\ UNCHANGED <<view, seen, oldHost>> /\ oldHost /\ Goto(c, "reply")
      /\ ans' = [ans EXCEPT ![c] =
                   [i \in Jobs |-> IF i \in cl[c].sent
                                   THEN Says("none", NoWorker, 0, 0) ELSE @[i]]]
  BY DEF LookupRefused, world, hostVars
<1>2. cl'[c].pc = "reply"
  BY <1>1, ShapesOK, GotoFrame
<1>3. CASE j \in cl[c].sent
  <2>1. ans'[c][j].status = "none"
    BY <1>0, <1>1, <1>3 DEF Says
  <2> QED
    BY <1>1, <1>2, <2>1 DEF SightOK, Sought, Reading
<1>4. CASE j \notin cl[c].sent
  <2>1. ans'[c][j] = ans[c][j]
    BY <1>0, <1>1, <1>4
  <2> QED
    BY <1>1, <1>2, <1>4, <2>1 DEF SightOK, Sought, Reading
<1> QED
  BY <1>3, <1>4

SightInv == \A c \in Clients, j \in Jobs : SightOK(c, j)

LEMMA SightKept ==
    ASSUME Assumptions, Typed, SightInv, [Next]_vars
    PROVE  SightInv'
<1>0. \A j \in Jobs : Flows(view[j], view'[j])
  BY AlwaysOnward DEF Onward
<1>1. ASSUME NEW c \in Clients, Starts(c) \/ Goes(c) \/ Breaks(c) PROVE SightInv'
  <2>1. ASSUME NEW d \in Clients \ {c}, NEW j \in Jobs PROVE SightOK(d, j)'
    <3>1. cl'[d] = cl[d] /\ ans'[d] = ans[d] /\ oldHost' = oldHost
      BY <1>1, StepFrame, PastFrame DEF Frame
    <3>2. Looks(d) /\ SightOK(d, j)
      BY <1>1, Glances DEF SightInv
    <3> QED
      BY <1>0, <3>1, <3>2, SightStays
  <2>2. ASSUME NEW j \in Jobs PROVE SightOK(c, j)'
    <3>0. SightOK(c, j)
      BY DEF SightInv
    <3>1. CASE Ask(c) \/ Lookup(c) \/ LookupRefused(c)
      BY <3>0, <3>1, SightAsk, SightLookup, SightRefused
    <3>2. CASE Quiet(c)
      <4>1. ans'[c] = Silence /\ cl'[c] = Idle
        BY <3>2, ShapesOK, QuietFrame
      <4>2. Silence[j].status = "unasked" /\ Idle.pc = "idle"
        BY IdleOK DEF Silence, Unasked
      <4> QED
        BY <4>1, <4>2 DEF SightOK, Sought, Reading
    <3>3. CASE /\ cl[c].pc \notin Reading /\ cl'[c].pc \notin Reading
               /\ ans'[c] = ans[c] /\ seen'[c] = seen[c]
      <4>1. oldHost' = oldHost
        BY <1>1, PastFrame
      <4> QED
        BY <3>0, <3>3, <4>1 DEF SightOK, Sought
    <3> QED
      BY <1>1, <3>1, <3>2, <3>3, Glances
  <2> QED
    BY <2>1, <2>2 DEF SightInv
<1>2. CASE Watches
  <2>1. /\ \A d \in Clients \ {Watcher} : cl'[d] = cl[d]
        /\ cl'[Watcher].pc = "post" /\ cl'[Watcher].sent = {} /\ Watcher \in Clients
    BY <1>2, WatchesFrame
  <2>2. UNCHANGED <<ans, seen, oldHost, view>> /\ cl[Watcher].pc = "idle"
    BY <1>2, WatchesStep DEF hostVars, Watches
  <2>3. ASSUME NEW j \in Jobs PROVE SightOK(Watcher, j)'
    BY <2>1, <2>2 DEF SightInv, SightOK, Sought, Reading
  <2>4. ASSUME NEW d \in Clients \ {Watcher}, NEW j \in Jobs PROVE SightOK(d, j)'
    <3>1. Looks(d) /\ SightOK(d, j)
      BY <2>2 DEF Looks, SightInv
    <3> QED
      BY <1>0, <2>1, <2>2, <3>1, SightStays
  <2> QED
    BY <2>3, <2>4 DEF SightInv
<1>3. CASE HostStep \/ (\E r \in late : ServeLate(r)) \/ UNCHANGED vars
  <2>1. UNCHANGED <<cl, ans, oldHost>>
    BY <1>3, OtherSteps
  <2>2. ASSUME NEW d \in Clients, NEW j \in Jobs PROVE SightOK(d, j)'
    <3>1. Looks(d) /\ SightOK(d, j)
      BY <1>3, OtherGlances DEF SightInv
    <3> QED
      BY <1>0, <2>1, <3>1, SightStays
  <2> QED
    BY <2>2 DEF SightInv
<1> QED
  BY <1>1, <1>2, <1>3, WhoseStep

\* The four files are read one after the other without the lock, and still
\* every answer was true at some moment of the lookup, for any number of jobs
\* and clients and whatever the host does meanwhile.
THEOREM AnswersStayTrue == Spec => []AnswersWereTrue
<1>a. Assumptions
  BY LedgerAssumption, ClientAssumption, WatcherAssumption DEF Assumptions
<1>1. Init => SightInv
  <2>1. \A j \in Jobs : Silence[j].status = "unasked"
    BY DEF Silence, Unasked
  <2> QED
    BY <1>a, <2>1, IdleOK DEF Init, SightInv, SightOK, Sought, Reading
<1>2. SightInv /\ Typed /\ LockInv /\ [Next]_vars => SightInv'
  BY <1>a, SightKept
<1>3. SightInv /\ TruthInv => AnswersWereTrue
  <2>1. SUFFICES ASSUME SightInv, TruthInv, NEW c \in Clients, NEW j \in Jobs, Answered(c, j)
                 PROVE  /\ \/ Claimed(ans[c][j].status) \in seen[c][j]
                           \/ oldHost /\ ans[c][j].status = "none"
                        /\ Backed(ans[c][j].status, j)
    BY DEF AnswersWereTrue
  <2>2. Backed(ans[c][j].status, j)
    BY <2>1 DEF TruthInv, Carried
  <2>3. ~Sought(c, j) /\ ans[c][j].status # "unasked"
    BY <2>1 DEF Answered, Sought
  <2>4. SightOK(c, j)
    BY <2>1 DEF SightInv
  <2> QED
    BY <2>2, <2>3, <2>4 DEF SightOK
<1> QED
  BY <1>a, <1>1, <1>2, <1>3, AlwaysTrue, PTL DEF Spec

-----------------------------------------------------------------------------
(* The cached log of a job that completed.                                 *)

Ended(j) == view[j].done = "completed"

\* What a step may do to the launches of j: nothing but delete logs; the latest
\* one ends; there is a new one; or the latest one is known to have failed.
Kept(j) ==
    /\ runs'[j] = runs[j] /\ lastFail'[j] = lastFail[j]
    /\ \A w \in Workers : logs'[<<w, j>>] \in {logs[<<w, j>>], 0}

Turns(j) ==
    \/ Kept(j) /\ view'[j].done = view[j].done /\ (Ended(j) => ~view'[j].due)
    \/ /\ Kept(j) /\ logs' = logs /\ Begun(j)
       /\ view[j].done = "none" /\ ~view'[j].due
    \/ /\ view[j].done = "none" /\ view'[j].done = "none"
       /\ runs'[j].n = runs[j].n + 1 /\ runs'[j].host \in Workers
       /\ lastFail'[j] = lastFail[j]
       /\ \A w \in Workers : logs'[<<w, j>>] \in {logs[<<w, j>>], runs[j].n + 1}
    \/ /\ ~Ended(j) /\ view'[j].done = view[j].done
       /\ runs'[j] = runs[j] /\ lastFail'[j] = runs[j] /\ logs' = logs

\* Nothing is known of a launch that has not happened; the launch of a job that
\* completed did not fail, and its output is in the log if that still exists.
PastInv ==
    \A j \in Jobs :
        /\ lastFail[j].n <= runs[j].n
        /\ runs[j].n > 0 => runs[j].host \in Workers
        /\ \A w \in Workers : logs[<<w, j>>] <= runs[j].n
        /\ Ended(j) => /\ runs[j].n > lastFail[j].n /\ ~view[j].due
                       /\ logs[<<runs[j].host, j>>] \in {0, runs[j].n}

\* No process touches a launch.
LEMMA LaunchesLeft ==
    ASSUME NEW c \in Clients, Starts(c) \/ Goes(c) \/ Breaks(c)
    PROVE  UNCHANGED <<runs, lastFail, logs>>
<1> USE DEF world, hostVars, copyRest
<1>1. CASE Starts(c)
  BY <1>1 DEF Starts, StartSubmit, StartJobs, StartInfo, StartForget, StartFetch, StartQdel
<1>2. CASE Post(c) \/ ServeEnqueue(c) \/ EnqueuedAnswer(c) \/ ServeQdel(c) \/ QdelNotFound(c)
           \/ QdelAnswer(c)
  BY <1>2 DEF Post, ServeEnqueue, EnqueuedAnswer, ServeQdel, QdelNotFound, QdelAnswer, Exit
<1>3. CASE Ask(c) \/ Lookup(c) \/ LookedUp(c) \/ LookupRefused(c)
  BY <1>3 DEF Ask, Lookup, ReadQueue, ReadRunning, ReadCompleted, ReadFailed, Read, LookedUp,
     LookupEnds, LookupRefused
<1>4. CASE \/ CopyStarts(c) \/ CopyEnds(c) \/ CopyFails(c) \/ Tidy(c) \/ Lock(c) \/ Write(c)
           \/ WriteFails(c) \/ Refused(c) \/ GiveUp(c) \/ Die(c)
  BY <1>4 DEF CopyStarts, CopyEnds, CopyFails, Tidy, Lock, Write, WriteFails, Refused, GiveUp,
     Die
<1> QED
  BY <1>1, <1>2, <1>3, <1>4 DEF Goes, Breaks

\* A job that moves in the host's view keeps its attempts and outcomes.
LEMMA MovedView ==
    ASSUME NEW v \in H!View, NEW w,
           \/ w = v
           \/ w = [v EXCEPT !.at = "queue"]
           \/ w = [v EXCEPT !.at = "gone"]
    PROVE  w.done = v.done /\ w.due = v.due
BY DEF H!View

\* Of the host's view it changes where jobs are.
LEMMA OnlyMoved ==
    ASSUME Assumptions, Typed, NEW c \in Clients, Starts(c) \/ Goes(c) \/ Breaks(c)
    PROVE  \A j \in Jobs : view'[j].done = view[j].done /\ view'[j].due = view[j].due
<1>0. view \in [Jobs -> H!View] /\ Shapes
  BY ShapesOK DEF Typed, TypeOK, HostOK
<1>1. ASSUME NEW S, Enqueued(S) \/ TakenOff(S)
      PROVE  \A j \in Jobs : view'[j].done = view[j].done /\ view'[j].due = view[j].due
  <2>2. \A j \in Jobs : \/ view'[j] = view[j]
                         \/ view'[j] = [view[j] EXCEPT !.at = "queue"]
                         \/ view'[j] = [view[j] EXCEPT !.at = "gone"]
    BY <1>1 DEF Enqueued, TakenOff
  <2> QED
    <3> SUFFICES ASSUME NEW j \in Jobs
                 PROVE  view'[j].done = view[j].done /\ view'[j].due = view[j].due
      OBVIOUS
    <3>1. view[j] \in H!View
      BY <1>0
    <3> QED
      BY <2>2, <3>1, MovedView
<1>2. CASE ServeEnqueue(c) \/ ServeQdel(c)
  BY <1>1, <1>2 DEF ServeEnqueue, ServeQdel
<1>3. CASE \/ Starts(c)
           \/ CopyStarts(c) \/ CopyEnds(c) \/ CopyFails(c) \/ Tidy(c)
           \/ Lock(c) \/ Write(c) \/ WriteFails(c)
           \/ Refused(c) \/ GiveUp(c) \/ Die(c)
  BY <1>0, <1>3, StartsFrame, LocalFrame
<1>4. CASE \/ Post(c) \/ EnqueuedAnswer(c) \/ Ask(c) \/ Lookup(c) \/ LookedUp(c)
           \/ LookupRefused(c) \/ QdelNotFound(c) \/ QdelAnswer(c)
  <2>1. UNCHANGED view
    BY <1>4 DEF Post, EnqueuedAnswer, Ask, Lookup, ReadQueue, ReadRunning, ReadCompleted,
       ReadFailed, Read, LookedUp, LookupEnds, LookupRefused, QdelNotFound, QdelAnswer, Exit,
       world, hostVars
  <2> QED
    BY <2>1
<1> QED
  BY <1>2, <1>3, <1>4 DEF Goes, Breaks

LEMMA HostTurns ==
    ASSUME Assumptions, Typed, PastInv, HostStep
    PROVE  \A j \in Jobs : Turns(j)
<1>0. /\ view \in [Jobs -> H!View] /\ runs \in [Jobs -> Run] /\ lastFail \in [Jobs -> Run]
      /\ logs \in [Workers \X Jobs -> Nat] /\ \A j \in Jobs : Sane(view[j])
      /\ \A j \in Jobs : Ended(j) => ~view[j].due
  BY DEF Typed, TypeOK, HostOK, HostInv, PastInv
<1>s. ASSUME NEW j \in Jobs, view'[j] = view[j], Kept(j) PROVE Turns(j)
  BY <1>0, <1>s DEF Turns
\* One job moves.
<1>m. ASSUME NEW i \in Jobs, NEW v, Moved(i, v)
      PROVE  view'[i] = v /\ \A j \in Jobs \ {i} : view'[j] = view[j]
  BY <1>0, <1>m DEF Moved
<1>k. ASSUME NEW i \in Jobs, NEW v, Moved(i, v), UNCHANGED <<runs, lastFail, logs>>,
             v.done = view[i].done, Ended(i) => ~v.due
      PROVE  \A j \in Jobs : Turns(j)
  <2>1. \A j \in Jobs : Kept(j)
    BY <1>k DEF Kept
  <2> QED
    BY <1>k, <1>m, <1>s, <2>1 DEF Turns
<1>1. ASSUME NEW i \in Jobs, NEW w \in Workers, Launch(i, w) PROVE \A j \in Jobs : Turns(j)
  <2>1. PICK v \in H!Taken(view[i]) : Moved(i, v)
    BY <1>1 DEF Launch
  <2>2. v.done = view[i].done /\ view[i].at = "queue"
    BY <1>0, <2>1 DEF H!Taken, H!To, H!From, H!View
  <2>3. view[i].done = "none"
    BY <1>0, <2>2 DEF Sane
  <2>4. /\ runs' = [runs EXCEPT ![i] = [n |-> runs[i].n + 1, host |-> w]]
        /\ lastFail' = lastFail
        /\ logs' = logs \/ logs' = [logs EXCEPT ![<<w, i>>] = runs[i].n + 1]
    BY <1>0, <1>1 DEF Launch
  <2>5. runs'[i].n = runs[i].n + 1 /\ runs'[i].host = w
    BY <1>0, <2>4
  <2>6. \A x \in Workers : logs'[<<x, i>>] \in {logs[<<x, i>>], runs[i].n + 1}
    BY <1>0, <2>4
  <2>7. Turns(i)
    BY <1>m, <2>1, <2>2, <2>3, <2>4, <2>5, <2>6 DEF Turns
  <2>8. ASSUME NEW j \in Jobs \ {i} PROVE Turns(j)
    <3>1. runs'[j] = runs[j] /\ \A x \in Workers : logs'[<<x, j>>] = logs[<<x, j>>]
      BY <1>0, <2>4
    <3> QED
      BY <1>m, <1>s, <2>1, <2>4, <3>1 DEF Kept
  <2> QED
    BY <2>7, <2>8
<1>2. ASSUME NEW i \in Jobs, NEW w \in Workers, Recycle(w, i) PROVE \A j \in Jobs : Turns(j)
  BY <1>0, <1>2, <1>s DEF Recycle, Kept
<1>3. ASSUME NEW i \in Jobs, Progress(i) PROVE \A j \in Jobs : Turns(j)
  <2>0. UNCHANGED <<runs, lastFail, logs>>
    BY <1>3 DEF Progress
  <2>1. CASE \E v \in H!Tracked(view[i]) \cup H!Untracked(view[i]) : Moved(i, v)
    <3>1. PICK v \in H!Tracked(view[i]) \cup H!Untracked(view[i]) : Moved(i, v)
      BY <2>1
    <3>2. v.done = view[i].done /\ v.due = view[i].due
      BY <1>0, <3>1 DEF H!Tracked, H!Untracked, H!To, H!From, H!View
    <3> QED
      BY <1>0, <1>k, <2>0, <3>1, <3>2
  <2>2. CASE Begun(i) /\ \E v \in H!Succeeded(view[i]) : Moved(i, v)
    <3>1. PICK v \in H!Succeeded(view[i]) : Moved(i, v)
      BY <2>2
    <3>2. v.due = view[i].due /\ view[i].at = "hand"
      BY <1>0, <3>1 DEF H!Succeeded, H!To, H!From, H!View
    <3>3. view[i].done = "none" /\ ~v.due
      BY <1>0, <2>2, <3>2 DEF Sane, Begun
    <3>4. \A j \in Jobs : Kept(j)
      BY <2>0 DEF Kept
    <3> QED
      BY <1>m, <1>s, <2>0, <2>2, <3>1, <3>3, <3>4 DEF Turns
  <2> QED
    BY <1>3, <2>1, <2>2 DEF Progress
<1>4. ASSUME NEW i \in Jobs, Fail(i) PROVE \A j \in Jobs : Turns(j)
  <2>1. PICK v \in H!Failed(view[i]) \cup H!StartFailed(view[i]) : Moved(i, v)
    BY <1>4 DEF Fail
  <2>2. v.done = view[i].done /\ ~Ended(i)
    <3>1. CASE v \in H!Failed(view[i])
      <4>1. PICK u \in H!To(H!From(view[i], "hand"), "over") : v = [u EXCEPT !.fail = TRUE]
        BY <3>1 DEF H!Failed
      <4>2. view[i].at = "hand" /\ u = [view[i] EXCEPT !.at = "over"]
        BY <4>1 DEF H!To, H!From
      <4>3. v.done = view[i].done
        BY <1>0, <4>1, <4>2 DEF H!View
      <4> QED
        BY <1>0, <4>2, <4>3 DEF Ended, Sane
    <3>2. CASE v \in H!StartFailed(view[i])
      <4>1. PICK u \in {x \in {view[i]} : x.due} : v = [u EXCEPT !.fail = TRUE, !.due = FALSE]
        BY <3>2 DEF H!StartFailed
      <4>2. view[i].due /\ v = [view[i] EXCEPT !.fail = TRUE, !.due = FALSE]
        BY <4>1, Zenon
      <4>3. v.done = view[i].done
        BY <1>0, <4>2 DEF H!View
      <4> QED
        BY <1>0, <4>2, <4>3
    <3> QED
      BY <2>1, <3>1, <3>2
  <2>3. runs' = runs /\ logs' = logs /\ lastFail' = [lastFail EXCEPT ![i] = runs[i]]
    BY <1>4 DEF Fail
  <2>4. Turns(i)
    BY <1>0, <1>m, <2>1, <2>2, <2>3 DEF Turns
  <2>5. \A j \in Jobs \ {i} : Kept(j)
    BY <1>0, <2>3 DEF Kept
  <2> QED
    BY <1>m, <1>s, <2>1, <2>4, <2>5
<1>5. ASSUME NEW i \in Jobs, GoBack(i) \/ Operate(i) \/ HostLoses(i)
      PROVE  \A j \in Jobs : Turns(j)
  <2>0. UNCHANGED <<runs, lastFail, logs>>
    BY <1>5 DEF GoBack, Operate, HostLoses
  <2>1. PICK v \in H!PutBack(view[i]) \cup H!Parked(view[i]) \cup H!Unparked(view[i])
                   \cup H!Dropped(view[i]) \cup H!Deleted(view[i]) \cup H!Lost(view[i])
                   \cup H!Evicted(view[i]) :
           Moved(i, v)
    BY <1>5 DEF GoBack, Operate, HostLoses
  <2>2. v.done = view[i].done /\ (Ended(i) => ~v.due)
    <3> USE DEF H!To, H!From, H!View
    <3>1. CASE v \in H!PutBack(view[i]) \cup H!Unparked(view[i]) \cup H!Dropped(view[i])
                     \cup H!Deleted(view[i])
      BY <1>0, <3>1 DEF H!PutBack, H!Unparked, H!Dropped, H!Deleted
    <3>2. CASE v \in H!Parked(view[i])
      <4>1. PICK u \in H!To(H!From(view[i], "hand"), "deferred") : v = [u EXCEPT !.due = TRUE]
        BY <3>2 DEF H!Parked
      <4>2. view[i].at = "hand" /\ u = [view[i] EXCEPT !.at = "deferred"]
        BY <4>1
      <4>3. v.done = view[i].done
        BY <1>0, <4>1, <4>2
      <4> QED
        BY <1>0, <4>2, <4>3 DEF Ended, Sane
    <3>3. CASE v \in H!Evicted(view[i])
      <4>1. v = [view[i] EXCEPT !.fail = FALSE]
        BY <3>3 DEF H!Evicted
      <4> QED
        BY <1>0, <4>1
    <3>4. CASE v \in H!Lost(view[i])
      <4>1. v = [view[i] EXCEPT !.due = FALSE] \/ v \in H!To(H!From(view[i], "hand"), "gone")
        BY <3>4 DEF H!Lost
      <4> QED
        BY <1>0, <4>1
    <3> QED
      BY <2>1, <3>1, <3>2, <3>3, <3>4
  <2> QED
    BY <1>k, <2>0, <2>1, <2>2
<1> QED
  BY <1>1, <1>2, <1>3, <1>4, <1>5 DEF HostStep

LEMMA AlwaysTurns ==
    ASSUME Assumptions, Typed, PastInv, [Next]_vars
    PROVE  \A j \in Jobs : Turns(j)
<1>0. view \in [Jobs -> H!View] /\ \A j \in Jobs : Ended(j) => ~view[j].due
  BY DEF Typed, TypeOK, HostOK, PastInv
<1>k. ASSUME UNCHANGED <<runs, lastFail, logs>>,
             \A j \in Jobs : view'[j].done = view[j].done /\ view'[j].due = view[j].due
      PROVE  \A j \in Jobs : Turns(j)
  BY <1>0, <1>k DEF Turns, Kept
<1>1. ASSUME NEW c \in Clients, Starts(c) \/ Goes(c) \/ Breaks(c) PROVE \A j \in Jobs : Turns(j)
  BY <1>1, <1>k, LaunchesLeft, OnlyMoved
<1>2. CASE Watches
  BY <1>2, <1>k, WatchesStep DEF hostVars
<1>3. ASSUME NEW r \in late, ServeLate(r) PROVE \A j \in Jobs : Turns(j)
  <2>3. \A j \in Jobs : \/ view'[j] = view[j]
                         \/ view'[j] = [view[j] EXCEPT !.at = "queue"]
                         \/ view'[j] = [view[j] EXCEPT !.at = "gone"]
    BY <1>3 DEF ServeLate, Enqueued, TakenOff
  <2>2. \A j \in Jobs : view'[j].done = view[j].done /\ view'[j].due = view[j].due
    <3> SUFFICES ASSUME NEW j \in Jobs
                 PROVE  view'[j].done = view[j].done /\ view'[j].due = view[j].due
      OBVIOUS
    <3>1. view[j] \in H!View
      BY <1>0
    <3> QED
      BY <2>3, <3>1, MovedView
  <2> QED
    BY <1>3, <1>k, <2>2 DEF ServeLate
<1>4. CASE UNCHANGED vars
  BY <1>4, <1>k DEF vars, hostVars
<1> QED
  BY <1>1, <1>2, <1>3, <1>4, HostTurns, WhoseStep

LEMMA PastKept ==
    ASSUME Typed, PastInv, HostOK', \A j \in Jobs : Turns(j)
    PROVE  PastInv'
<1> SUFFICES ASSUME NEW j \in Jobs
             PROVE  /\ lastFail'[j].n <= runs'[j].n
                    /\ runs'[j].n > 0 => runs'[j].host \in Workers
                    /\ \A w \in Workers : logs'[<<w, j>>] <= runs'[j].n
                    /\ Ended(j)' => /\ runs'[j].n > lastFail'[j].n /\ ~view'[j].due
                                    /\ logs'[<<runs'[j].host, j>>] \in {0, runs'[j].n}
  BY DEF PastInv
<1>0. /\ runs[j].n \in Nat /\ lastFail[j].n \in Nat /\ \A w \in Workers : logs[<<w, j>>] \in Nat
      /\ runs'[j].n \in Nat /\ lastFail'[j].n \in Nat
      /\ \A w \in Workers : logs'[<<w, j>>] \in Nat
      /\ lastFail[j].n <= runs[j].n
      /\ runs[j].n > 0 => runs[j].host \in Workers
      /\ \A w \in Workers : logs[<<w, j>>] <= runs[j].n
      /\ Ended(j) => /\ runs[j].n > lastFail[j].n /\ ~view[j].due
                     /\ logs[<<runs[j].host, j>>] \in {0, runs[j].n}
  BY DEF Typed, TypeOK, HostOK, Run, PastInv
<1>1. CASE Kept(j) /\ view'[j].done = view[j].done /\ (Ended(j) => ~view'[j].due)
  BY <1>0, <1>1 DEF Kept, Ended
<1>2. CASE /\ Kept(j) /\ logs' = logs /\ Begun(j)
           /\ view[j].done = "none" /\ ~view'[j].due
  BY <1>0, <1>2 DEF Kept, Begun, Ended
<1>3. CASE /\ view[j].done = "none" /\ view'[j].done = "none"
           /\ runs'[j].n = runs[j].n + 1 /\ runs'[j].host \in Workers
           /\ lastFail'[j] = lastFail[j]
           /\ \A w \in Workers : logs'[<<w, j>>] \in {logs[<<w, j>>], runs[j].n + 1}
  BY <1>0, <1>3 DEF Ended
<1>4. CASE /\ ~Ended(j) /\ view'[j].done = view[j].done
           /\ runs'[j] = runs[j] /\ lastFail'[j] = runs[j] /\ logs' = logs
  BY <1>0, <1>4 DEF Ended
<1> QED
  BY <1>1, <1>2, <1>3, <1>4 DEF Turns

LEMMA AlwaysPast ==
    ASSUME Assumptions
    PROVE  Spec => [](Typed /\ LockInv /\ TruthInv /\ PastInv)
<1>1. Init => PastInv
  BY DEF Init, PastInv, Ended, NoRun, H!Init, H!Unseen
<1>2. Typed /\ Typed' /\ PastInv /\ [Next]_vars => PastInv'
  BY AlwaysTurns, PastKept DEF Typed, TypeOK
<1> QED
  BY <1>1, <1>2, AlwaysTrue, PTL DEF Spec

\* A time that an answer or a record may hold: none, or of a launch of j that
\* is over, for the latest one only once a file of the host says so.
Dated(t, j) ==
    \/ t = 0
    \/ t < 2 * runs[j].n
    \/ t = 2 * runs[j].n /\ (view[j].done # "none" \/ lastFail[j].n = runs[j].n)

Timely(e, j) == Dated(e.started, j) /\ Dated(e.finished, j)

\* What says that j completed says which launch did.
Latest(e, j) ==
    e.status = "completed" =>
        Ended(j) /\ e.host = runs[j].host /\ e.finished = 2 * runs[j].n

Dates(e, j) == Timely(e, j) /\ Latest(e, j)

TimesInv ==
    /\ \A j \in Jobs : Dates(ledger[j], j) /\ Dated(ledger[j].logFor.time, j)
    /\ \A c \in Clients, j \in Jobs : Dates(ans[c][j], j) /\ Timely(cl[c].snap[j], j)

LEMMA DatedKept ==
    ASSUME Typed, PastInv, NEW j \in Jobs, Turns(j), NEW t \in Int, Dated(t, j)
    PROVE  Dated(t, j)'
<1>0. /\ runs[j].n \in Nat /\ lastFail[j].n \in Nat /\ lastFail[j].n <= runs[j].n
  BY DEF Typed, TypeOK, HostOK, Run, PastInv
<1> QED
  BY <1>0 DEF Turns, Kept, Dated, Ended

LEMMA DatesKept ==
    ASSUME Typed, PastInv, NEW j \in Jobs, Turns(j), NEW e,
           e.started \in Int, e.finished \in Int
    PROVE  /\ Timely(e, j) => Timely(e, j)'
           /\ Latest(e, j) => Latest(e, j)'
<1>1. Timely(e, j) => Timely(e, j)'
  BY DatedKept DEF Timely
<1>2. Latest(e, j) => Latest(e, j)'
  BY DEF Latest, Turns, Kept, Ended
<1> QED
  BY <1>1, <1>2

\* What the steps of a process do to the answers it holds.
LEMMA AnswerSteps ==
    ASSUME Assumptions, Typed, NEW c \in Clients, Starts(c) \/ Goes(c) \/ Breaks(c),
           NEW j \in Jobs
    PROVE  \/ ans'[c][j] = ans[c][j]
           \/ /\ ans'[c][j].status \in {"none", "unasked"}
              /\ ans'[c][j].started = 0 /\ ans'[c][j].finished = 0
           \/ \E file \in {"queue", "running", "completed", "failed"} :
                 /\ Found(j, file) /\ ans'[c][j] = Account(j, file)
                 /\ UNCHANGED hostVars
<1> DEFINE Nothing == /\ ans'[c][j].status \in {"none", "unasked"}
                      /\ ans'[c][j].started = 0 /\ ans'[c][j].finished = 0
<1>0. /\ DOMAIN ans = Clients /\ ans[c] \in [Jobs -> Answer]
  BY DEF Typed, TypeOK, CommandsOK
<1>n. /\ Says("none", NoWorker, 0, 0).status = "none"
      /\ Says("none", NoWorker, 0, 0).started = 0 /\ Says("none", NoWorker, 0, 0).finished = 0
  BY DEF Says
<1>2. Quiet(c) => Nothing
  BY <1>0 DEF Quiet, Silence, Unasked
<1>4. CASE Starts(c)
  BY <1>4, ShapesOK, StartsFrame
<1>5. CASE Ask(c)
  <2>1. PICK S \in SUBSET cl[c].asks :
           ans' = [ans EXCEPT ![c] =
                     [i \in Jobs |-> IF i \in S THEN Says("none", NoWorker, 0, 0) ELSE @[i]]]
    BY <1>5 DEF Ask
  <2> QED
    BY <1>0, <1>n, <2>1
<1>6. CASE LookupRefused(c)
  <2>1. ans' = [ans EXCEPT ![c] =
                  [i \in Jobs |-> IF i \in cl[c].sent
                                  THEN Says("none", NoWorker, 0, 0) ELSE @[i]]]
    BY <1>6 DEF LookupRefused
  <2> QED
    BY <1>0, <1>n, <2>1
<1>7. CASE Lookup(c)
  <2>1. PICK file \in {"queue", "running", "completed", "failed"} :
           /\ ans' = [ans EXCEPT ![c] =
                  [i \in Jobs |->
                      IF i \in cl[c].sent /\ @[i].status = "none" /\ Found(i, file)
                      THEN Account(i, file) ELSE @[i]]]
           /\ UNCHANGED hostVars
    BY <1>7 DEF Lookup, ReadQueue, ReadRunning, ReadCompleted, ReadFailed, Read
  <2>2. ans'[c][j] = ans[c][j] \/ (Found(j, file) /\ ans'[c][j] = Account(j, file))
    BY <1>0, <2>1
  <2> QED
    BY <2>1, <2>2
<1>8. CASE \/ Post(c) \/ ServeEnqueue(c) \/ EnqueuedAnswer(c)
           \/ ServeQdel(c) \/ QdelAnswer(c) \/ CopyStarts(c) \/ CopyEnds(c) \/ CopyFails(c)
           \/ Lock(c)
  BY <1>8 DEF Post, ServeEnqueue, EnqueuedAnswer, ServeQdel, QdelAnswer, CopyStarts, CopyEnds,
       CopyFails, Lock, copyRest
<1>9. CASE \/ LookedUp(c) \/ QdelNotFound(c) \/ Tidy(c) \/ Write(c) \/ WriteFails(c)
           \/ Refused(c) \/ GiveUp(c) \/ Die(c)
  <2>1. Quiet(c) \/ ans' = ans
    BY <1>9 DEF LookedUp, LookupEnds, QdelNotFound, Exit, Tidy, Write, WriteFails, ToTidy,
       Refused, GiveUp, Die
  <2> QED
    BY <1>2, <2>1
<1> QED
  BY <1>4, <1>5, <1>6, <1>7, <1>8, <1>9 DEF Goes, Breaks

\* What a file says is of a launch that is over, or has begun.
LEMMA AccountDates ==
    ASSUME Typed, PastInv, NEW j \in Jobs,
           NEW file \in {"queue", "running", "completed", "failed"}, Found(j, file)
    PROVE  Dates(Account(j, file), j)
<1>0. /\ runs[j].n \in Nat /\ lastFail[j].n \in Nat /\ lastFail[j].n <= runs[j].n
      /\ view[j] \in H!View
  BY DEF Typed, TypeOK, HostOK, Run, PastInv
<1>1. CASE file = "queue"
  BY <1>1 DEF Account, Says, Dates, Timely, Latest, Dated
<1>2. CASE file = "running"
  BY <1>0, <1>2 DEF Account, Says, Dates, Timely, Latest, Dated
<1>3. CASE file = "completed"
  <2>1. view[j].done # "none"
    BY <1>3 DEF Found
  <2> QED
    BY <1>0, <1>3, <2>1 DEF Account, Says, Dates, Timely, Latest, Dated, Ended
<1>4. CASE file = "failed"
  BY <1>0, <1>4 DEF Account, Says, Dates, Timely, Latest, Dated
<1> QED
  BY <1>1, <1>2, <1>3, <1>4

\* So what a record or an answer keeps stays true.
LEMMA DatesSame ==
    ASSUME Typed, PastInv, NEW j \in Jobs, Turns(j), NEW e,
           e.started \in Int, e.finished \in Int, Dates(e, j)
    PROVE  Dates(e, j)'
BY DatesKept DEF Dates

LEMMA AnswerDates ==
    ASSUME Assumptions, Typed, PastInv, NEW c \in Clients, Starts(c) \/ Goes(c) \/ Breaks(c),
           NEW j \in Jobs, Turns(j), Dates(ans[c][j], j)
    PROVE  Dates(ans[c][j], j)'
<1>0. ans[c][j] \in Answer
  BY DEF Typed, TypeOK, CommandsOK
<1>1. CASE ans'[c][j] = ans[c][j]
  <2>1. PICK e : e = ans[c][j]
    OBVIOUS
  <2>2. e.started \in Int /\ e.finished \in Int /\ Dates(e, j)
    BY <1>0, <2>1 DEF Answer
  <2>3. Dates(e, j)'
    BY <2>2, DatesSame
  <2> QED
    BY <1>1, <2>1, <2>3 DEF Dates, Timely, Latest, Dated
<1>2. CASE /\ ans'[c][j].status \in {"none", "unasked"}
           /\ ans'[c][j].started = 0 /\ ans'[c][j].finished = 0
  BY <1>2 DEF Dates, Timely, Latest, Dated
<1>3. ASSUME NEW file \in {"queue", "running", "completed", "failed"},
             Found(j, file), ans'[c][j] = Account(j, file), UNCHANGED hostVars
      PROVE  Dates(ans[c][j], j)'
  <2>1. PICK e : e = Account(j, file)
    OBVIOUS
  <2>2. Dates(e, j)
    BY <1>3, <2>1, AccountDates
  <2>3. Dates(e, j)'
    BY <1>3, <2>2 DEF Dates, Timely, Latest, Dated, Ended, hostVars
  <2> QED
    BY <1>3, <2>1, <2>3 DEF Dates, Timely, Latest, Dated
<1> QED
  BY <1>1, <1>2, <1>3, AnswerSteps

\* What a write makes of a record.
LEMMA ChangeCases ==
    ASSUME Assumptions, Typed, NEW c \in Clients, NEW j \in Jobs
    PROVE  LET e == box[c][j]
               m == Change(c)[j]
           IN  \/ m = e
               \/ ans[c][j].status # "unasked" /\ m = Merge(e, ans[c][j])
               \/ m = [e EXCEPT !.status = "deleted"]
               \/ /\ m.status \in {"submitted", "untracked"} /\ m.logFor = NoKey
                  /\ m.started = 0 /\ m.finished = 0
               \/ /\ Fetches(c, j)
                  /\ \/ cl[c].got # 0 /\ m = WithLog(e, CacheKey(cl[c].snap[j]))
                     \/ m = WithoutLog(e, CacheKey(cl[c].snap[j]))
<1> DEFINE l == box[c]
           k == cl[c]
<1>0. /\ l \in [Jobs -> Entry] /\ k \in Control /\ ans[c] \in [Jobs -> Answer]
      /\ appended \in Nat /\ k.sent \in SUBSET Jobs /\ k.results \in Seq(Jobs)
      /\ k.ready \in Seq(Jobs) /\ k.snap \in [Jobs -> Entry] /\ k.got \in Nat
  BY DEF Typed, TypeOK, CommandsOK, GhostsOK, Control
<1>1. CASE k.cmd = "submit"
  <2>1. Change(c) = Recorded(l, k.results, k.ready, appended)
    BY <1>1 DEF Change
  <2> HIDE DEF l, k
  <2> DEFINE Hit(i) == \E n \in DOMAIN k.results \cap DOMAIN k.ready : k.results[n] = i
             at(i) == CHOOSE n \in DOMAIN k.results \cap DOMAIN k.ready : k.results[n] = i
             new(i) == [NoEntry(i) EXCEPT !.status = "submitted", !.born = appended + at(i),
                                          !.payload = k.ready[at(i)]]
  <2>2. Recorded(l, k.results, k.ready, appended) = [i \in Jobs |-> IF Hit(i) THEN new(i) ELSE l[i]]
    BY DEF Recorded
  <2>3. /\ new(j).status = "submitted" /\ new(j).logFor = NoKey
        /\ new(j).started = 0 /\ new(j).finished = 0
    BY DEF NoEntry
  <2> HIDE DEF Hit, new
  <2>4. Change(c)[j] \in {new(j), l[j]}
    BY <2>1, <2>2
  <2> QED
    BY <2>3, <2>4 DEF l
<1>2. CASE k.cmd \in {"jobs", "info"}
  BY <1>0, <1>2 DEF Change, Applied
<1>3. CASE k.cmd = "qdel"
  BY <1>0, <1>3 DEF Change, Marked
<1>4. CASE k.cmd = "forget"
  BY <1>0, <1>4 DEF Change, Without, NoEntry
<1>5. CASE k.cmd = "fetch"
  <2>1. PICK x \in Jobs : k.sent = {x}
    BY <1>5 DEF Typed, FetchOK, FetchSound
  <2>2. Change(c) = LogNoted(l, x, k.got # 0, CacheKey(k.snap[x]))
    <3>1. (CHOOSE y \in k.sent : TRUE) = x
      BY <2>1
    <3>2. Change(c) = LET i == CHOOSE y \in k.sent : TRUE
                      IN  LogNoted(l, i, k.got # 0, CacheKey(k.snap[i]))
      BY <1>5 DEF Change
    <3> QED
      BY <3>1, <3>2
  <2>3. CASE j = x
    <3> DEFINE key == CacheKey(k.snap[x])
    <3>1. [l EXCEPT ![x].logFor = key, ![x].missingFor = NoKey][x] = WithLog(l[x], key)
      BY <1>0 DEF WithLog
    <3>2. [l EXCEPT ![x].missingFor = key][x] = WithoutLog(l[x], key)
      BY <1>0 DEF WithoutLog
    <3>3. \/ Change(c) = l
          \/ k.got # 0 /\ Change(c) = [l EXCEPT ![x].logFor = key, ![x].missingFor = NoKey]
          \/ Change(c) = [l EXCEPT ![x].missingFor = key]
      BY <2>2 DEF LogNoted
    <3>4. Fetches(c, j)
      BY <1>5, <2>1, <2>3 DEF Fetches
    <3> HIDE DEF key
    <3>5. \/ Change(c)[j] = l[j]
          \/ k.got # 0 /\ Change(c)[j] = WithLog(l[j], key)
          \/ Change(c)[j] = WithoutLog(l[j], key)
      BY <2>3, <3>1, <3>2, <3>3
    <3> QED
      BY <2>3, <3>4, <3>5 DEF key
  <2>4. CASE j # x
    BY <1>0, <2>2, <2>4 DEF LogNoted
  <2> QED
    BY <2>3, <2>4
<1>6. CASE k.cmd = "none"
  BY <1>6 DEF Change
<1> QED
  BY <1>0, <1>1, <1>2, <1>3, <1>4, <1>5, <1>6 DEF Control, Commands

\* The records a process fetches logs by.
LEMMA SnapSteps ==
    ASSUME Assumptions, Typed, NEW c \in Clients, Starts(c) \/ Goes(c) \/ Breaks(c)
    PROVE  \/ cl'[c].snap \in {cl[c].snap, Empty}
           \/ \E x \in Jobs : /\ StartFetch(c, x)
                              /\ cl'[c].snap = [Empty EXCEPT ![x] = ledger[x]]
<1> DEFINE Good == cl'[c].snap \in {cl[c].snap, Empty}
<1>0. cl[c] \in Control /\ DOMAIN cl = Clients
  BY DEF Typed, TypeOK, CommandsOK
<1>q. Quiet(c) => Good
  BY <1>0, IdleOK DEF Quiet
<1>g. ASSUME NEW pc, Goto(c, pc) PROVE Good
  BY <1>0, <1>g DEF Goto, Control
<1>i. Idle \in Control /\ Idle.snap = Empty
  BY IdleOK
<1>1. CASE Starts(c)
  <2>1. ASSUME NEW x \in Jobs, StartFetch(c, x)
        PROVE  cl'[c].snap = [Empty EXCEPT ![x] = ledger[x]]
    BY <1>0, <1>i, <2>1 DEF StartFetch, Control
  <2>2. ASSUME NEW ids \in Submissions, StartSubmit(c, ids) PROVE Good
    BY <1>0, <1>i, <2>2 DEF StartSubmit, Control
  <2>3. ASSUME NEW x \in Jobs, StartInfo(c, x) \/ StartForget(c, x) PROVE Good
    BY <1>0, <1>i, <2>3 DEF StartInfo, StartForget, Control
  <2>4. ASSUME StartJobs(c) PROVE Good
    BY <1>0, <1>i, <2>4 DEF StartJobs, Control
  <2>5. ASSUME NEW S \in SUBSET Jobs, StartQdel(c, S) PROVE Good
    BY <1>0, <1>i, <2>5 DEF StartQdel, Control
  <2> QED
    BY <1>1, <2>1, <2>2, <2>3, <2>4, <2>5 DEF Starts
<1>2. CASE Post(c) \/ EnqueuedAnswer(c)
  BY <1>0, <1>2 DEF Post, EnqueuedAnswer, Control
<1>3. CASE \/ ServeEnqueue(c) \/ ServeQdel(c) \/ QdelAnswer(c) \/ Lock(c) \/ Lookup(c)
           \/ LookupRefused(c) \/ CopyEnds(c) \/ CopyFails(c)
  <2>1. \E pc : Goto(c, pc)
    BY <1>3 DEF ServeEnqueue, ServeQdel, QdelAnswer, Lock, Lookup, ReadQueue, ReadRunning,
       ReadCompleted, ReadFailed, Read, LookupRefused, CopyEnds, CopyFails, Goto
  <2> QED
    BY <1>g, <2>1
<1>4. CASE Ask(c) \/ LookedUp(c)
  <2>1. \/ Quiet(c)
        \/ \E S : cl' = [cl EXCEPT ![c].pc = "read_queue", ![c].sent = S, ![c].rounds = @ + 1]
        \/ \E S, pc : cl' = [cl EXCEPT ![c].asks = S, ![c].sent = {}, ![c].pc = pc]
    BY <1>4 DEF Ask, LookedUp, LookupEnds
  <2>2. ASSUME NEW S, NEW pc,
               \/ cl' = [cl EXCEPT ![c].pc = "read_queue", ![c].sent = S, ![c].rounds = @ + 1]
               \/ cl' = [cl EXCEPT ![c].asks = S, ![c].sent = {}, ![c].pc = pc]
        PROVE  Good
    BY <1>0, <2>2 DEF Control
  <2> QED
    BY <1>q, <2>1, <2>2
<1>5. CASE CopyStarts(c)
  <2>1. \/ \E pc : Goto(c, pc)
        \/ \E n : cl' = [cl EXCEPT ![c].pc = "copying", ![c].got = n]
    BY <1>5 DEF CopyStarts
  <2>2. ASSUME NEW n, cl' = [cl EXCEPT ![c].pc = "copying", ![c].got = n] PROVE Good
    BY <1>0, <2>2 DEF Control
  <2> QED
    BY <1>g, <2>1, <2>2
<1>6. CASE \/ QdelNotFound(c) \/ Tidy(c) \/ Write(c) \/ WriteFails(c) \/ Refused(c)
           \/ GiveUp(c) \/ Die(c)
  <2>1. Quiet(c) \/ \E pc : Goto(c, pc)
    BY <1>6 DEF QdelNotFound, Exit, Tidy, Write, WriteFails, ToTidy, Refused, GiveUp, Die
  <2> QED
    BY <1>g, <1>q, <2>1
<1> QED
  BY <1>1, <1>2, <1>3, <1>4, <1>5, <1>6 DEF Goes, Breaks

\* The record of a job after a write by c.
LEMMA RecordDates ==
    ASSUME Assumptions, Typed, PastInv, NEW c \in Clients,
           \A i \in Jobs : Turns(i), NEW j \in Jobs,
           Dates(ledger[j], j), Dated(ledger[j].logFor.time, j), Dates(ans[c][j], j),
           Timely(cl[c].snap[j], j), box[c] = ledger,
           ledger'[j] = Change(c)[j] \/ ledger'[j] = NoEntry(j)
    PROVE  Dates(ledger[j], j)' /\ Dated(ledger[j].logFor.time, j)'
<1>0. /\ ledger[j] \in Entry /\ ans[c][j] \in Answer /\ cl[c].snap[j] \in Entry
      /\ runs[j] \in Run
  BY DEF Typed, TypeOK, HostOK, MachineOK, CommandsOK, Control
<1> DEFINE Fine(e) == Dates(e, j) /\ Dated(e.logFor.time, j)
<1>1. PICK m : m = ledger'[j]
  OBVIOUS
<1>2. ASSUME m \in Entry, Fine(m) PROVE Dates(ledger[j], j)' /\ Dated(ledger[j].logFor.time, j)'
  <2>1. m.started \in Int /\ m.finished \in Int /\ m.logFor.time \in Int
    BY <1>2 DEF Entry, Key
  <2>2. Dates(m, j)' /\ Dated(m.logFor.time, j)'
    BY <1>2, <2>1, DatesSame, DatedKept
  <2> QED
    BY <1>1, <2>2 DEF Dates, Timely, Latest, Dated
<1>3. m \in Entry
  BY <1>1, ChangeOK, EntryTypes DEF Assumptions
<1>4. ASSUME m.status \in {"submitted", "untracked"}, m.logFor = NoKey,
             m.started = 0, m.finished = 0
      PROVE  Fine(m)
  BY <1>4 DEF Dates, Timely, Latest, Dated, NoKey
<1>5. CASE m = NoEntry(j)
  BY <1>2, <1>3, <1>4, <1>5 DEF NoEntry
<1>6. CASE m = ledger[j]
  BY <1>2, <1>3, <1>6
<1>7. CASE ans[c][j].status # "unasked" /\ m = Merge(ledger[j], ans[c][j])
  <2>1. m.logFor = ledger[j].logFor
    BY <1>0, <1>7 DEF Merge, MergeHostFields, Entry
  <2>2. CASE ans[c][j].status = "none"
    <3>1. m = [ledger[j] EXCEPT !.status = "missing"]
      BY <1>7, <2>2 DEF Merge
    <3>2. m.status = "missing" /\ m.started = ledger[j].started /\ m.finished = ledger[j].finished
      BY <1>0, <3>1 DEF Entry
    <3> QED
      BY <1>2, <1>3, <2>1, <3>2 DEF Dates, Timely, Latest
  <2>3. CASE ans[c][j].status # "none"
    <3>1. /\ m.status = ans[c][j].status
          /\ m.host = IF ans[c][j].host = NoWorker THEN ledger[j].host ELSE ans[c][j].host
          /\ m.started = IF ans[c][j].started = 0 THEN ledger[j].started ELSE ans[c][j].started
          /\ m.finished = IF ans[c][j].finished = 0 THEN ledger[j].finished
                                                    ELSE ans[c][j].finished
      BY <1>0, <1>7, <2>3 DEF Merge, MergeHostFields, Entry
    <3>2. Timely(m, j)
      BY <3>1 DEF Dates, Timely
    <3>3. Latest(m, j)
      <4>1. SUFFICES ASSUME m.status = "completed"
                     PROVE  Ended(j) /\ m.host = runs[j].host /\ m.finished = 2 * runs[j].n
        BY DEF Latest
      <4>2. Ended(j) /\ ans[c][j].host = runs[j].host /\ ans[c][j].finished = 2 * runs[j].n
        BY <3>1, <4>1 DEF Dates, Latest
      <4>3. runs[j].host # NoWorker /\ runs[j].n \in Nat /\ runs[j].n > 0
        <5>1. runs[j].n \in Nat /\ lastFail[j].n \in Nat
          BY DEF Typed, TypeOK, HostOK, Run
        <5>2. runs[j].n > lastFail[j].n /\ (runs[j].n > 0 => runs[j].host \in Workers)
          BY <4>2 DEF PastInv
        <5> QED
          BY <5>1, <5>2 DEF Assumptions, LedgerAssumption
      <4> QED
        BY <3>1, <4>2, <4>3
    <3> QED
      BY <1>2, <1>3, <2>1, <3>2, <3>3 DEF Dates
  <2> QED
    BY <2>2, <2>3
<1>8. CASE m = [ledger[j] EXCEPT !.status = "deleted"]
  <2>1. /\ m.status = "deleted" /\ m.started = ledger[j].started
        /\ m.finished = ledger[j].finished /\ m.logFor = ledger[j].logFor
    BY <1>0, <1>8 DEF Entry
  <2> QED
    BY <1>2, <1>3, <2>1 DEF Dates, Timely, Latest
<1>9. CASE \/ m = WithLog(ledger[j], CacheKey(cl[c].snap[j]))
           \/ m = WithoutLog(ledger[j], CacheKey(cl[c].snap[j]))
  <2>1. /\ m.status = ledger[j].status /\ m.started = ledger[j].started
        /\ m.finished = ledger[j].finished /\ m.host = ledger[j].host
        /\ m.logFor \in {ledger[j].logFor, CacheKey(cl[c].snap[j])}
    BY <1>0, <1>9 DEF Entry, WithLog, WithoutLog
  <2>2. Dated(CacheKey(cl[c].snap[j]).time, j)
    BY DEF CacheKey, Timely
  <2> QED
    BY <1>2, <1>3, <2>1, <2>2 DEF Dates, Timely, Latest
<1> QED
  BY <1>1, <1>4, <1>5, <1>6, <1>7, <1>8, <1>9, <1>2, <1>3, ChangeCases

LEMMA TimesKept ==
    ASSUME Assumptions, Typed, LockInv, PastInv, TimesInv, [Next]_vars
    PROVE  TimesInv'
<1>0. /\ \A j \in Jobs : Turns(j)
      /\ ledger \in [Jobs -> Entry] /\ cl \in [Clients -> Control]
      /\ ans \in [Clients -> [Jobs -> Answer]]
  BY AlwaysTurns DEF Typed, TypeOK, MachineOK, CommandsOK
\* What keeps its value.
<1>l. ASSUME NEW j \in Jobs, ledger'[j] = ledger[j]
      PROVE  Dates(ledger[j], j)' /\ Dated(ledger[j].logFor.time, j)'
  <2>1. PICK e : e = ledger[j]
    OBVIOUS
  <2>2. /\ e.started \in Int /\ e.finished \in Int /\ e.logFor.time \in Int
        /\ Dates(e, j) /\ Dated(e.logFor.time, j)
    BY <1>0, <2>1 DEF Entry, Key, TimesInv
  <2>3. Dates(e, j)' /\ Dated(e.logFor.time, j)'
    BY <1>0, <2>2, DatesSame, DatedKept
  <2> QED
    BY <1>l, <2>1, <2>3 DEF Dates, Timely, Latest, Dated
<1>a. ASSUME NEW d \in Clients, NEW j \in Jobs, ans'[d] = ans[d] PROVE Dates(ans[d][j], j)'
  <2>1. PICK e : e = ans[d][j]
    OBVIOUS
  <2>2. e.started \in Int /\ e.finished \in Int /\ Dates(e, j)
    BY <1>0, <2>1 DEF Answer, TimesInv
  <2>3. Dates(e, j)'
    BY <1>0, <2>2, DatesSame
  <2> QED
    BY <1>a, <2>1, <2>3 DEF Dates, Timely, Latest, Dated
<1>s. ASSUME NEW d \in Clients, NEW j \in Jobs, NEW e \in Entry, Timely(e, j),
             cl'[d].snap[j] = e
      PROVE  Timely(cl[d].snap[j], j)'
  <2>1. e.started \in Int /\ e.finished \in Int
    BY DEF Entry
  <2>2. Timely(e, j)'
    BY <1>0, <1>s, <2>1, DatesKept
  <2> QED
    BY <1>s, <2>2 DEF Timely, Dated
<1>c. ASSUME NEW d \in Clients, cl'[d].snap = cl[d].snap
      PROVE  \A j \in Jobs : Timely(cl[d].snap[j], j)'
  <2>1. \A j \in Jobs : cl[d].snap[j] \in Entry /\ Timely(cl[d].snap[j], j)
    BY <1>0 DEF Control, TimesInv
  <2> QED
    BY <1>c, <1>s, <2>1
<1>e. \A j \in Jobs : Empty[j] \in Entry /\ Timely(Empty[j], j)
  <2>1. \A j \in Jobs : Empty[j].started = 0 /\ Empty[j].finished = 0
    BY DEF Empty, NoEntry
  <2> QED
    BY <2>1, EntryTypes DEF Assumptions, Timely, Dated
<1>1. ASSUME NEW c \in Clients, Starts(c) \/ Goes(c) \/ Breaks(c) PROVE TimesInv'
  <2>0. Frame(c)
    BY <1>1, StepFrame
  <2>1. ASSUME NEW j \in Jobs PROVE Dates(ledger[j], j)' /\ Dated(ledger[j].logFor.time, j)'
    <3>1. CASE Write(c)
      <4>1. box[c] = ledger /\ (ledger'[j] = Change(c)[j] \/ ledger'[j] = NoEntry(j))
        BY <3>1, Written
      <4> QED
        BY <1>0, <4>1, RecordDates DEF TimesInv
    <3> QED
      BY <1>l, <2>0, <3>1 DEF Frame
  <2>2. ASSUME NEW d \in Clients, NEW j \in Jobs PROVE Dates(ans[d][j], j)'
    <3>1. CASE d = c
      BY <1>0, <1>1, <3>1, AnswerDates DEF TimesInv
    <3> QED
      BY <1>a, <2>0, <3>1 DEF Frame
  <2>3. ASSUME NEW d \in Clients, NEW j \in Jobs PROVE Timely(cl[d].snap[j], j)'
    <3>1. CASE d # c
      BY <1>c, <2>0, <3>1 DEF Frame
    <3>2. CASE d = c /\ cl'[c].snap = cl[c].snap
      BY <1>c, <3>2
    <3>3. CASE d = c /\ cl'[c].snap = Empty
      BY <1>e, <1>s, <3>3
    <3>4. ASSUME NEW x \in Jobs, d = c, cl'[c].snap = [Empty EXCEPT ![x] = ledger[x]]
          PROVE  Timely(cl[d].snap[j], j)'
      <4>1. Empty \in [Jobs -> Entry]
        BY EntryTypes DEF Assumptions
      <4>2. cl'[c].snap[j] = ledger[j] \/ cl'[c].snap[j] = Empty[j]
        BY <3>4, <4>1
      <4>3. Timely(ledger[j], j) /\ ledger[j] \in Entry
        BY <1>0 DEF TimesInv, Dates
      <4> QED
        BY <1>e, <1>s, <3>4, <4>2, <4>3
    <3> QED
      BY <1>1, <3>1, <3>2, <3>3, <3>4, SnapSteps
  <2> QED
    BY <2>1, <2>2, <2>3 DEF TimesInv
<1>2. CASE Watches
  <2>1. ledger' = ledger /\ ans' = ans
    BY <1>2, WatchesStep
  <2>2. PICK S \in SUBSET Jobs :
           Alone(Watcher, [Idle EXCEPT !.cmd = "jobs", !.pc = "post", !.asks = S])
    BY <1>2, WatchesStep
  <2>3. cl'[Watcher].snap = Empty
    <3>1. [Idle EXCEPT !.cmd = "jobs", !.pc = "post", !.asks = S].snap = Empty
      BY IdleOK DEF Control
    <3> QED
      BY <1>2, <2>2, <3>1, AloneOK, WatchesFrame
  <2>4. ASSUME NEW d \in Clients, NEW j \in Jobs PROVE Timely(cl[d].snap[j], j)'
    <3>1. CASE d = Watcher
      BY <1>e, <1>s, <2>3, <3>1
    <3>2. CASE d # Watcher
      BY <1>2, <1>c, <3>2, WatchesFrame
    <3> QED
      BY <3>1, <3>2
  <2> QED
    BY <1>a, <1>l, <2>1, <2>4 DEF TimesInv
<1>3. CASE HostStep \/ (\E r \in late : ServeLate(r)) \/ UNCHANGED vars
  <2>1. ledger' = ledger /\ ans' = ans /\ cl' = cl
    BY <1>3, OtherSteps
  <2> QED
    BY <1>a, <1>c, <1>l, <2>1 DEF TimesInv
<1> QED
  BY <1>1, <1>2, <1>3, WhoseStep

LEMMA AlwaysDated ==
    ASSUME Assumptions
    PROVE  Spec => [](Typed /\ LockInv /\ PastInv /\ TimesInv)
<1>1. Init => TimesInv
  <2>1. \A j \in Jobs : /\ Empty[j].status = "untracked" /\ Empty[j].started = 0
                        /\ Empty[j].finished = 0 /\ Empty[j].logFor.time = 0
                        /\ Silence[j].status = "unasked" /\ Silence[j].started = 0
                        /\ Silence[j].finished = 0
    BY DEF Empty, NoEntry, Silence, Unasked, NoKey
  <2> QED
    BY <2>1, IdleOK DEF Init, TimesInv, Dates, Timely, Latest, Dated
<1>2. Typed /\ LockInv /\ PastInv /\ TimesInv /\ [Next]_vars => TimesInv'
  BY TimesKept
<1> QED
  BY <1>1, <1>2, AlwaysPast, PTL DEF Spec

\* How a fetch goes on.
LEMMA FetchCourse ==
    ASSUME Assumptions, Typed, NEW c \in Clients, Starts(c) \/ Goes(c) \/ Breaks(c),
           cl'[c].cmd = "fetch"
    PROVE  \/ \E x \in Jobs : /\ StartFetch(c, x)
                              /\ cl'[c].sent = {x} /\ cl'[c].pc = "copy" /\ cl'[c].got = 0
           \/ /\ cl[c].cmd = "fetch"
              /\ cl'[c].sent = cl[c].sent /\ cl'[c].snap = cl[c].snap
              /\ \/ CopyStarts(c)
                 \/ /\ CopyEnds(c) \/ CopyFails(c) \/ Lock(c) \/ Write(c) \/ WriteFails(c)
                    /\ cl'[c].got = cl[c].got
                 \/ Lookup(c) /\ cl'[c].pc \in Reading \cup {"reply"}
<1>0. /\ cl[c] \in Control /\ DOMAIN cl = Clients /\ Shapes
  BY ShapesOK DEF Typed, TypeOK, CommandsOK
<1>i. Idle \in Control /\ Idle.cmd = "none" /\ Idle.got = 0
  BY IdleOK
<1>q. ~Quiet(c)
  BY <1>0, <1>i DEF Quiet
<1>g. ASSUME NEW pc, Goto(c, pc)
      PROVE  /\ cl'[c].cmd = cl[c].cmd /\ cl'[c].sent = cl[c].sent
             /\ cl'[c].snap = cl[c].snap /\ cl'[c].got = cl[c].got /\ cl'[c].pc = pc
  BY <1>0, <1>g DEF Goto, Control
<1>1. CASE Starts(c)
  <2>1. ASSUME NEW x \in Jobs, StartFetch(c, x)
        PROVE  cl'[c].sent = {x} /\ cl'[c].pc = "copy" /\ cl'[c].got = 0
    BY <1>0, <1>i, <2>1 DEF StartFetch, Control
  <2>2. ASSUME NEW ids \in Submissions, StartSubmit(c, ids) PROVE FALSE
    BY <1>0, <1>i, <2>2 DEF StartSubmit, Control
  <2>3. ASSUME NEW x \in Jobs, StartInfo(c, x) \/ StartForget(c, x) PROVE FALSE
    BY <1>0, <1>i, <2>3 DEF StartInfo, StartForget, Control
  <2>4. ~StartJobs(c)
    BY <1>0, <1>i DEF StartJobs, Control
  <2>5. ASSUME NEW S \in SUBSET Jobs, StartQdel(c, S) PROVE FALSE
    BY <1>0, <1>i, <2>5 DEF StartQdel, Control
  <2> QED
    BY <1>1, <2>1, <2>2, <2>3, <2>4, <2>5 DEF Starts
<1>2. ~Post(c) /\ ~EnqueuedAnswer(c) /\ ~Ask(c)
  <2>1. ~Post(c)
    BY <1>0 DEF Post, Control
  <2>2. ASSUME EnqueuedAnswer(c) PROVE FALSE
    <3>1. cl[c].cmd = "submit"
      BY <2>2 DEF EnqueuedAnswer
    <3>2. PICK results, line, pc :
             cl' = [cl EXCEPT ![c].results = results, ![c].line = line, ![c].sent = {},
                              ![c].pc = pc]
      BY <2>2 DEF EnqueuedAnswer
    <3> QED
      BY <1>0, <3>1, <3>2 DEF Control
  <2>3. ASSUME Ask(c) PROVE FALSE
    <3>1. PICK S : cl' = [cl EXCEPT ![c].pc = "read_queue", ![c].sent = S, ![c].rounds = @ + 1]
      BY <2>3 DEF Ask
    <3> QED
      BY <1>0, <2>3, <3>1 DEF Ask, Control
  <2> QED
    BY <2>1, <2>2, <2>3
<1>3. ~ServeEnqueue(c) /\ ~ServeQdel(c) /\ ~QdelAnswer(c) /\ ~LookupRefused(c)
  BY <1>0, GotoFrame DEF ServeEnqueue, ServeQdel, QdelAnswer, LookupRefused
<1>4. ~LookedUp(c)
  <2>1. SUFFICES ASSUME LookedUp(c) PROVE FALSE
    OBVIOUS
  <2>2. PICK rest : LookupEnds(c, rest) /\ cl[c].cmd \in {"jobs", "info"}
    BY <2>1 DEF LookedUp
  <2>3. ASSUME NEW S, NEW pc, cl' = [cl EXCEPT ![c].asks = S, ![c].sent = {}, ![c].pc = pc]
        PROVE  FALSE
    BY <1>0, <2>2, <2>3 DEF Control
  <2> QED
    BY <1>q, <2>2, <2>3 DEF LookupEnds
<1>5. ~QdelNotFound(c) /\ ~Tidy(c) /\ ~Refused(c) /\ ~GiveUp(c) /\ ~Die(c)
  BY <1>q DEF QdelNotFound, Exit, Tidy, Refused, GiveUp, Die
<1>6. CASE CopyStarts(c)
  <2>1. \/ \E pc : Goto(c, pc)
        \/ \E n : cl' = [cl EXCEPT ![c].pc = "copying", ![c].got = n]
    BY <1>6 DEF CopyStarts
  <2>2. ASSUME NEW n, cl' = [cl EXCEPT ![c].pc = "copying", ![c].got = n]
        PROVE  /\ cl'[c].cmd = cl[c].cmd /\ cl'[c].sent = cl[c].sent
               /\ cl'[c].snap = cl[c].snap
    BY <1>0, <2>2 DEF Control
  <2> QED
    BY <1>6, <1>g, <2>1, <2>2
<1>7. CASE CopyEnds(c) \/ CopyFails(c) \/ Lock(c) \/ Write(c) \/ WriteFails(c)
  <2>1. \E pc : Goto(c, pc)
    BY <1>7, <1>q DEF CopyEnds, CopyFails, Lock, Write, WriteFails, ToTidy
  <2> QED
    BY <1>7, <1>g, <2>1
<1>8. CASE Lookup(c)
  <2>1. \E pc \in Reading \cup {"reply"} : Goto(c, pc)
    BY <1>8 DEF Lookup, ReadQueue, ReadRunning, ReadCompleted, ReadFailed, Read, Goto, Reading
  <2> QED
    BY <1>8, <1>g, <2>1
<1> QED
  BY <1>1, <1>2, <1>3, <1>4, <1>5, <1>6, <1>7, <1>8 DEF Goes, Breaks

\* The whole output of j's latest launch.
Full(j) == [n |-> runs[j].n, whole |-> TRUE]

\* A fetch of a job that completed, the only one: the record does not vouch for
\* the copy yet, and will do so only for one that is whole.
Careful(c, j) ==
    Ended(j) /\ cl[c].pc # "tidy" =>
        /\ ~Vouched(j)
        /\ CacheKey(cl[c].snap[j]) = FinalKey(j) =>
              /\ cl[c].pc = "copying" => cl[c].got = runs[j].n
              /\ cl[c].pc \in {"lock", "write"} /\ cl[c].got # 0 =>
                    cache[j] \in {NoCopy, Full(j)}

Lone(c, j) == \A d \in Clients : Fetches(d, j) => d = c

CopyInv ==
    /\ \A c \in Clients : cl[c].pc = "copy" => cl[c].got = 0
    /\ \A c \in Clients, j \in Jobs :
          Fetches(c, j) /\ j \notin refetched => Lone(c, j) /\ Careful(c, j)

\* What a record vouches for is whole.
WholeInv ==
    \A j \in Jobs :
        Ended(j) /\ Vouched(j) /\ cache[j].n # 0 /\ j \notin refetched => cache[j] = Full(j)

\* A time of an earlier launch is not the one of the launch that completed.
LEMMA NotFinal ==
    ASSUME Assumptions, Typed, PastInv, NEW j \in Jobs, Turns(j), ~Ended(j), Ended(j)',
           NEW key \in Key, Dated(key.time, j)
    PROVE  key # FinalKey(j)'
<1>0. runs[j].n \in Nat /\ lastFail[j].n \in Nat /\ key.time \in Nat
  BY DEF Typed, TypeOK, HostOK, Run, Key
<1>1. Kept(j) /\ Begun(j) /\ view[j].done = "none"
  BY DEF Turns, Ended
<1>2. runs[j].n > lastFail[j].n /\ runs'[j] = runs[j]
  BY <1>1 DEF Begun, Kept
<1>3. key.time # 2 * runs[j].n
  BY <1>0, <1>1, <1>2 DEF Dated
<1> QED
  BY <1>2, <1>3 DEF FinalKey

LEMMA EndedStays ==
    ASSUME NEW j \in Jobs, Turns(j), Ended(j)
    PROVE  Ended(j)' /\ runs'[j] = runs[j] /\ FinalKey(j)' = FinalKey(j) /\ Full(j)' = Full(j)
BY DEF Turns, Ended, Kept, FinalKey, Full

\* Who vouches for what.
LEMMA VouchSteps ==
    ASSUME Assumptions, Typed, LockInv, PastInv, TimesInv, NEW c \in Clients,
           Starts(c) \/ Goes(c) \/ Breaks(c), NEW j \in Jobs, Turns(j), Ended(j)', Vouched(j)'
    PROVE  /\ Ended(j)
           /\ \/ Vouched(j)
              \/ /\ Write(c) /\ Fetches(c, j) /\ cl[c].got # 0
                 /\ CacheKey(cl[c].snap[j]) = FinalKey(j)
<1>0. /\ ledger[j] \in Entry /\ cl[c].snap[j] \in Entry /\ runs[j].n \in Nat
      /\ lastFail[j].n \in Nat /\ ans[c][j] \in Answer
  BY DEF Typed, TypeOK, HostOK, MachineOK, CommandsOK, Control, Run
<1>1. /\ ledger[j].logFor \in Key /\ Dated(ledger[j].logFor.time, j)
      /\ CacheKey(cl[c].snap[j]) \in Key /\ Dated(CacheKey(cl[c].snap[j]).time, j)
      /\ NoKey \in Key /\ Dated(NoKey.time, j)
  <2>1. Dated(CacheKey(cl[c].snap[j]).time, j) /\ Dated(ledger[j].logFor.time, j)
    BY DEF TimesInv, CacheKey, Timely
  <2> QED
    BY <1>0, <2>1, EntryTypes DEF Assumptions, Entry, NoKey, Dated
<1>2. \/ ledger'[j].logFor \in {ledger[j].logFor, NoKey}
      \/ /\ Write(c) /\ Fetches(c, j) /\ cl[c].got # 0
         /\ ledger'[j].logFor = CacheKey(cl[c].snap[j])
  <2>1. CASE Write(c)
    <3>1. box[c] = ledger /\ (ledger'[j] = Change(c)[j] \/ ledger'[j] = NoEntry(j))
      BY <2>1, Written
    <3>2. CASE ledger'[j] = NoEntry(j)
      BY <3>2 DEF NoEntry
    <3>3. CASE ledger'[j] = Change(c)[j]
      <4>1. Merge(ledger[j], ans[c][j]).logFor = ledger[j].logFor
        BY <1>0 DEF Merge, MergeHostFields, Entry
      <4>2. [ledger[j] EXCEPT !.status = "deleted"].logFor = ledger[j].logFor
        BY <1>0 DEF Entry
      <4>3. \A key : /\ WithLog(ledger[j], key).logFor = key
                     /\ WithoutLog(ledger[j], key).logFor = ledger[j].logFor
        BY <1>0 DEF WithLog, WithoutLog, Entry
      <4>4. LET e == ledger[j]
                m == Change(c)[j]
            IN  \/ m = e
                \/ m = Merge(e, ans[c][j])
                \/ m = [e EXCEPT !.status = "deleted"]
                \/ m.logFor = NoKey
                \/ /\ Fetches(c, j)
                   /\ \/ cl[c].got # 0 /\ m = WithLog(e, CacheKey(cl[c].snap[j]))
                      \/ m = WithoutLog(e, CacheKey(cl[c].snap[j]))
        BY <3>1, ChangeCases
      <4>5. CASE \/ ledger'[j] = ledger[j] \/ ledger'[j] = Merge(ledger[j], ans[c][j])
                 \/ ledger'[j] = [ledger[j] EXCEPT !.status = "deleted"]
                 \/ ledger'[j].logFor = NoKey
        BY <4>1, <4>2, <4>5
      <4>6. CASE /\ Fetches(c, j)
                 /\ \/ cl[c].got # 0 /\ ledger'[j] = WithLog(ledger[j], CacheKey(cl[c].snap[j]))
                    \/ ledger'[j] = WithoutLog(ledger[j], CacheKey(cl[c].snap[j]))
        BY <2>1, <4>3, <4>6
      <4> QED
        BY <3>3, <4>4, <4>5, <4>6
    <3> QED
      BY <3>1, <3>2, <3>3
  <2> QED
    BY <2>1, StepFrame DEF Frame
<1>3. Ended(j)
  <2>1. SUFFICES ASSUME ~Ended(j) PROVE FALSE
    OBVIOUS
  <2>2. ledger'[j].logFor \in Key /\ Dated(ledger'[j].logFor.time, j)
    BY <1>1, <1>2
  <2>3. PICK key \in Key : key = ledger'[j].logFor
    BY <2>2
  <2>4. key # FinalKey(j)'
    BY <2>1, <2>2, <2>3, NotFinal
  <2> QED
    BY <2>3, <2>4 DEF Vouched
<1>4. ledger'[j].logFor = FinalKey(j)
  BY <1>3, EndedStays DEF Vouched
<1>5. ledger'[j].logFor # NoKey
  <2>1. runs[j].n > lastFail[j].n
    BY <1>3 DEF PastInv
  <2> QED
    BY <1>0, <1>4, <2>1 DEF FinalKey, NoKey
<1> QED
  BY <1>2, <1>3, <1>4, <1>5 DEF Vouched

\* The steps of a fetch, one by one.
LEMMA FetchGoes ==
    ASSUME Assumptions, Typed, NEW c \in Clients, cl[c].cmd = "fetch", cl'[c].cmd = "fetch"
    PROVE  /\ CopyStarts(c) =>
                 /\ cl[c].pc = "copy" /\ UNCHANGED <<hostVars, ledger, refetched>>
                 /\ \/ cl'[c].pc = "lock" /\ cl'[c].got = cl[c].got /\ UNCHANGED cache
                    \/ \E x \in cl[c].sent :
                          LET n == logs[<<cl[c].snap[x].host, x>>]
                          IN  /\ n # 0 /\ cl'[c].pc = "copying" /\ cl'[c].got = n
                              /\ cache' = [cache EXCEPT ![x] = [n |-> n, whole |-> FALSE]]
           /\ CopyEnds(c) => cl[c].pc = "copying" /\ cl'[c].pc = "lock"
           /\ CopyFails(c) => cl[c].pc \in {"copy", "copying"} /\ cl'[c].pc = "tidy"
           /\ Lock(c) => cl[c].pc = "lock" /\ cl'[c].pc = "write" /\ UNCHANGED cache
           /\ Write(c) => cl[c].pc = "write" /\ cl'[c].pc = "tidy" /\ UNCHANGED cache
           /\ WriteFails(c) => cl[c].pc = "write" /\ cl'[c].pc = "tidy"
           /\ Lookup(c) => cl[c].pc \in Reading
<1>0. /\ cl[c] \in Control /\ DOMAIN cl = Clients /\ Shapes
  BY ShapesOK DEF Typed, TypeOK, CommandsOK
<1>q. ~Quiet(c)
  BY <1>0, IdleOK DEF Quiet
<1>g. ASSUME NEW pc, Goto(c, pc) PROVE cl'[c].pc = pc /\ cl'[c].got = cl[c].got
  BY <1>0, <1>g DEF Goto, Control
<1>1. ASSUME CopyStarts(c)
      PROVE  /\ cl[c].pc = "copy" /\ UNCHANGED <<hostVars, ledger, refetched>>
             /\ \/ cl'[c].pc = "lock" /\ cl'[c].got = cl[c].got /\ UNCHANGED cache
                \/ \E x \in cl[c].sent :
                      LET n == logs[<<cl[c].snap[x].host, x>>]
                      IN  /\ n # 0 /\ cl'[c].pc = "copying" /\ cl'[c].got = n
                          /\ cache' = [cache EXCEPT ![x] = [n |-> n, whole |-> FALSE]]
  <2>1. cl[c].pc = "copy" /\ UNCHANGED <<hostVars, ledger, refetched>>
    BY <1>1 DEF CopyStarts, copyRest, ghostVars
  <2>2. CASE Goto(c, "lock") /\ UNCHANGED cache
    BY <1>g, <2>1, <2>2
  <2>3. ASSUME NEW x \in cl[c].sent, logs[<<cl[c].snap[x].host, x>>] # 0,
               cl' = [cl EXCEPT ![c].pc = "copying", ![c].got = logs[<<cl[c].snap[x].host, x>>]],
               cache' = [cache EXCEPT ![x] = [n |-> logs[<<cl[c].snap[x].host, x>>],
                                              whole |-> FALSE]]
        PROVE  /\ cl'[c].pc = "copying" /\ cl'[c].got = logs[<<cl[c].snap[x].host, x>>]
    BY <1>0, <2>3 DEF Control
  <2> QED
    BY <1>1, <2>1, <2>2, <2>3 DEF CopyStarts
<1>2. CopyEnds(c) => cl[c].pc = "copying" /\ cl'[c].pc = "lock"
  BY <1>g DEF CopyEnds
<1>3. CopyFails(c) => cl[c].pc \in {"copy", "copying"} /\ cl'[c].pc = "tidy"
  BY <1>g DEF CopyFails
<1>4. Lock(c) => cl[c].pc = "lock" /\ cl'[c].pc = "write" /\ UNCHANGED cache
  BY <1>g DEF Lock
<1>5. Write(c) => cl[c].pc = "write" /\ cl'[c].pc = "tidy" /\ UNCHANGED cache
  BY <1>g, <1>q DEF Write, ToTidy
<1>6. WriteFails(c) => cl[c].pc = "write" /\ cl'[c].pc = "tidy"
  BY <1>g, <1>q DEF WriteFails, ToTidy
<1>7. Lookup(c) => cl[c].pc \in Reading
  BY DEF Lookup, ReadQueue, ReadRunning, ReadCompleted, ReadFailed, Reading
<1> QED
  BY <1>1, <1>2, <1>3, <1>4, <1>5, <1>6, <1>7

\* What a process does to the cached logs.
LEMMA CacheSteps ==
    ASSUME Assumptions, Typed, NEW c \in Clients, Starts(c) \/ Goes(c) \/ Breaks(c),
           NEW j \in Jobs
    PROVE  \/ cache'[j] \in {cache[j], NoCopy}
           \/ CopyStarts(c) /\ Fetches(c, j) /\ cl[c].pc = "copy"
           \/ /\ CopyEnds(c) /\ Fetches(c, j) /\ cl[c].pc = "copying"
              /\ \E whole \in BOOLEAN :
                    /\ whole \/ Unsettled(j, cl[c].snap[j].host, cl[c].got)
                    /\ cache'[j] = [n |-> cl[c].got, whole |-> whole]
<1>0. cache \in [Jobs -> Copy] /\ FetchSound(cl[c])
  BY DEF Typed, TypeOK, MachineOK, FetchOK
<1>1. CASE Starts(c)
  BY <1>1 DEF Starts, StartSubmit, StartJobs, StartInfo, StartForget, StartFetch, StartQdel,
     world, clientVars
<1>2. CASE \/ Post(c) \/ ServeEnqueue(c) \/ EnqueuedAnswer(c) \/ ServeQdel(c)
           \/ QdelNotFound(c) \/ QdelAnswer(c)
  BY <1>2 DEF Post, ServeEnqueue, EnqueuedAnswer, ServeQdel, QdelNotFound, QdelAnswer, Exit,
     world, clientVars
<1>3. CASE Ask(c) \/ Lookup(c) \/ LookedUp(c) \/ LookupRefused(c)
  BY <1>3 DEF Ask, Lookup, ReadQueue, ReadRunning, ReadCompleted, ReadFailed, Read, LookedUp,
     LookupEnds, LookupRefused, world, clientVars
<1>4. CASE \/ CopyFails(c) \/ Lock(c) \/ Write(c) \/ WriteFails(c) \/ Refused(c) \/ GiveUp(c)
           \/ Die(c)
  BY <1>4 DEF CopyFails, Lock, Write, WriteFails, Refused, GiveUp, Die, world, clientVars
<1>5. CASE Tidy(c)
  <2>1. \E S : cache' = [i \in Jobs |-> IF i \in S THEN NoCopy ELSE cache[i]]
    BY <1>5 DEF Tidy
  <2> QED
    BY <2>1
<1>6. CASE CopyStarts(c)
  <2>1. cl[c].pc = "copy" /\ cl[c].cmd = "fetch"
    BY <1>0, <1>6 DEF CopyStarts, FetchSound
  <2>2. \E x \in cl[c].sent :
           \/ UNCHANGED cache
           \/ \E new : cache' = [cache EXCEPT ![x] = new]
    BY <1>6 DEF CopyStarts
  <2>3. CASE j \in cl[c].sent
    BY <1>6, <2>1, <2>3 DEF Fetches
  <2>4. CASE j \notin cl[c].sent
    BY <1>0, <2>2, <2>4
  <2> QED
    BY <2>3, <2>4
<1>7. CASE CopyEnds(c)
  <2>1. cl[c].pc = "copying" /\ cl[c].cmd = "fetch"
    BY <1>0, <1>7 DEF CopyEnds, FetchSound
  <2>2. PICK x \in cl[c].sent, whole \in BOOLEAN :
           /\ whole \/ Unsettled(x, cl[c].snap[x].host, cl[c].got)
           /\ cache' = [cache EXCEPT ![x] = [n |-> cl[c].got, whole |-> whole]]
    BY <1>7 DEF CopyEnds
  <2>3. CASE j = x
    <3>1. cache'[j] = [n |-> cl[c].got, whole |-> whole]
      BY <1>0, <2>2, <2>3
    <3> QED
      BY <1>7, <2>1, <2>2, <2>3, <3>1 DEF Fetches
  <2>4. CASE j # x
    BY <1>0, <2>2, <2>4
  <2> QED
    BY <2>3, <2>4
<1> QED
  BY <1>1, <1>2, <1>3, <1>4, <1>5, <1>6, <1>7 DEF Goes, Breaks

\* What is remembered of fetches.
LEMMA RefetchSteps ==
    ASSUME [Next]_vars
    PROVE  refetched \subseteq refetched'
<1>1. ASSUME NEW c \in Clients, Starts(c) \/ Goes(c) \/ Breaks(c) PROVE refetched \subseteq refetched'
  <2> USE DEF ghostVars, copyRest
  <2>1. CASE Starts(c)
    BY <2>1 DEF Starts, StartSubmit, StartJobs, StartInfo, StartForget, StartFetch, StartQdel
  <2>2. CASE \/ Post(c) \/ ServeEnqueue(c) \/ EnqueuedAnswer(c) \/ ServeQdel(c)
             \/ QdelNotFound(c) \/ QdelAnswer(c)
    BY <2>2 DEF Post, ServeEnqueue, EnqueuedAnswer, ServeQdel, QdelNotFound, QdelAnswer, Exit
  <2>3. CASE Ask(c) \/ Lookup(c) \/ LookedUp(c) \/ LookupRefused(c)
    BY <2>3 DEF Ask, Lookup, ReadQueue, ReadRunning, ReadCompleted, ReadFailed, Read, LookedUp,
       LookupEnds, LookupRefused
  <2>4. CASE \/ CopyStarts(c) \/ CopyEnds(c) \/ CopyFails(c) \/ Tidy(c) \/ Lock(c) \/ Write(c)
             \/ WriteFails(c) \/ Refused(c) \/ GiveUp(c) \/ Die(c)
    BY <2>4 DEF CopyStarts, CopyEnds, CopyFails, Tidy, Lock, Write, WriteFails, Refused, GiveUp,
       Die
  <2> QED
    BY <1>1, <2>1, <2>2, <2>3, <2>4 DEF Goes, Breaks
<1>2. CASE Watches
  BY <1>2 DEF Watches, ghostVars
<1>3. CASE HostStep
  BY <1>3 DEF HostStep, Launch, Recycle, Progress, Fail, GoBack, Operate, HostLoses, hostRest
<1>4. CASE \E r \in late : ServeLate(r)
  BY <1>4 DEF ServeLate
<1>5. CASE UNCHANGED vars
  BY <1>5 DEF vars, ghostVars
<1> QED
  BY <1>1, <1>2, <1>3, <1>4, <1>5, WhoseStep

\* Who fetches j's log was fetching it, or has just begun.
LEMMA FetchBack ==
    ASSUME Assumptions, Typed, NEW c \in Clients, Starts(c) \/ Goes(c) \/ Breaks(c),
           NEW d \in Clients, NEW j \in Jobs, Fetches(d, j)'
    PROVE  Fetches(d, j) \/ (d = c /\ StartFetch(c, j) /\ cl'[c].pc = "copy")
<1>1. CASE d # c
  BY <1>1, StepFrame DEF Frame, Fetches
<1>2. CASE d = c
  BY <1>2, FetchCourse DEF Fetches
<1> QED
  BY <1>1, <1>2

\* A copy that ends after its job has completed is whole.
LEMMA Settled ==
    ASSUME Typed, PastInv, NEW j \in Jobs, Ended(j), NEW w \in Workers
    PROVE  ~Unsettled(j, w, runs[j].n)
<1>1. Sane(view[j]) /\ logs[<<w, j>>] <= runs[j].n
  BY DEF Typed, HostInv, PastInv
<1>2. logs[<<w, j>>] \in Nat /\ runs[j].n \in Nat
  BY DEF Typed, TypeOK, HostOK, Run
<1>3. view[j].at = "over"
  BY <1>1 DEF Sane, Ended
<1> QED
  BY <1>1, <1>2, <1>3 DEF Unsettled

LEMMA OwnCare ==
    ASSUME Assumptions, Typed, PastInv, NEW c \in Clients,
           Starts(c) \/ Goes(c) \/ Breaks(c), NEW j \in Jobs,
           Fetches(c, j), Fetches(c, j)', ~StartFetch(c, j), cl[c].pc = "copy" => cl[c].got = 0,
           Ended(j), Ended(j)', FinalKey(j)' = FinalKey(j), Full(j)' = Full(j), runs'[j] = runs[j],
           cl'[c].pc # "tidy",
           cl[c].pc # "tidy" => Careful(c, j),
           CacheKey(cl'[c].snap[j]) = FinalKey(j)
    PROVE  /\ cl'[c].pc = "copying" => cl'[c].got = runs[j].n
           /\ cl'[c].pc \in {"lock", "write"} /\ cl'[c].got # 0 =>
                 cache'[j] \in {NoCopy, Full(j)}
<1> DEFINE Good == /\ cl'[c].pc = "copying" => cl'[c].got = runs[j].n
                   /\ cl'[c].pc \in {"lock", "write"} /\ cl'[c].got # 0 =>
                         cache'[j] \in {NoCopy, Full(j)}
<1>0. /\ cl[c].cmd = "fetch" /\ cl'[c].cmd = "fetch" /\ j \in cl[c].sent
      /\ j \in cl'[c].sent /\ FetchSound(cl[c])
  BY DEF Fetches, Typed, FetchOK
<1>1. PICK x \in Jobs : cl[c].sent = {x} /\ cl[c].snap[x].host \in Workers
  BY <1>0 DEF FetchSound
<1>2. x = j /\ cl[c].snap[j].host \in Workers
  BY <1>0, <1>1
<1>3. ~\E y \in Jobs : StartFetch(c, y) /\ cl'[c].sent = {y} /\ cl'[c].pc = "copy"
                       /\ cl'[c].got = 0
  BY <1>0
<1>4. /\ cl'[c].snap = cl[c].snap
      /\ \/ CopyStarts(c)
         \/ /\ CopyEnds(c) \/ CopyFails(c) \/ Lock(c) \/ Write(c) \/ WriteFails(c)
            /\ cl'[c].got = cl[c].got
         \/ Lookup(c) /\ cl'[c].pc \in Reading \cup {"reply"}
  BY <1>0, <1>3, FetchCourse
<1>5. CacheKey(cl[c].snap[j]) = FinalKey(j) /\ cl[c].snap[j].host = runs[j].host
  BY <1>4 DEF CacheKey, FinalKey
<1>6. CASE CopyStarts(c)
  <2>1. CASE cl'[c].pc = "lock" /\ cl'[c].got = cl[c].got
    BY <1>0, <1>6, <2>1, FetchGoes
  <2>2. ASSUME NEW y \in cl[c].sent, logs[<<cl[c].snap[y].host, y>>] # 0, cl'[c].pc = "copying",
               cl'[c].got = logs[<<cl[c].snap[y].host, y>>]
        PROVE  Good
    <3>1. y = j
      BY <1>1, <1>2
    <3>2. logs[<<runs[j].host, j>>] \in {0, runs[j].n}
      BY DEF PastInv
    <3> QED
      BY <1>5, <2>2, <3>1, <3>2
  <2> QED
    BY <1>0, <1>6, <2>1, <2>2, FetchGoes
<1>7. CASE CopyEnds(c) /\ cl'[c].got = cl[c].got
  <2>1. cl[c].pc = "copying" /\ cl'[c].pc = "lock"
    BY <1>0, <1>7, FetchGoes
  <2>2. cl[c].got = runs[j].n
    BY <1>5, <2>1 DEF Careful
  <2>3. ~Unsettled(j, cl[c].snap[j].host, cl[c].got)
    BY <1>2, <2>2, Settled
  <2>4. cache'[j] \in {cache[j], NoCopy, Full(j)}
    <3>1. cl[c].pc # "copy"
      BY <2>1
    <3> QED
      BY <2>2, <2>3, <3>1, CacheSteps DEF Full
  <2>5. cache'[j] = Full(j)
    <3>1. PICK y \in cl[c].sent, whole \in BOOLEAN :
             /\ whole \/ Unsettled(y, cl[c].snap[y].host, cl[c].got)
             /\ cache' = [cache EXCEPT ![y] = [n |-> cl[c].got, whole |-> whole]]
      BY <1>7 DEF CopyEnds
    <3>2. y = j
      BY <1>1, <1>2
    <3>3. cache'[j] = [n |-> cl[c].got, whole |-> whole]
      BY <3>1, <3>2 DEF Typed, TypeOK, MachineOK
    <3> QED
      BY <2>2, <2>3, <3>1, <3>2, <3>3 DEF Full
  <2> QED
    BY <2>1, <2>5
<1>8. CASE CopyFails(c) \/ Write(c) \/ WriteFails(c)
  BY <1>0, <1>8, FetchGoes
<1>9. CASE Lock(c) /\ cl'[c].got = cl[c].got
  <2>1. cl[c].pc = "lock" /\ cl'[c].pc = "write" /\ cache' = cache
    BY <1>0, <1>9, FetchGoes
  <2> QED
    BY <1>5, <1>9, <2>1 DEF Careful
<1>10. CASE cl'[c].pc \in Reading \cup {"reply"}
  BY <1>10 DEF Reading
<1> QED
  BY <1>4, <1>6, <1>7, <1>8, <1>9, <1>10

LEMMA CareKept ==
    ASSUME Assumptions, Typed, LockInv, PastInv, TimesInv, CopyInv, NEW c \in Clients,
           Starts(c) \/ Goes(c) \/ Breaks(c), refetched \subseteq refetched',
           NEW j \in Jobs, Turns(j), j \notin refetched', NEW d \in Clients, Fetches(d, j)'
    PROVE  Lone(d, j)' /\ Careful(d, j)'
<1>0. j \notin refetched
  OBVIOUS
<1>1. \A e \in Clients : Fetches(e, j) => Lone(e, j) /\ Careful(e, j)
  BY <1>0 DEF CopyInv
<1>e. Ended(j)' => Ended(j)
  BY OnlyMoved DEF Ended
<1>2. CASE StartFetch(c, j)
  <2>1. (\A e \in Clients : ~Fetches(e, j)) /\ ~Vouched(j)
    BY <1>2 DEF StartFetch
  <2>2. d = c /\ cl'[c].pc = "copy"
    BY <2>1, FetchBack
  <2>3. Lone(d, j)'
    BY <2>1, <2>2, FetchBack DEF Lone
  <2>4. Ended(j)' => ~Vouched(j)'
    BY <2>1, VouchSteps
  <2> QED
    BY <2>2, <2>3, <2>4 DEF Careful
<1>3. CASE ~StartFetch(c, j)
  <2>1. \A e \in Clients : Fetches(e, j)' => Fetches(e, j)
    BY <1>3, FetchBack
  <2>2. Fetches(d, j) /\ Lone(d, j) /\ Careful(d, j)
    BY <1>1, <2>1
  <2>3. Lone(d, j)'
    BY <2>1, <2>2 DEF Lone
  <2>4. SUFFICES ASSUME Ended(j)', cl'[d].pc # "tidy" PROVE Careful(d, j)'
    BY <2>3 DEF Careful
  <2>5. /\ Ended(j) /\ runs'[j] = runs[j] /\ FinalKey(j)' = FinalKey(j)
        /\ Full(j)' = Full(j)
    BY <1>e, <2>4, EndedStays
  <2>6. cl[d].pc # "tidy"
    <3>1. CASE d # c
      BY <2>4, <3>1, StepFrame DEF Frame
    <3>2. CASE d = c
      <4>1. cl[c].cmd = "fetch" /\ cl'[c].cmd = "fetch" /\ j \in cl'[c].sent
        BY <2>2, <3>2 DEF Fetches
      <4>2. \/ CopyStarts(c) \/ CopyEnds(c) \/ CopyFails(c) \/ Lock(c) \/ Write(c)
            \/ WriteFails(c) \/ Lookup(c)
        BY <1>3, <4>1, FetchCourse
      <4>3. cl[c].pc \in {"copy", "copying", "lock", "write"} \cup Reading
        BY <4>1, <4>2, FetchGoes
      <4> QED
        BY <3>2, <4>3 DEF Reading
    <3> QED
      BY <3>1, <3>2
  <2>7. ~Vouched(j)'
    <3>1. SUFFICES ASSUME Vouched(j)' PROVE FALSE
      OBVIOUS
    <3>2. ~Vouched(j)
      BY <2>2, <2>5, <2>6 DEF Careful
    <3>3. Write(c) /\ Fetches(c, j)
      BY <2>4, <3>1, <3>2, VouchSteps
    <3>4. d = c
      BY <2>2, <3>3 DEF Lone
    <3> QED
      BY <2>4, <3>3, <3>4, FetchGoes DEF Fetches
  <2>8. ASSUME CacheKey(cl'[d].snap[j]) = FinalKey(j)
        PROVE  /\ cl'[d].pc = "copying" => cl'[d].got = runs[j].n
               /\ cl'[d].pc \in {"lock", "write"} /\ cl'[d].got # 0 =>
                     cache'[j] \in {NoCopy, Full(j)}
    <3>1. CASE d = c
      <4>1. cl[c].pc = "copy" => cl[c].got = 0
        BY DEF CopyInv
      <4> QED
        BY <1>3, <2>2, <2>4, <2>5, <2>6, <2>8, <3>1, <4>1, OwnCare
    <3>2. CASE d # c
      <4>1. cl'[d] = cl[d]
        BY <3>2, StepFrame DEF Frame
      <4>2. ~Fetches(c, j)
        BY <2>2, <3>2 DEF Lone
      <4>3. cache'[j] \in {cache[j], NoCopy}
        BY <4>2, CacheSteps
      <4> QED
        BY <2>2, <2>5, <2>6, <2>8, <4>1, <4>3 DEF Careful
    <3> QED
      BY <3>1, <3>2
  <2> QED
    BY <2>3, <2>5, <2>7, <2>8 DEF Careful
<1> QED
  BY <1>2, <1>3

LEMMA WholeStays ==
    ASSUME Assumptions, Typed, LockInv, PastInv, TimesInv, CopyInv, WholeInv, NEW c \in Clients,
           Starts(c) \/ Goes(c) \/ Breaks(c),
           NEW j \in Jobs, Turns(j), j \notin refetched,
           Ended(j)', Vouched(j)', cache'[j].n # 0
    PROVE  cache'[j] = Full(j)'
<1>1. Ended(j) /\ Full(j)' = Full(j) /\ NoCopy.n = 0
  BY VouchSteps, EndedStays DEF NoCopy
<1>2. CASE Vouched(j)
  <2>1. Fetches(c, j) => cl[c].pc = "tidy"
    BY <1>1, <1>2 DEF CopyInv, Careful
  <2>2. cache'[j] = cache[j]
    BY <1>1, <2>1, CacheSteps
  <2> QED
    BY <1>1, <1>2, <2>2 DEF WholeInv
<1>3. CASE /\ Write(c) /\ Fetches(c, j) /\ cl[c].got # 0
           /\ CacheKey(cl[c].snap[j]) = FinalKey(j)
  <2>1. cl[c].pc = "write" /\ cache' = cache
    BY <1>3 DEF Write
  <2>2. cache[j] \in {NoCopy, Full(j)}
    BY <1>1, <1>3, <2>1 DEF CopyInv, Careful
  <2> QED
    BY <1>1, <2>1, <2>2
<1> QED
  BY <1>2, <1>3, VouchSteps

\* Steps of the host, and the beginning of another `jobs`.
LEMMA RestKept ==
    ASSUME Assumptions, Typed, PastInv, TimesInv, CopyInv, WholeInv,
           \A j \in Jobs : Turns(j), UNCHANGED <<ledger, cache, refetched>>,
           \A d \in Clients : cl'[d] = cl[d] \/ (cl'[d].cmd # "fetch" /\ cl'[d].pc # "copy")
    PROVE  CopyInv' /\ WholeInv'
<1>1. ASSUME NEW j \in Jobs, ~Ended(j), Ended(j)'
      PROVE  /\ ~Vouched(j)'
             /\ \A d \in Clients : CacheKey(cl[d].snap[j]) # FinalKey(j)'
  <2>1. ledger[j].logFor \in Key /\ Dated(ledger[j].logFor.time, j)
    BY DEF Typed, TypeOK, MachineOK, Entry, TimesInv
  <2>2. ASSUME NEW d \in Clients
        PROVE  /\ CacheKey(cl[d].snap[j]) \in Key
               /\ Dated(CacheKey(cl[d].snap[j]).time, j)
    <3>1. cl[d].snap[j] \in Entry
      BY DEF Typed, TypeOK, CommandsOK, Control
    <3> QED
      BY <3>1, EntryTypes DEF Assumptions, TimesInv, CacheKey, Timely
  <2>3. \A key \in Key : Dated(key.time, j) => key # FinalKey(j)'
    BY <1>1, NotFinal
  <2> QED
    BY <2>1, <2>2, <2>3 DEF Vouched
<1>2. ASSUME NEW j \in Jobs, Ended(j)
      PROVE  /\ runs'[j] = runs[j] /\ FinalKey(j)' = FinalKey(j) /\ Full(j)' = Full(j)
             /\ Vouched(j)' = Vouched(j)
  BY <1>2, EndedStays DEF Vouched
<1>3. \A d \in Clients : cl'[d].pc = "copy" => cl'[d].got = 0
  BY DEF CopyInv
<1>4. ASSUME NEW d \in Clients, NEW j \in Jobs, Fetches(d, j)', j \notin refetched
      PROVE  Lone(d, j)' /\ Careful(d, j)'
  <2>1. cl'[d] = cl[d] /\ \A e \in Clients : Fetches(e, j)' => Fetches(e, j)
    BY <1>4 DEF Fetches
  <2>2. Fetches(d, j) /\ Lone(d, j) /\ Careful(d, j)
    BY <1>4, <2>1 DEF CopyInv
  <2>3. Lone(d, j)'
    BY <2>1, <2>2 DEF Lone
  <2>4. CASE Ended(j)
    BY <1>2, <2>1, <2>2, <2>3, <2>4 DEF Careful
  <2>5. CASE ~Ended(j)
    BY <1>1, <2>1, <2>3, <2>5 DEF Careful
  <2> QED
    BY <2>4, <2>5
<1>5. CopyInv'
  BY <1>3, <1>4 DEF CopyInv
<1>6. WholeInv'
  <2>1. ASSUME NEW j \in Jobs, Ended(j)', Vouched(j)', cache'[j].n # 0, j \notin refetched'
        PROVE  cache'[j] = Full(j)'
    BY <1>1, <1>2, <2>1 DEF WholeInv
  <2> QED
    BY <2>1 DEF WholeInv
<1> QED
  BY <1>5, <1>6

LEMMA CopiesKept ==
    ASSUME Assumptions, Typed, Typed', LockInv, PastInv, TimesInv, CopyInv, WholeInv, [Next]_vars
    PROVE  CopyInv' /\ WholeInv'
<1>0. (\A j \in Jobs : Turns(j)) /\ refetched \subseteq refetched'
  BY AlwaysTurns, RefetchSteps
<1>1. ASSUME NEW c \in Clients, Starts(c) \/ Goes(c) \/ Breaks(c) PROVE CopyInv' /\ WholeInv'
  <2>1. ASSUME NEW d \in Clients, cl'[d].pc = "copy" PROVE cl'[d].got = 0
    <3>1. CASE d # c
      BY <1>1, <2>1, <3>1, StepFrame DEF Frame, CopyInv
    <3>2. CASE d = c
      <4>1. cl'[c].cmd = "fetch"
        BY <2>1, <3>2 DEF Typed, FetchOK, FetchSound
      <4>2. CASE cl'[c].got = 0
        BY <3>2, <4>2
      <4>3. CASE /\ cl[c].cmd = "fetch"
                 /\ \/ CopyStarts(c) \/ CopyEnds(c) \/ CopyFails(c) \/ Lock(c) \/ Write(c)
                    \/ WriteFails(c)
        BY <2>1, <3>2, <4>1, <4>3, FetchGoes
      <4>4. CASE cl'[c].pc \in Reading \cup {"reply"}
        BY <2>1, <3>2, <4>4 DEF Reading
      <4> QED
        BY <1>1, <4>1, <4>2, <4>3, <4>4, FetchCourse
    <3> QED
      BY <3>1, <3>2
  <2>2. ASSUME NEW d \in Clients, NEW j \in Jobs, Fetches(d, j)', j \notin refetched'
        PROVE  Lone(d, j)' /\ Careful(d, j)'
    BY <1>0, <1>1, <2>2, CareKept
  <2>3. CopyInv'
    BY <2>1, <2>2 DEF CopyInv
  <2>4. ASSUME NEW j \in Jobs, Ended(j)', Vouched(j)', cache'[j].n # 0, j \notin refetched'
        PROVE  cache'[j] = Full(j)'
    BY <1>0, <1>1, <2>4, WholeStays
  <2>5. WholeInv'
    BY <2>4 DEF WholeInv
  <2> QED
    BY <2>3, <2>5
<1>2. CASE Watches
  <2>1. UNCHANGED <<ledger, cache, refetched>>
    BY <1>2 DEF Watches, world, clientVars, ghostVars
  <2> QED
    BY <1>0, <1>2, <2>1, WatchesFrame, RestKept
<1>3. CASE HostStep \/ (\E r \in late : ServeLate(r)) \/ UNCHANGED vars
  <2>1. UNCHANGED <<cache, refetched>>
    <3>1. CASE HostStep
      BY <3>1 DEF HostStep, Launch, Recycle, Progress, Fail, GoBack, Operate, HostLoses,
         hostRest, clientVars
    <3>2. CASE \E r \in late : ServeLate(r)
      BY <3>2 DEF ServeLate, clientVars
    <3>3. CASE UNCHANGED vars
      BY <3>3 DEF vars, clientVars, ghostVars
    <3> QED
      BY <1>3, <3>1, <3>2, <3>3
  <2>2. UNCHANGED <<ledger, cl>>
    BY <1>3, OtherSteps
  <2> QED
    BY <1>0, <2>1, <2>2, RestKept
<1> QED
  BY <1>1, <1>2, <1>3, WhoseStep

\* Once a job is known to have completed, the log shown as cached is the whole
\* output of the launch that completed, for any number of processes that fetch
\* logs, delete them and write the ledger: a copy begun while the job ran is
\* noted under an earlier time than the record's, and one that is noted under
\* its last time was copied when nothing wrote the log any more.
THEOREM CachedLogIsWhole == Spec => []CompletedLogIsWhole
<1>a. Assumptions
  BY LedgerAssumption, ClientAssumption, WatcherAssumption DEF Assumptions
<1>1. Init => CopyInv /\ WholeInv
  BY IdleOK, <1>a DEF Init, CopyInv, WholeInv, Fetches, NoCopy
<1>2. Typed /\ Typed' /\ LockInv /\ PastInv /\ TimesInv /\ CopyInv /\ WholeInv /\ [Next]_vars
         => CopyInv' /\ WholeInv'
  BY <1>a, CopiesKept
<1>3. Typed /\ PastInv /\ TimesInv /\ WholeInv => CompletedLogIsWhole
  <2>1. SUFFICES ASSUME Typed, PastInv, TimesInv, WholeInv, NEW j \in Jobs,
                        ledger[j].status = "completed",
                        IsCached(ledger[j], cache[j].n # 0), j \notin refetched
                 PROVE  cache[j] = [n |-> runs[j].n, whole |-> TRUE]
    BY DEF CompletedLogIsWhole
  <2>2. /\ Ended(j) /\ ledger[j].host = runs[j].host
        /\ ledger[j].finished = 2 * runs[j].n
    BY <2>1 DEF TimesInv, Dates, Latest
  <2>3. runs[j].n > lastFail[j].n
    BY <2>1, <2>2 DEF PastInv
  <2>4. runs[j].n \in Nat /\ lastFail[j].n \in Nat
    BY <2>1 DEF Typed, TypeOK, HostOK, Run
  <2>5. CacheKey(ledger[j]) = FinalKey(j)
    BY <2>2, <2>3, <2>4 DEF CacheKey, FinalKey
  <2>6. Vouched(j) /\ cache[j].n # 0
    BY <2>1, <2>5 DEF IsCached, Vouched
  <2> QED
    BY <2>1, <2>2, <2>6 DEF WholeInv, Full
<1> QED
  BY <1>a, <1>1, <1>2, <1>3, AlwaysDated, PTL DEF Spec

=============================================================================

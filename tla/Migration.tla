------------------------------ MODULE Migration -----------------------------
(***************************************************************************)
(* Legacy state files become new ones (host/migration.py): at the start of *)
(* every monitor, before anything is locked, and by the migrate command    *)
(* without --force.                                                        *)
(***************************************************************************)
EXTENDS ProcessState

filesRest == <<shared, others, had, got, budget>>

Migrated == file[MonitorState].stamped

Afterwards(role) == IF role = "monitor" THEN "check_pid" ELSE "off"

Migrating(p) == proc[p].pc \in MigrationSteps

\* is_migrated, then the first pair.  Two processes that migrate at once spoil
\* each other's copies.
StartMigration(p, role) ==
    /\ At(p, "new") /\ \A q \in Procs : q < p => ~At(q, "new")
    /\ Spend(IF role = "monitor" THEN "start" ELSE "migrate")
    /\ proc' = [proc EXCEPT ![p].role = role,
                            ![p].pc = IF Migrated THEN Afterwards(role) ELSE "examine"]
    /\ spoiled' = IF ~Migrated /\ \E q \in Procs : Migrating(q) THEN had ELSE spoiled
    /\ UNCHANGED <<files, shared, others, had, got, summaries>>

\* Fault: the last pair is forgotten.
NextPairOffByOne(p) ==
    proc' = [proc EXCEPT ![p].at = @ + 1,
                ![p].pc = IF proc[p].at + 1 < Len(Pairs) THEN "examine" ELSE "stamp_load"]

NextPair(p) ==
    proc' = [proc EXCEPT ![p].at = @ + 1,
                ![p].pc = IF proc[p].at < Len(Pairs) THEN "examine" ELSE "stamp_load"]

Current(p) == Pairs[proc[p].at]

\* No legacy file, or a new one already there: skipped.
Examine(p) ==
    /\ At(p, "examine")
    /\ IF Current(p) \in legacy /\ file[Current(p)].kind = "absent"
       THEN Goto(p, "copy")
       ELSE NextPair(p)
    /\ UNCHANGED <<files, filesRest, spoiled, summaries>>

Others(p) == {q \in open \ {p} : proc[q].at = proc[p].at}

\* shutil.copy2 opens the source, or raises, and truncates the target.
CopyStarts(p) ==
    /\ At(p, "copy")
    /\ \/ /\ Current(p) \in legacy
          /\ Put(Current(p), Torn)
          /\ open' = open \cup {p}
          /\ Goto(p, "copying")
       \/ /\ Current(p) \notin legacy
          /\ Goto(p, "off")
          /\ UNCHANGED <<file, open, summaries>>
    /\ UNCHANGED <<legacy, backup, filesRest, spoiled>>

CopyEnds(p) ==
    /\ At(p, "copying")
    /\ \/ p \in open /\ Others(p) = {} /\ Put(Current(p), Records)
       \/ ~(p \in open /\ Others(p) = {}) /\ UNCHANGED <<file, summaries>>
    /\ open' = open \ {p}
    /\ Goto(p, "rename")
    /\ UNCHANGED <<legacy, backup, filesRest, spoiled>>

\* The legacy file becomes the backup; it may have been renamed meanwhile.
Rename(p) ==
    /\ At(p, "rename")
    /\ \/ /\ Current(p) \in legacy
          /\ legacy' = legacy \ {Current(p)}
          /\ backup' = backup \cup {Current(p)}
          /\ NextPair(p)
       \/ /\ Current(p) \notin legacy
          /\ Goto(p, "off")
          /\ UNCHANGED <<legacy, backup>>
    /\ UNCHANGED <<file, open, filesRest, spoiled, summaries>>

\* _stamp_migrated_at: a load-modify-save without the state lock.
StampLoads(p) ==
    /\ At(p, "stamp_load")
    /\ proc' = [proc EXCEPT ![p].pc = "stamp_save", ![p].memo = file[MonitorState]]
    /\ UNCHANGED <<files, filesRest, spoiled, summaries>>

StampSaves(p) ==
    /\ At(p, "stamp_save")
    /\ Save(MonitorState, [Resaved(proc[p].memo) EXCEPT !.stamped = TRUE])
    /\ Goto(p, Afterwards(proc[p].role))
    /\ UNCHANGED <<legacy, backup, filesRest, spoiled>>

Migrates(p) ==
    Examine(p) \/ CopyStarts(p) \/ CopyEnds(p) \/ Rename(p) \/ StampLoads(p)
        \/ StampSaves(p)

-----------------------------------------------------------------------------
(* A command (an RPC, an operator) updates a state file under the state    *)
(* lock, which the migration does not take.                                *)

UpdateLoads(f) ==
    /\ ~update.on
    /\ Spend("update")
    /\ update' = [file |-> f, memo |-> file[f], on |-> TRUE]
    /\ UNCHANGED <<files, shared, proc, stopped, stopper, qlen, today, had,
                   spoiled, got, summaries>>

\* It knows nothing of records that were not there when it loaded the file.
UpdateSaves ==
    /\ update.on
    /\ Save(update.file, Resaved(update.memo))
    /\ spoiled' = IF update.memo.kind # "records"
                  THEN spoiled \cup (had \cap {update.file}) ELSE spoiled
    /\ update' = NoUpdate
    /\ UNCHANGED <<legacy, backup, shared, proc, stopped, stopper, qlen, today,
                   had, got, budget>>

=============================================================================

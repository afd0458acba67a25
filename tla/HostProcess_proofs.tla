------------------------- MODULE HostProcess_proofs -------------------------
(***************************************************************************)
(* Theorems of the monitor processes, for any number of processes, state   *)
(* files, mails a day and faults.                                          *)
(***************************************************************************)
EXTENDS HostProcess, TLAPS

\* A process that is at one of these has a pair to work on, the first to begin
\* with.
PairSteps == {"new", "examine", "copy", "copying", "rename"}

\* A process that works on a pair has one, and a copy in progress is one of
\* a process that copies.
PairsOK ==
    /\ \A p \in Procs : proc[p].pc \in PairSteps => proc[p].at \in 1..Len(Pairs)
    /\ \A p \in open : proc[p].pc = "copying"

Typed == TypeOK /\ PairsOK

LEMMA FilesOfPairs ==
    ASSUME ProcessAssumption
    PROVE  /\ MonitorState \in Files
           /\ \A i \in 1..Len(Pairs) : Pairs[i] \in Files
BY DEF ProcessAssumption, MonitorState

LEMMA ContentTypes ==
    ASSUME NEW c \in Content
    PROVE  /\ Absent \in Content /\ Torn \in Content /\ Records \in Content
           /\ Resaved(c) \in Content
           /\ [Resaved(c) EXCEPT !.stamped = TRUE] \in Content
           /\ \A d \in Nat : [Resaved(c) EXCEPT !.day = d] \in Content
BY DEF Content, Absent, Torn, Records, Resaved

LEMMA InitTyped == ASSUME ProcessAssumption, Init PROVE Typed
<1> USE DEF Init
<1>1. proc \in [Procs -> Process]
  BY ContentTypes DEF NotStarted, Process, Steps, MigrationSteps, StartSteps,
     OwnSteps, CycleSteps, Memory, Absent, Content
<1>2. file \in [Files -> Content] /\ update \in [file : Files, memo : Content, on : BOOLEAN]
  BY FilesOfPairs DEF NoUpdate, Absent, Content
<1>3. got \in [Procs -> Mails] /\ summaries \in Summaries
  BY DEF NoMails, Mails, Summaries, NoSummaries
<1>4. TypeOK
  BY <1>1, <1>2, <1>3 DEF TypeOK, ProcessAssumption
<1>5. PairsOK
  BY DEF PairsOK, PairSteps, NotStarted, ProcessAssumption
<1> QED
  BY <1>4, <1>5 DEF Typed

\* What becomes of the account of summaries.
LEMMA SummariesTyped ==
    ASSUME Typed,
           \/ UNCHANGED summaries
           \/ \E lost \in BOOLEAN : summaries' = Undated(lost)
           \/ summaries' = [summaries EXCEPT !.mailed = @ + 1]
    PROVE  summaries' \in Summaries
BY DEF Typed, TypeOK, Summaries, Undated

LEMMA PutTyped ==
    ASSUME Typed, NEW f \in Files, NEW c \in Content, Put(f, c)
    PROVE  file' \in [Files -> Content] /\ summaries' \in Summaries
<1>1. \E lost \in BOOLEAN : summaries' = Undated(lost)
  BY DEF Put
<1> QED
  BY <1>1, SummariesTyped DEF Put, Typed, TypeOK

LEMMA SaveTyped ==
    ASSUME Typed, NEW f \in Files, NEW c \in Content, Save(f, c)
    PROVE  /\ file' \in [Files -> Content] /\ summaries' \in Summaries
           /\ open' \subseteq open
BY PutTyped DEF Save

\* A step of one process to pc, with the rest of its record typed.
LEMMA GotoTyped ==
    ASSUME Typed, NEW p \in Procs, NEW pc \in Steps, Goto(p, pc)
    PROVE  proc' \in [Procs -> Process]
BY DEF Typed, TypeOK, Goto, Process

LEMMA NextPairTyped ==
    ASSUME ProcessAssumption, Typed, NEW p \in Procs, proc[p].pc \in PairSteps,
           NextPair(p)
    PROVE  /\ proc' \in [Procs -> Process]
           /\ proc'[p].pc \in PairSteps => proc'[p].at \in 1..Len(Pairs)
           /\ proc'[p].pc # "copying"
<1>0. proc[p].at \in 1..Len(Pairs) /\ Len(Pairs) \in Nat
  BY DEF Typed, PairsOK, ProcessAssumption
<1>1. proc[p] \in Process
  BY DEF Typed, TypeOK
<1>2. proc[p].at + 1 \in Nat /\ proc[p].at \in Nat
  <2>1. \A n \in Nat : \A k \in 1..n : k \in Nat /\ k + 1 \in Nat
    OBVIOUS
  <2> QED
    BY <1>0, <2>1
<1>3. {"examine", "stamp_load"} \subseteq Steps
  BY DEF Steps, MigrationSteps
<1> DEFINE pc == IF proc[p].at < Len(Pairs) THEN "examine" ELSE "stamp_load"
           r == [proc[p] EXCEPT !.at = @ + 1, !.pc = pc]
<1>4. r \in Process /\ r.at = proc[p].at + 1 /\ r.pc = pc
  BY <1>1, <1>2, <1>3 DEF Process
<1>5. proc' = [proc EXCEPT ![p] = r]
  BY DEF NextPair, Typed, TypeOK
<1>6. proc' \in [Procs -> Process] /\ proc'[p] = r
  BY <1>4, <1>5 DEF Typed, TypeOK
<1>8. pc \in {"examine", "stamp_load"} /\ (pc = "examine" => proc[p].at < Len(Pairs))
  OBVIOUS
<1> HIDE DEF pc, r
<1>7. pc = "examine" => r.at \in 1..Len(Pairs)
  <2>1. \A a \in 1..Len(Pairs) : a < Len(Pairs) => a + 1 \in 1..Len(Pairs)
    BY <1>0
  <2> QED
    BY <1>0, <1>4, <1>8, <2>1
<1> QED
  BY <1>4, <1>6, <1>7, <1>8 DEF PairSteps

-----------------------------------------------------------------------------
(* Types.                                                                  *)

\* A step that changes one process's record and at most its copy.
LEMMA PairsOKKept ==
    ASSUME Typed, NEW p \in Procs,
           \A q \in Procs \ {p} : proc'[q] = proc[q],
           proc'[p].pc \in PairSteps => proc'[p].at \in 1..Len(Pairs),
           open' \ {p} \subseteq open,
           p \in open' => proc'[p].pc = "copying"
    PROVE  PairsOK'
<1>1. \A q \in open' : q = p \/ q \in open
  OBVIOUS
<1>2. open \subseteq Procs
  BY DEF Typed, TypeOK
<1> QED
  BY <1>1, <1>2 DEF Typed, PairsOK

LEMMA MigrationTyped ==
    ASSUME ProcessAssumption, Typed, NEW p \in Procs, Migrates(p)
    PROVE  Typed'
<1> USE DEF Typed
<1>0. proc[p] \in Process /\ DOMAIN proc = Procs /\ proc \in [Procs -> Process]
  BY DEF TypeOK
<1>s. {"copy", "copying", "rename", "stamp_load", "stamp_save", "off", "check_pid"}
         \subseteq Steps
  BY DEF Steps, MigrationSteps, StartSteps
<1>g. ASSUME NEW pc \in Steps, Goto(p, pc)
      PROVE  proc' \in [Procs -> Process] /\ proc'[p].pc = pc /\ proc'[p].at = proc[p].at
             /\ \A q \in Procs \ {p} : proc'[q] = proc[q]
  BY <1>0, <1>g DEF Goto, Process
<1>n. ASSUME NextPair(p) PROVE \A q \in Procs \ {p} : proc'[q] = proc[q]
  BY <1>0, <1>n DEF NextPair
<1>r. ASSUME proc[p].pc \in PairSteps
      PROVE  Current(p) \in Files
  BY <1>r, FilesOfPairs DEF PairsOK, Current
<1>1. CASE Examine(p)
  <2>1. CASE Goto(p, "copy")
    <3>1. TypeOK'
      BY <1>1, <2>1, <1>g, <1>s DEF Examine, TypeOK, files, filesRest, shared, others
    <3>2. PairsOK'
      <4>1. proc'[p].at \in 1..Len(Pairs) /\ open' = open /\ p \notin open
        BY <1>1, <2>1, <1>g, <1>s DEF Examine, PairsOK, PairSteps, files, At
      <4> QED
        BY <4>1, <2>1, <1>g, <1>s, PairsOKKept
    <3> QED
      BY <3>1, <3>2
  <2>2. CASE NextPair(p)
    <3>1. TypeOK'
      BY <1>1, <2>2, NextPairTyped DEF Examine, TypeOK, files, filesRest, shared,
         others, At, PairSteps
    <3>2. PairsOK'
      <4>1. open' = open /\ p \notin open /\ proc[p].pc \in PairSteps
        BY <1>1 DEF Examine, PairsOK, PairSteps, files, At
      <4> QED
        BY <4>1, <2>2, <1>n, NextPairTyped, PairsOKKept
    <3> QED
      BY <3>1, <3>2
  <2> QED
    BY <1>1, <2>1, <2>2 DEF Examine
<1>2. CASE CopyStarts(p)
  <2>0. Current(p) \in Files
    BY <1>2, <1>r DEF CopyStarts, At, PairSteps
  <2>1. CASE Goto(p, "copying") /\ open' = open \cup {p} /\ Put(Current(p), Torn)
    <3>1. TypeOK'
      <4>1. Torn \in Content
        BY DEF Torn, Absent, Content
      <4>2. /\ file' \in [Files -> Content] /\ open' \subseteq Procs
            /\ summaries' \in Summaries
        BY <2>0, <2>1, <4>1, PutTyped DEF TypeOK
      <4>3. proc' \in [Procs -> Process]
        BY <2>1, <1>g, <1>s
      <4> QED
        BY <1>2, <4>2, <4>3 DEF CopyStarts, TypeOK, filesRest, shared, others
    <3>2. PairsOK'
      <4>1. proc'[p].at \in 1..Len(Pairs) /\ proc'[p].pc = "copying"
        BY <1>2, <2>1, <1>g, <1>s DEF CopyStarts, PairsOK, PairSteps, At
      <4> QED
        BY <4>1, <2>1, <1>g, <1>s, PairsOKKept
    <3> QED
      BY <3>1, <3>2
  <2>2. CASE Goto(p, "off") /\ UNCHANGED <<file, open, summaries>>
    <3>1. TypeOK'
      BY <1>2, <2>2, <1>g, <1>s DEF CopyStarts, TypeOK, filesRest, shared, others
    <3>2. PairsOK'
      <4>1. proc'[p].pc = "off" /\ open' = open /\ p \notin open
        BY <1>2, <2>2, <1>g, <1>s DEF CopyStarts, PairsOK, At
      <4> QED
        BY <4>1, <2>2, <1>g, <1>s, PairsOKKept DEF PairSteps
    <3> QED
      BY <3>1, <3>2
  <2> QED
    BY <1>2, <2>1, <2>2 DEF CopyStarts
<1>3. CASE CopyEnds(p)
  <2>0. Current(p) \in Files
    BY <1>3, <1>r DEF CopyEnds, At, PairSteps
  <2>1. file' \in [Files -> Content] /\ summaries' \in Summaries
    <3>1. Records \in Content
      BY DEF Records, Absent, Content
    <3> QED
      BY <1>3, <2>0, <3>1, PutTyped DEF CopyEnds, TypeOK
  <2>2. TypeOK'
    BY <1>3, <2>1, <1>g, <1>s DEF CopyEnds, TypeOK, filesRest, shared, others
  <2>3. PairsOK'
    BY <1>3, <1>g, <1>s DEF CopyEnds, PairsOK, PairSteps, At, TypeOK
  <2> QED
    BY <2>2, <2>3
<1>4. CASE Rename(p)
  <2>0. Current(p) \in Files /\ p \notin open
    BY <1>4, <1>r DEF Rename, At, PairSteps, PairsOK
  <2>1. CASE NextPair(p) /\ legacy' = legacy \ {Current(p)} /\ backup' = backup \cup {Current(p)}
    <3>1. TypeOK'
      BY <1>4, <2>0, <2>1, NextPairTyped DEF Rename, TypeOK, filesRest, shared,
         others, At, PairSteps
    <3>2. PairsOK'
      BY <1>4, <2>0, <2>1, NextPairTyped, <1>n DEF Rename, PairsOK, PairSteps, At, TypeOK
    <3> QED
      BY <3>1, <3>2
  <2>2. CASE Goto(p, "off") /\ UNCHANGED <<legacy, backup>>
    <3>1. TypeOK'
      BY <1>4, <2>2, <1>g, <1>s DEF Rename, TypeOK, filesRest, shared, others
    <3>2. PairsOK'
      BY <1>4, <2>0, <2>2, <1>g, <1>s DEF Rename, PairsOK, PairSteps, At, TypeOK
    <3> QED
      BY <3>1, <3>2
  <2> QED
    BY <1>4, <2>1, <2>2 DEF Rename
<1>5. CASE StampLoads(p)
  <2>1. file[MonitorState] \in Content
    BY FilesOfPairs DEF TypeOK
  <2>2. proc' \in [Procs -> Process] /\ proc'[p].pc = "stamp_save"
        /\ \A q \in Procs \ {p} : proc'[q] = proc[q]
    BY <1>5, <1>0, <1>s, <2>1 DEF StampLoads, Process
  <2>3. TypeOK'
    BY <1>5, <2>2 DEF StampLoads, TypeOK, files, filesRest, shared, others
  <2>4. PairsOK'
    BY <1>5, <2>2 DEF StampLoads, PairsOK, PairSteps, files, At, TypeOK
  <2> QED
    BY <2>3, <2>4
<1>6. CASE StampSaves(p)
  <2>0. proc[p].memo \in Content
    BY <1>0 DEF Process
  <2>1. /\ file' \in [Files -> Content] /\ open' \subseteq open
        /\ summaries' \in Summaries
    BY <1>6, <2>0, ContentTypes, FilesOfPairs, SaveTyped DEF StampSaves
  <2>2. Afterwards(proc[p].role) \in Steps \ (PairSteps \cup {"copying"})
    BY <1>s DEF Afterwards, PairSteps
  <2>3. TypeOK'
    BY <1>6, <2>1, <2>2, <1>g DEF StampSaves, TypeOK, filesRest, shared, others
  <2>4. PairsOK'
    <3>1. proc'[p].pc \notin PairSteps /\ p \notin open
      BY <1>6, <2>2, <1>g DEF StampSaves, PairsOK, At
    <3>2. \A q \in Procs \ {p} : proc'[q] = proc[q]
      BY <1>6, <2>2, <1>g DEF StampSaves
    <3> QED
      BY <3>1, <3>2, <2>1, PairsOKKept
  <2> QED
    BY <2>3, <2>4
<1> QED
  BY <1>1, <1>2, <1>3, <1>4, <1>5, <1>6 DEF Migrates

\* A step that changes one process's record, and keeps the process off copies.
LEMMA OneProcess ==
    ASSUME Typed, NEW p \in Procs, NEW r \in Process,
           proc' = [proc EXCEPT ![p] = r], r.pc \notin PairSteps,
           open' \subseteq open, p \notin open
    PROVE  proc' \in [Procs -> Process] /\ PairsOK'
<1>1. proc' \in [Procs -> Process] /\ proc'[p] = r
      /\ \A q \in Procs \ {p} : proc'[q] = proc[q]
  BY DEF Typed, TypeOK
<1>2. open \subseteq Procs
  BY DEF Typed, TypeOK
<1> QED
  BY <1>1, <1>2 DEF Typed, PairsOK

LEMMA NotCopying ==
    ASSUME Typed, NEW p \in Procs, proc[p].pc # "copying" PROVE p \notin open
BY DEF Typed, PairsOK

LEMMA OutcomeTypes ==
    ASSUME ProcessAssumption, Typed, NEW m \in Memory,
           NEW kind \in {"fails", "hosts", "low", "empty", "summaries"},
           NEW o \in Outcomes(m, kind) \cup {NoMail(m)}
    PROVE  o.mem \in Memory /\ o.ok \in BOOLEAN /\ o.told \in BOOLEAN
<1>1. today \in Nat
  BY DEF Typed, TypeOK
<1>2. NewDaySeen(m) \in Memory
  BY <1>1 DEF NewDaySeen, Memory
<1>3. Counted(NewDaySeen(m), kind) \in Memory
  <2> DEFINE n == NewDaySeen(m)
             c == n.cooling \/ kind = "fails"
  <2>1. c \in BOOLEAN /\ n.sent + 1 \in Nat
    BY <1>2 DEF Memory
  <2>2. Counted(n, kind) = [n EXCEPT !.sent = n.sent + 1, !.cooling = c]
    BY DEF Counted
  <2>3. n \in Memory
    BY <1>2
  <2> HIDE DEF n, c
  <2>4. [n EXCEPT !.sent = n.sent + 1, !.cooling = c] \in Memory
    BY <2>1, <2>3 DEF Memory
  <2> QED
    BY <2>2, <2>4 DEF n
<1>4. CASE o = NoMail(m)
  BY <1>4 DEF NoMail
<1>5. CASE o = [mem |-> NewDaySeen(m), ok |-> TRUE, told |-> FALSE]
  BY <1>2, <1>5
<1>6. CASE o = [mem |-> NewDaySeen(m), ok |-> FALSE, told |-> FALSE]
  BY <1>2, <1>6
<1>7. CASE o = [mem |-> Counted(NewDaySeen(m), kind), ok |-> TRUE, told |-> TRUE]
  BY <1>3, <1>7
<1> QED
  BY <1>4, <1>5, <1>6, <1>7 DEF Outcomes

LEMMA ToldType ==
    ASSUME NEW g \in Mails,
           NEW kind \in {"fails", "hosts", "low", "empty", "summaries"}
    PROVE  Told(g, kind) \in Mails
BY DEF Told, Mails, Accounts

LEMMA MailedTyped ==
    ASSUME Typed, NEW p \in Procs, NEW mem \in Memory, NEW g \in Mails,
           NEW kind \in {"fails", "hosts", "low", "empty", "summaries"},
           NEW o, NEW pc \in CycleSteps, Mailed(p, kind, o, mem, g, pc),
           open' = open, proc[p].pc # "copying"
    PROVE  /\ proc' \in [Procs -> Process] /\ PairsOK'
           /\ got' \in [Procs -> Mails] /\ summaries' \in Summaries
           /\ \E r \in Process : r.pc = pc /\ proc' = [proc EXCEPT ![p] = r]
<1> DEFINE r == [proc[p] EXCEPT !.mem = mem, !.pc = pc]
<1>1. pc \in Steps /\ pc \notin PairSteps
  BY DEF Steps, OwnSteps, CycleSteps, PairSteps
<1>2. r \in Process /\ r.pc = pc
  BY <1>1 DEF Typed, TypeOK, Process
<1>3. proc' = [proc EXCEPT ![p] = r]
  BY DEF Mailed, Typed, TypeOK
<1>4. p \notin open
  BY NotCopying
<1> HIDE DEF r
<1>5. proc' \in [Procs -> Process] /\ PairsOK'
  BY <1>1, <1>2, <1>3, <1>4, OneProcess
<1>6. got' \in [Procs -> Mails] /\ summaries' \in Summaries
  BY ToldType, SummariesTyped DEF Mailed, Typed, TypeOK
<1> QED
  BY <1>2, <1>3, <1>5, <1>6

LEMMA BudgetTyped ==
    ASSUME Typed, NEW kind \in Kinds, Spend(kind)
    PROVE  budget' \in [Kinds -> Nat]
BY DEF Typed, TypeOK, Spend

LEMMA AlertsTyped ==
    ASSUME ProcessAssumption, Typed, NEW p \in Procs, Alerts(p)
    PROVE  Typed'
<1> DEFINE m == proc[p].mem
<1>0. /\ proc \in [Procs -> Process] /\ proc[p] \in Process /\ m \in Memory
      /\ got[p] \in Mails /\ qlen \in Nat /\ today \in Nat
  BY DEF Typed, TypeOK, Process
<1>c. {"low", "empty", "summary", "loop", "day_load", "day_save", "fails"} \subseteq CycleSteps
  BY DEF CycleSteps
<1>s. CycleSteps \subseteq Steps /\ CycleSteps \cap PairSteps = {}
  BY DEF CycleSteps, OwnSteps, Steps, PairSteps
<1>m. SUFFICES ASSUME proc[p].pc \in {"fails", "low", "empty", "summary", "load_day",
                                      "day_load", "day_save"}
               PROVE  Typed'
  BY DEF Alerts, FailsMail, LowMail, EmptyMail, SummaryMail, LoadDay, DayLoads, DaySaves, At
<1>o. p \notin open
  BY <1>m, NotCopying
<1>1. CASE FailsMail(p)
  <2>1. CASE Goto(p, "low") /\ UNCHANGED <<got, summaries, budget>>
    <3> DEFINE r == [proc[p] EXCEPT !.pc = "low"]
    <3>1. r \in Process /\ r.pc \notin PairSteps /\ proc' = [proc EXCEPT ![p] = r]
      BY <1>0, <1>c, <1>s, <2>1 DEF Goto, Process
    <3>2. open' = open
      BY <1>1 DEF FailsMail
    <3> HIDE DEF r
    <3>3. proc' \in [Procs -> Process] /\ PairsOK'
      BY <3>1, <3>2, <1>o, OneProcess
    <3> QED
      BY <1>1, <2>1, <3>3 DEF FailsMail, Typed, TypeOK, alertsRest, shared, others
  <2>2. CASE Spend("failures") /\ \E kind \in {"fails", "hosts"} :
                \E o \in Outcomes(m, kind) : Mailed(p, kind, o, o.mem, got[p], "fails")
    <3>1. PICK kind \in {"fails", "hosts"} : \E o \in Outcomes(m, kind) :
                Mailed(p, kind, o, o.mem, got[p], "fails")
      BY <2>2
    <3>2. PICK o \in Outcomes(m, kind) : Mailed(p, kind, o, o.mem, got[p], "fails")
      BY <3>1
    <3>3. o.mem \in Memory
      BY <1>0, OutcomeTypes
    <3>4. proc' \in [Procs -> Process] /\ PairsOK' /\ got' \in [Procs -> Mails]
          /\ summaries' \in Summaries
      BY <1>0, <1>1, <1>c, <1>m, <3>2, <3>3, MailedTyped DEF FailsMail
    <3>5. budget' \in [Kinds -> Nat]
      BY <2>2, BudgetTyped DEF Kinds
    <3> QED
      BY <1>1, <3>4, <3>5 DEF FailsMail, Typed, TypeOK, alertsRest, shared, others
  <2> QED
    BY <1>1, <2>1, <2>2 DEF FailsMail
<1>2. CASE LowMail(p)
  <2> DEFINE n == [LatchesReset(m, qlen) EXCEPT !.len = qlen]
             wanted == 0 < qlen /\ qlen < Healthy /\ ~n.low
  <2>1. PICK o \in IF wanted THEN Outcomes(n, "low") ELSE {NoMail(n)} :
              Mailed(p, "low", o, [o.mem EXCEPT !.low = @ \/ o.ok],
                     SeenHealthy(got[p]), "empty")
    BY <1>2 DEF LowMail
  <2>2. n \in Memory
    BY <1>0 DEF LatchesReset, Memory
  <2>3. o \in Outcomes(n, "low") \cup {NoMail(n)}
    BY <2>1
  <2> HIDE DEF n, wanted
  <2>4. o.mem \in Memory /\ o.ok \in BOOLEAN
    BY <2>2, <2>3, OutcomeTypes
  <2>5. [o.mem EXCEPT !.low = @ \/ o.ok] \in Memory
    BY <2>4 DEF Memory
  <2>6. SeenHealthy(got[p]) \in Mails
    BY <1>0 DEF SeenHealthy, Mails
  <2>7. /\ proc' \in [Procs -> Process] /\ PairsOK' /\ got' \in [Procs -> Mails]
        /\ summaries' \in Summaries
    BY <1>2, <1>c, <1>m, <2>1, <2>5, <2>6, MailedTyped DEF LowMail
  <2> QED
    BY <1>2, <2>7 DEF LowMail, Typed, TypeOK, alertsRest, shared, others
<1>3. CASE EmptyMail(p)
  <2>1. PICK o \in IF m.len = 0 /\ ~m.empty THEN Outcomes(m, "empty") ELSE {NoMail(m)} :
              Mailed(p, "empty", o,
                     [o.mem EXCEPT !.low = @ \/ o.ok, !.empty = @ \/ o.ok],
                     got[p], "summary")
    BY <1>3 DEF EmptyMail
  <2>3. o \in Outcomes(m, "empty") \cup {NoMail(m)}
    BY <2>1
  <2>4. o.mem \in Memory /\ o.ok \in BOOLEAN
    BY <1>0, <2>3, OutcomeTypes
  <2>5. [o.mem EXCEPT !.low = @ \/ o.ok, !.empty = @ \/ o.ok] \in Memory
    BY <2>4 DEF Memory
  <2>7. /\ proc' \in [Procs -> Process] /\ PairsOK' /\ got' \in [Procs -> Mails]
        /\ summaries' \in Summaries
    BY <1>0, <1>3, <1>c, <1>m, <2>1, <2>5, MailedTyped DEF EmptyMail
  <2> QED
    BY <1>3, <2>7 DEF EmptyMail, Typed, TypeOK, alertsRest, shared, others
<1>4. CASE SummaryMail(p)
  <2>1. PICK o \in IF m.last # today THEN Outcomes(m, "summaries") ELSE {NoMail(m)} :
              Mailed(p, "summaries", o,
                     IF o.ok THEN [o.mem EXCEPT !.last = today] ELSE o.mem,
                     got[p], IF o.ok THEN "day_load" ELSE "loop")
    BY <1>4 DEF SummaryMail
  <2>3. o \in Outcomes(m, "summaries") \cup {NoMail(m)}
    BY <2>1
  <2>4. o.mem \in Memory
    BY <1>0, <2>3, OutcomeTypes
  <2>5. (IF o.ok THEN [o.mem EXCEPT !.last = today] ELSE o.mem) \in Memory
    BY <1>0, <2>4 DEF Memory
  <2>7. /\ proc' \in [Procs -> Process] /\ PairsOK' /\ got' \in [Procs -> Mails]
        /\ summaries' \in Summaries
    BY <1>0, <1>4, <1>c, <1>m, <2>1, <2>5, MailedTyped DEF SummaryMail
  <2> QED
    BY <1>4, <2>7 DEF SummaryMail, Typed, TypeOK, alertsRest, shared, others
<1>5. CASE LoadDay(p)
  <2> DEFINE day == file[MonitorState].day
             mem == [m EXCEPT !.day = today, !.last = IF day = 0 THEN today ELSE day]
             r == [proc[p] EXCEPT !.mem = mem,
                                  !.pc = IF day = 0 THEN "day_load" ELSE "loop"]
  <2>1. day \in Nat
    BY FilesOfPairs DEF Typed, TypeOK, Content
  <2>2. mem \in Memory
    BY <1>0, <2>1 DEF Memory
  <2>3. proc' = [proc EXCEPT ![p] = r]
    BY <1>5, <1>0, ZenonT(60) DEF LoadDay, Process, Memory
  <2>4. r \in Process /\ r.pc \notin PairSteps
    BY <1>0, <1>c, <1>s, <2>2 DEF Process
  <2>5. open' = open
    BY <1>5 DEF LoadDay
  <2> HIDE DEF r, mem, day
  <2>6. proc' \in [Procs -> Process] /\ PairsOK'
    BY <1>o, <2>3, <2>4, <2>5, OneProcess
  <2> QED
    BY <1>5, <2>6 DEF LoadDay, Typed, TypeOK, alertsRest, shared, others
<1>6. CASE DayLoads(p)
  <2> DEFINE r == [proc[p] EXCEPT !.pc = "day_save", !.memo = file[MonitorState]]
  <2>1. file[MonitorState] \in Content
    BY FilesOfPairs DEF Typed, TypeOK
  <2>2. r \in Process /\ r.pc \notin PairSteps /\ proc' = [proc EXCEPT ![p] = r]
    BY <1>0, <1>6, <1>c, <1>s, <2>1 DEF DayLoads, Process
  <2>3. open' = open
    BY <1>6 DEF DayLoads
  <2> HIDE DEF r
  <2>4. proc' \in [Procs -> Process] /\ PairsOK'
    BY <1>o, <2>2, <2>3, OneProcess
  <2> QED
    BY <1>6, <2>4 DEF DayLoads, Typed, TypeOK, alertsRest, shared, others
<1>7. CASE DaySaves(p)
  <2> DEFINE r == [proc[p] EXCEPT !.pc = "loop"]
  <2>1. [Resaved(proc[p].memo) EXCEPT !.day = proc[p].mem.last] \in Content
    BY <1>0, ContentTypes DEF Process, Memory
  <2>2. /\ file' \in [Files -> Content] /\ open' \subseteq open
        /\ summaries' \in Summaries
    BY <1>7, <2>1, FilesOfPairs, SaveTyped DEF DaySaves
  <2>3. r \in Process /\ r.pc \notin PairSteps /\ proc' = [proc EXCEPT ![p] = r]
    BY <1>0, <1>7, <1>c, <1>s DEF DaySaves, Goto, Process
  <2> HIDE DEF r
  <2>4. proc' \in [Procs -> Process] /\ PairsOK'
    BY <1>o, <2>2, <2>3, OneProcess
  <2> QED
    BY <1>7, <2>2, <2>4 DEF DaySaves, Typed, TypeOK, alertsRest, shared, others
<1> QED
  BY <1>1, <1>2, <1>3, <1>4, <1>5, <1>6, <1>7 DEF Alerts

\* A step of a process from where it copies nothing to a place in StartSteps,
\* Holding or off.
LEMMA MovesTyped ==
    ASSUME Typed, NEW p \in Procs, NEW pc \in Steps \ PairSteps, Goto(p, pc),
           proc[p].pc # "copying", open' = open
    PROVE  proc' \in [Procs -> Process] /\ PairsOK'
<1> DEFINE r == [proc[p] EXCEPT !.pc = pc]
<1>1. r \in Process /\ r.pc = pc /\ proc' = [proc EXCEPT ![p] = r]
  BY DEF Goto, Typed, TypeOK, Process
<1> HIDE DEF r
<1> QED
  BY <1>1, NotCopying, OneProcess

LEMMA StepNames ==
    /\ {"off", "unlink", "lock", "pid_open", "pid_write", "load_config",
        "load_day", "clean", "unlock", "fails", "read", "check_pid"}
           \subseteq Steps \ PairSteps
    /\ "examine" \in Steps
BY DEF Steps, MigrationSteps, StartSteps, OwnSteps, CycleSteps, PairSteps

\* The steps of starting and ending, and of reading the configuration.
Starts(p) == CheckPid(p) \/ Unlink(p) \/ Lock(p) \/ PidOpens(p) \/ PidWrites(p)
                \/ Cleans(p) \/ Unlocks(p)
Configures(p) == LoadConfig(p) \/ Stat(p) \/ Read(p)

LEMMA StartsTyped ==
    ASSUME ProcessAssumption, Typed, NEW p \in Procs, Starts(p)
    PROVE  Typed'
<1>1. /\ \E pc \in Steps \ PairSteps : Goto(p, pc)
      /\ proc[p].pc # "copying"
      /\ open' = open
  BY StepNames DEF Starts, CheckPid, Unlink, Lock, PidOpens, PidWrites, Cleans,
     Unlocks, At, processRest, files
<1>2. proc' \in [Procs -> Process] /\ PairsOK'
  BY <1>1, MovesTyped
<1>3. /\ lock' \in Procs \cup {NoProc}
      /\ pidfile' \in Procs \cup {NoProc, Unwritten}
      /\ config' = config /\ UNCHANGED processRest
  BY DEF Starts, CheckPid, Unlink, Lock, PidOpens, PidWrites, Cleans, Unlocks,
     shared, Typed, TypeOK
<1> QED
  BY <1>2, <1>3 DEF Typed, TypeOK, processRest, files, others

LEMMA ConfiguresTyped ==
    ASSUME ProcessAssumption, Typed, NEW p \in Procs, Configures(p)
    PROVE  Typed'
<1>0. /\ proc \in [Procs -> Process] /\ proc[p] \in Process
      /\ config.ver \in Nat /\ Stamp \in Nat
  BY DEF Typed, TypeOK, Process, Stamp
<1>1. proc[p].pc # "copying" /\ UNCHANGED <<shared, processRest>>
  BY DEF Configures, LoadConfig, Stat, Read, At
<1>2. \E r \in Process : proc' = [proc EXCEPT ![p] = r] /\ r.pc \notin PairSteps
  <2>1. CASE LoadConfig(p)
    <3>1. CASE Goto(p, "clean")
      <4> DEFINE r == [proc[p] EXCEPT !.pc = "clean"]
      <4>1. r \in Process /\ r.pc \notin PairSteps
        BY <1>0, StepNames DEF Process
      <4>2. proc' = [proc EXCEPT ![p] = r]
        BY <3>1, <1>0 DEF Goto, Process
      <4> QED
        BY <4>1, <4>2
    <3>2. CASE config.holds # "bad" /\ proc' = [proc EXCEPT
                ![p].pc = "load_day",
                ![p].map = IF config.holds = "good" THEN config.ver ELSE 0,
                ![p].mark = Stamp]
      <4> DEFINE r == [proc[p] EXCEPT !.pc = "load_day",
                          !.map = IF config.holds = "good" THEN config.ver ELSE 0,
                          !.mark = Stamp]
      <4>1. r \in Process /\ r.pc \notin PairSteps
        BY <1>0, StepNames DEF Process
      <4>2. proc' = [proc EXCEPT ![p] = r]
        BY <3>2, <1>0 DEF Process
      <4> QED
        BY <4>1, <4>2
    <3> QED
      BY <2>1, <3>1, <3>2 DEF LoadConfig
  <2>2. CASE Stat(p)
    <3>1. CASE Goto(p, "clean")
      <4> DEFINE r == [proc[p] EXCEPT !.pc = "clean"]
      <4>1. r \in Process /\ r.pc \notin PairSteps
        BY <1>0, StepNames DEF Process
      <4>2. proc' = [proc EXCEPT ![p] = r]
        BY <3>1, <1>0 DEF Goto, Process
      <4> QED
        BY <4>1, <4>2
    <3>2. CASE proc' = [proc EXCEPT ![p].mark = Stamp, ![p].pc = "fails"]
      <4> DEFINE r == [proc[p] EXCEPT !.mark = Stamp, !.pc = "fails"]
      <4>1. r \in Process /\ r.pc \notin PairSteps
        BY <1>0, StepNames DEF Process
      <4>2. proc' = [proc EXCEPT ![p] = r]
        BY <3>2, <1>0 DEF Process
      <4> QED
        BY <4>1, <4>2
    <3>3. CASE proc' = [proc EXCEPT ![p].stat = Stamp, ![p].pc = "read"]
      <4> DEFINE r == [proc[p] EXCEPT !.stat = Stamp, !.pc = "read"]
      <4>1. r \in Process /\ r.pc \notin PairSteps
        BY <1>0, StepNames DEF Process
      <4>2. proc' = [proc EXCEPT ![p] = r]
        BY <3>3, <1>0 DEF Process
      <4> QED
        BY <4>1, <4>2
    <3> QED
      BY <2>2, <3>1, <3>2, <3>3 DEF Stat
  <2>3. CASE Read(p)
    <3> DEFINE r == [proc[p] EXCEPT !.pc = "fails", !.mark = proc[p].stat, !.stat = 0,
                        !.map = IF config.holds = "good" THEN config.ver ELSE @]
    <3>1. r \in Process /\ r.pc \notin PairSteps
      BY <1>0, StepNames DEF Process
    <3>2. proc' = [proc EXCEPT ![p] = r]
      BY <2>3, <1>0 DEF Read, Process
    <3> QED
      BY <3>1, <3>2
  <2> QED
    BY <2>1, <2>2, <2>3 DEF Configures
<1>3. proc' \in [Procs -> Process] /\ PairsOK'
  BY <1>1, <1>2, NotCopying, OneProcess DEF processRest, files
<1> QED
  BY <1>1, <1>3 DEF Typed, TypeOK, processRest, files, others, shared

LEMMA StartMigrationTyped ==
    ASSUME ProcessAssumption, Typed, NEW p \in Procs, NEW role \in {"monitor", "migrate"},
           StartMigration(p, role)
    PROVE  Typed'
<1> DEFINE pc == IF Migrated THEN Afterwards(role) ELSE "examine"
           r == [proc[p] EXCEPT !.role = role, !.pc = pc]
<1>1. pc \in Steps \ {"copy", "copying", "rename"}
  BY StepNames DEF Afterwards, PairSteps
<1>2. proc \in [Procs -> Process] /\ proc[p] \in Process /\ p \notin open
  BY DEF StartMigration, At, Typed, TypeOK, PairsOK
<1>3. r \in Process /\ proc' = [proc EXCEPT ![p] = r]
  BY <1>1, <1>2 DEF StartMigration, Process
<1>4. r.pc = pc /\ r.at = proc[p].at /\ proc[p].at \in 1..Len(Pairs)
  BY <1>2, <1>3 DEF StartMigration, At, Typed, PairsOK, PairSteps, Process
<1> HIDE DEF pc, r
<1>5. proc' \in [Procs -> Process] /\ proc'[p] = r
      /\ \A q \in Procs \ {p} : proc'[q] = proc[q]
  BY <1>2, <1>3
<1>6. UNCHANGED <<files, shared, others, had, got, summaries>> /\ spoiled' \subseteq Files
  BY DEF StartMigration, Typed, TypeOK
<1>7. PairsOK'
  BY <1>2, <1>4, <1>5, <1>6, PairsOKKept DEF files
<1>8. budget' \in [Kinds -> Nat]
  BY BudgetTyped DEF StartMigration, Kinds
<1> QED
  BY <1>5, <1>6, <1>7, <1>8 DEF Typed, TypeOK, files, shared, others

LEMMA EndsTyped ==
    ASSUME ProcessAssumption, Typed, NEW p \in Procs,
           LoopFails(p) \/ Die(p) \/ CoolingEnds(p)
    PROVE  Typed'
<1>0. proc \in [Procs -> Process] /\ proc[p] \in Process /\ open \subseteq Procs
  BY DEF Typed, TypeOK
<1>1. CASE LoopFails(p)
  <2>1. proc' \in [Procs -> Process] /\ PairsOK'
    BY <1>1, StepNames, MovesTyped DEF LoopFails, CycleSteps, files
  <2>2. budget' \in [Kinds -> Nat]
    BY <1>1, BudgetTyped DEF LoopFails, Kinds
  <2>3. summaries' \in Summaries
    BY <1>1, SummariesTyped DEF LoopFails, Unsaved
  <2> QED
    BY <1>1, <2>1, <2>2, <2>3 DEF LoopFails, Typed, TypeOK, files, shared, others
<1>2. CASE Die(p)
  <2> DEFINE r == [proc[p] EXCEPT !.pc = "off"]
  <2>1. r \in Process /\ r.pc \notin PairSteps /\ proc' = [proc EXCEPT ![p] = r]
    BY <1>0, <1>2, StepNames DEF Die, Goto, Process
  <2> HIDE DEF r
  <2>2. /\ proc' \in [Procs -> Process] /\ proc'[p].pc \notin PairSteps
        /\ \A q \in Procs \ {p} : proc'[q] = proc[q]
    BY <1>0, <2>1
  <2>3. open' = open \ {p}
    BY <1>2 DEF Die
  <2>4. PairsOK'
    BY <2>2, <2>3, PairsOKKept
  <2>5. budget' \in [Kinds -> Nat]
    BY <1>2, BudgetTyped DEF Die, Kinds
  <2>6. spoiled' \subseteq Files /\ lock' \in Procs \cup {NoProc}
    BY <1>2 DEF Die, Typed, TypeOK
  <2>7. summaries' \in Summaries
    BY <1>2, SummariesTyped DEF Die, Unsaved
  <2> QED
    BY <1>2, <2>2, <2>3, <2>4, <2>5, <2>6, <2>7 DEF Die, Typed, TypeOK, others
<1>3. CASE CoolingEnds(p)
  <2> DEFINE r == [proc[p] EXCEPT !.mem.cooling = FALSE]
  <2>1. r \in Process /\ r.pc = proc[p].pc /\ r.at = proc[p].at
        /\ proc' = [proc EXCEPT ![p] = r]
    BY <1>0, <1>3 DEF CoolingEnds, Process, Memory
  <2> HIDE DEF r
  <2>2. proc' \in [Procs -> Process] /\ proc'[p] = r
        /\ \A q \in Procs \ {p} : proc'[q] = proc[q]
    BY <1>0, <2>1
  <2>3. PairsOK'
    BY <1>3, <2>1, <2>2, PairsOKKept DEF CoolingEnds, Typed, PairsOK
  <2>4. got' \in [Procs -> Mails]
    BY <1>3 DEF CoolingEnds, Typed, TypeOK, Mails, Accounts
  <2> QED
    BY <1>3, <2>2, <2>3, <2>4 DEF CoolingEnds, Typed, TypeOK, alertsRest, shared, others
<1> QED
  BY <1>1, <1>2, <1>3

LEMMA HappensTyped ==
    ASSUME ProcessAssumption, Typed, Happens
    PROVE  Typed'
<1>1. CASE EditConfig
  <2>1. budget' \in [Kinds -> Nat]
    BY <1>1, BudgetTyped DEF EditConfig, Kinds
  <2>2. config' \in [ver : Nat, holds : {"good", "bad", "absent"}]
    BY <1>1 DEF EditConfig, Typed, TypeOK
  <2> QED
    BY <1>1, <2>1, <2>2 DEF EditConfig, Typed, TypeOK, PairsOK, files, others
<1>2. CASE StopReads
  <2>1. budget' \in [Kinds -> Nat]
    BY <1>2, BudgetTyped DEF StopReads, Kinds
  <2> QED
    BY <1>2, <2>1 DEF StopReads, Typed, TypeOK, PairsOK, files, shared
<1>3. CASE StopActs
  <2>1. /\ stopped' \subseteq Procs /\ pidfile' \in Procs \cup {NoProc, Unwritten}
        /\ stopper' = NoProc
    BY <1>3 DEF StopActs, Alive, Typed, TypeOK
  <2> QED
    BY <1>3, <2>1 DEF StopActs, Typed, TypeOK, PairsOK, files
<1>4. CASE UpdateSaves
  <2>1. Resaved(update.memo) \in Content /\ update.file \in Files
    BY ContentTypes DEF Typed, TypeOK
  <2>2. /\ file' \in [Files -> Content] /\ open' \subseteq open
        /\ summaries' \in Summaries
    BY <1>4, <2>1, SaveTyped DEF UpdateSaves
  <2>3. PairsOK' /\ open' \subseteq Procs
    BY <1>4, <2>2 DEF UpdateSaves, Typed, TypeOK, PairsOK
  <2>4. update' \in [file : Files, memo : Content, on : BOOLEAN]
    BY <1>4, FilesOfPairs DEF UpdateSaves, NoUpdate, Absent, Content
  <2>5. spoiled' \subseteq Files
    BY <1>4 DEF UpdateSaves, Typed, TypeOK
  <2> QED
    BY <1>4, <2>2, <2>3, <2>4, <2>5 DEF UpdateSaves, Typed, TypeOK, shared
<1>5. CASE \E f \in Files : UpdateLoads(f)
  <2>1. PICK f \in Files : UpdateLoads(f)
    BY <1>5
  <2>2. budget' \in [Kinds -> Nat]
    BY <2>1, BudgetTyped DEF UpdateLoads, Kinds
  <2>3. update' \in [file : Files, memo : Content, on : BOOLEAN]
    BY <2>1 DEF UpdateLoads, Typed, TypeOK
  <2> QED
    BY <2>1, <2>2, <2>3 DEF UpdateLoads, Typed, TypeOK, PairsOK, files, shared
<1>6. CASE QueueChanges
  <2>1. budget' \in [Kinds -> Nat]
    BY <1>6, BudgetTyped DEF QueueChanges, Kinds
  <2>2. qlen' \in Nat
    BY <1>6 DEF QueueChanges, ProcessAssumption
  <2> QED
    BY <1>6, <2>1, <2>2 DEF QueueChanges, Typed, TypeOK, PairsOK, files, shared
<1>7. CASE NewDay
  <2>1. budget' \in [Kinds -> Nat]
    BY <1>7, BudgetTyped DEF NewDay, Kinds
  <2>2. got' \in [Procs -> Mails] /\ today' \in Nat
    <3> DEFINE F(g) == [g EXCEPT !.today = 0, !.summaries = 0,
                                 !.nights = IF g.fails > 0 THEN @ + 1 ELSE 0]
    <3>1. ASSUME NEW g \in Mails PROVE F(g) \in Mails
      <4> DEFINE n == IF g.fails > 0 THEN g.nights + 1 ELSE 0
      <4>1. n \in Nat
        BY DEF Mails, Accounts
      <4>2. F(g) = [g EXCEPT !.today = 0, !.summaries = 0, !.nights = n]
        OBVIOUS
      <4> HIDE DEF n
      <4>3. [g EXCEPT !.today = 0, !.summaries = 0, !.nights = n] \in Mails
        BY <4>1 DEF Mails
      <4> QED
        BY <4>2, <4>3
    <3>2. got' = [p \in Procs |-> F(got[p])] /\ got \in [Procs -> Mails]
      BY <1>7 DEF NewDay, Typed, TypeOK
    <3> HIDE DEF F
    <3>3. today \in Nat /\ today' = today + 1
      BY <1>7 DEF NewDay, Typed, TypeOK
    <3> QED
      BY <3>1, <3>2, <3>3
  <2>3. summaries' \in Summaries
    BY <1>7 DEF NewDay, NoSummaries, Summaries
  <2> QED
    BY <1>7, <2>1, <2>2, <2>3 DEF NewDay, Typed, TypeOK, PairsOK, files, shared
<1> QED
  BY <1>1, <1>2, <1>3, <1>4, <1>5, <1>6, <1>7 DEF Happens

LEMMA NextTyped ==
    ASSUME ProcessAssumption, Typed, [Next]_vars
    PROVE  Typed'
<1>1. CASE UNCHANGED vars
  BY <1>1 DEF vars, files, shared, others, Typed, TypeOK, PairsOK
<1>2. CASE Happens
  BY <1>2, HappensTyped
<1>3. ASSUME NEW p \in Procs, Goes(p) PROVE Typed'
  BY <1>3, MigrationTyped, AlertsTyped, StartsTyped, ConfiguresTyped
     DEF Goes, Starts, Configures
<1>4. ASSUME NEW p \in Procs, \/ \E role \in {"monitor", "migrate"} : StartMigration(p, role)
                              \/ LoopFails(p) \/ Die(p) \/ CoolingEnds(p)
      PROVE  Typed'
  BY <1>4, StartMigrationTyped, EndsTyped
<1> QED
  BY <1>1, <1>2, <1>3, <1>4 DEF Next

\* Every variable keeps its type, and a process that works on a pair of state
\* files has one.
THEOREM TypeCorrect == Spec => []TypeOK
<1>1. Init => Typed
  BY ProcessAssumption, InitTyped
<1>2. Typed /\ [Next]_vars => Typed'
  BY ProcessAssumption, NextTyped
<1>3. Typed => TypeOK
  BY DEF Typed
<1> QED
  BY <1>1, <1>2, <1>3, PTL DEF Spec

-----------------------------------------------------------------------------
(* One loop at a time.                                                     *)

LockInv == \A p \in Procs : proc[p].pc \in Holding => lock = p

PidInv ==
    \A p \in Procs :
        /\ proc[p].pc \in OwnSteps => pidfile \in {p, NoProc}
        /\ proc[p].pc = "pid_write" => pidfile \in {Unwritten, NoProc}

AloneInv == Typed /\ LockInv /\ PidInv

LEMMA AloneImplies == ASSUME ProcessAssumption, AloneInv PROVE LoopIsAlone
<1>1. CycleSteps \subseteq OwnSteps /\ OwnSteps \subseteq Holding
  BY DEF OwnSteps, Holding
<1> QED
  BY <1>1 DEF AloneInv, LockInv, PidInv, LoopIsAlone, Looping

LEMMA InitAlone == ASSUME ProcessAssumption, Init PROVE AloneInv
<1>1. "new" \notin Holding /\ "new" \notin OwnSteps
  BY DEF Holding, OwnSteps, CycleSteps
<1>2. \A p \in Procs : proc[p].pc = "new"
  BY DEF Init, NotStarted
<1> QED
  BY <1>1, <1>2, InitTyped DEF AloneInv, LockInv, PidInv

\* A step of p changes the record of no other process.
LEMMA OthersStay ==
    ASSUME Typed, NEW p \in Procs,
           \/ \E role \in {"monitor", "migrate"} : StartMigration(p, role)
           \/ Goes(p) \/ LoopFails(p) \/ Die(p) \/ CoolingEnds(p)
    PROVE  \A q \in Procs \ {p} : proc'[q] = proc[q]
<1>0. proc \in [Procs -> Process]
  BY DEF Typed, TypeOK
<1>1. CASE \E role \in {"monitor", "migrate"} : StartMigration(p, role)
  BY <1>0, <1>1 DEF StartMigration
<1>2. CASE Migrates(p)
  BY <1>0, <1>2 DEF Migrates, Examine, CopyStarts, CopyEnds, Rename, StampLoads,
     StampSaves, Goto, NextPair
<1>3. CASE Starts(p)
  BY <1>0, <1>3 DEF Starts, CheckPid, Unlink, Lock, PidOpens, PidWrites, Cleans,
     Unlocks, Goto
<1>4. CASE Configures(p)
  BY <1>0, <1>4 DEF Configures, LoadConfig, Stat, Read, Goto
<1>5. CASE Alerts(p)
  <2>1. CASE FailsMail(p)  BY <1>0, <2>1 DEF FailsMail, Mailed, Goto
  <2>2. CASE LowMail(p)  BY <1>0, <2>2 DEF LowMail, Mailed
  <2>3. CASE EmptyMail(p)  BY <1>0, <2>3 DEF EmptyMail, Mailed
  <2>4. CASE SummaryMail(p)  BY <1>0, <2>4 DEF SummaryMail, Mailed
  <2>5. CASE LoadDay(p) \/ DayLoads(p) \/ DaySaves(p)
    BY <1>0, <2>5 DEF LoadDay, DayLoads, DaySaves, Goto
  <2> QED
    BY <1>5, <2>1, <2>2, <2>3, <2>4, <2>5 DEF Alerts
<1>6. CASE LoopFails(p) \/ Die(p) \/ CoolingEnds(p)
  BY <1>0, <1>6 DEF LoopFails, Die, CoolingEnds, Goto
<1> QED
  BY <1>1, <1>2, <1>3, <1>4, <1>5, <1>6 DEF Goes, Starts, Configures

\* Where each kind of step leads.
LEMMA AlertsMove ==
    ASSUME Typed, NEW p \in Procs, Alerts(p)
    PROVE  /\ proc[p].pc \in CycleSteps \cup {"load_day"}
           /\ proc'[p].pc \in CycleSteps
<1>0. proc \in [Procs -> Process] /\ proc[p] \in Process
  BY DEF Typed, TypeOK
<1>1. CASE FailsMail(p)
  BY <1>0, <1>1 DEF FailsMail, Mailed, Goto, At, CycleSteps, Process
<1>2. CASE LowMail(p)
  BY <1>0, <1>2 DEF LowMail, Mailed, At, CycleSteps, Process
<1>3. CASE EmptyMail(p)
  BY <1>0, <1>3 DEF EmptyMail, Mailed, At, CycleSteps, Process
<1>4. CASE SummaryMail(p)
  BY <1>0, <1>4 DEF SummaryMail, Mailed, At, CycleSteps, Process
<1>5. CASE LoadDay(p) \/ DayLoads(p) \/ DaySaves(p)
  BY <1>0, <1>5 DEF LoadDay, DayLoads, DaySaves, Goto, At, CycleSteps, Process
<1> QED
  BY <1>1, <1>2, <1>3, <1>4, <1>5 DEF Alerts

LEMMA ConfiguresMove ==
    ASSUME Typed, NEW p \in Procs, Configures(p)
    PROVE  /\ proc[p].pc \in OwnSteps
           /\ proc'[p].pc \in OwnSteps
<1>0. proc \in [Procs -> Process] /\ proc[p] \in Process
  BY DEF Typed, TypeOK
<1> QED
  BY <1>0 DEF Configures, LoadConfig, Stat, Read, Goto, At, OwnSteps, CycleSteps, Process

LEMMA MigratesMove ==
    ASSUME Typed, NEW p \in Procs, Migrates(p)
    PROVE  proc'[p].pc \in MigrationSteps \cup {"check_pid", "off"}
<1>0. proc \in [Procs -> Process] /\ proc[p] \in Process
  BY DEF Typed, TypeOK
<1> QED
  BY <1>0 DEF Migrates, Examine, CopyStarts, CopyEnds, Rename, StampLoads,
     StampSaves, Goto, NextPair, MigrationSteps, Afterwards, Process

LEMMA Unholding ==
    /\ Holding \cap (MigrationSteps \cup {"new", "off", "check_pid", "unlink", "lock"}) = {}
    /\ OwnSteps \subseteq Holding /\ "pid_write" \in Holding \ OwnSteps
    /\ "pid_open" \in Holding \ OwnSteps /\ "unlock" \in Holding \ OwnSteps
    /\ CycleSteps \cup {"clean", "load_config", "load_day"} \subseteq OwnSteps
BY DEF Holding, OwnSteps, CycleSteps, MigrationSteps

\* A step that takes nobody to a step that needs the lock.
LEMMA QuietAlone ==
    ASSUME AloneInv, Typed', lock' = lock, pidfile' \in {pidfile, NoProc},
           \A q \in Procs :
              /\ proc'[q].pc \in Holding => proc[q].pc \in Holding
              /\ proc'[q].pc \in OwnSteps => proc[q].pc \in OwnSteps
              /\ proc'[q].pc = "pid_write" => proc[q].pc = "pid_write"
    PROVE  AloneInv'
BY DEF AloneInv, LockInv, PidInv

\* A step of a monitor that stays under the lock.
LEMMA StaysAlone ==
    ASSUME AloneInv, Typed', lock' = lock, pidfile' = pidfile, NEW p \in Procs,
           \A q \in Procs \ {p} : proc'[q] = proc[q],
           proc[p].pc \in OwnSteps, proc'[p].pc \in OwnSteps
    PROVE  AloneInv'
<1>1. proc[p].pc \in Holding /\ proc'[p].pc # "pid_write"
  BY Unholding
<1>2. \A q \in Procs :
        /\ proc'[q].pc \in Holding => proc[q].pc \in Holding
        /\ proc'[q].pc \in OwnSteps => proc[q].pc \in OwnSteps
        /\ proc'[q].pc = "pid_write" => proc[q].pc = "pid_write"
  BY <1>1
<1> QED
  BY <1>2, QuietAlone

LEMMA StartsAlone ==
    ASSUME ProcessAssumption, AloneInv, Typed', NEW p \in Procs, Starts(p)
    PROVE  AloneInv'
<1>0. /\ proc \in [Procs -> Process] /\ proc[p] \in Process
      /\ \A q \in Procs \ {p} : proc'[q] = proc[q]
  BY OthersStay DEF AloneInv, Typed, TypeOK, Goes, Starts
<1>1. CASE CheckPid(p) \/ Unlink(p) \/ Cleans(p)
  <2>1. /\ lock' = lock /\ pidfile' \in {pidfile, NoProc}
        /\ proc'[p].pc \in {"off", "unlink", "lock", "unlock"}
        /\ proc'[p].pc = "unlock" => proc[p].pc = "clean"
    BY <1>0, <1>1 DEF CheckPid, Unlink, Cleans, Goto, At, shared, Process
  <2> QED
    BY <1>0, <2>1, Unholding, QuietAlone
<1>2. CASE Lock(p)
  <2>1. CASE lock # NoProc
    <3>1. lock' = lock /\ pidfile' = pidfile /\ proc'[p].pc = "off"
      BY <1>0, <1>2, <2>1 DEF Lock, Goto, Process
    <3> QED
      BY <1>0, <3>1, Unholding, QuietAlone
  <2>2. CASE lock = NoProc
    <3>1. lock' = p /\ pidfile' = pidfile /\ proc'[p].pc = "pid_open"
      BY <1>0, <1>2, <2>2 DEF Lock, Goto, Process
    <3>2. \A q \in Procs \ {p} : proc'[q].pc \notin Holding
      BY <1>0, <2>2 DEF AloneInv, LockInv, ProcessAssumption
    <3> QED
      BY <3>1, <3>2, Unholding DEF AloneInv, LockInv, PidInv
  <2> QED
    BY <2>1, <2>2
<1>3. CASE PidOpens(p) \/ PidWrites(p)
  <2>0. proc[p].pc \in Holding
    BY <1>3, Unholding DEF PidOpens, PidWrites, At
  <2>1. lock = p /\ lock' = p
    <3>1. lock' = lock
      BY <1>3 DEF PidOpens, PidWrites
    <3> QED
      BY <2>0, <3>1 DEF AloneInv, LockInv
  <2>2. \A q \in Procs \ {p} : proc'[q].pc \notin Holding
    BY <1>0, <2>1 DEF AloneInv, LockInv
  <2>3. \/ proc'[p].pc = "pid_write" /\ pidfile' = Unwritten
        \/ proc'[p].pc = "load_config" /\ pidfile' \in {p, NoProc}
    BY <1>0, <1>3 DEF PidOpens, PidWrites, At, Goto, AloneInv, PidInv, Process
  <2> QED
    BY <2>1, <2>2, <2>3, Unholding DEF AloneInv, LockInv, PidInv
<1>4. CASE Unlocks(p)
  <2>1. lock = p /\ pidfile' = pidfile /\ proc'[p].pc = "off"
    BY <1>0, <1>4, Unholding DEF Unlocks, At, Goto, AloneInv, LockInv, Process
  <2>2. \A q \in Procs \ {p} : proc'[q].pc \notin Holding
    BY <1>0, <2>1 DEF AloneInv, LockInv
  <2> QED
    BY <2>1, <2>2, Unholding DEF AloneInv, LockInv, PidInv
<1> QED
  BY <1>1, <1>2, <1>3, <1>4 DEF Starts

LEMMA NextAlone ==
    ASSUME ProcessAssumption, AloneInv, [Next]_vars
    PROVE  AloneInv'
<1>0. Typed' /\ Typed /\ proc \in [Procs -> Process]
  BY NextTyped DEF AloneInv, Typed, TypeOK
<1>1. CASE UNCHANGED vars
  BY <1>0, <1>1, QuietAlone DEF vars, shared
<1>2. CASE Happens
  <2>1. lock' = lock /\ pidfile' \in {pidfile, NoProc} /\ proc' = proc
    BY <1>2 DEF Happens, EditConfig, StopReads, StopActs, UpdateSaves, UpdateLoads,
       QueueChanges, NewDay, shared
  <2> QED
    BY <1>0, <2>1, QuietAlone
<1>3. ASSUME NEW p \in Procs,
             \/ \E role \in {"monitor", "migrate"} : StartMigration(p, role)
             \/ Migrates(p) \/ Configures(p) \/ Alerts(p)
             \/ LoopFails(p) \/ CoolingEnds(p)
      PROVE  AloneInv'
  <2>1. lock' = lock /\ pidfile' = pidfile
    BY <1>3 DEF StartMigration, Migrates, Examine, CopyStarts, CopyEnds, Rename,
       StampLoads, StampSaves, Configures, LoadConfig, Stat, Read, Alerts, FailsMail,
       LowMail, EmptyMail, SummaryMail, LoadDay, DayLoads, DaySaves, LoopFails,
       CoolingEnds, shared, filesRest, alertsRest
  <2>2. \A q \in Procs \ {p} : proc'[q] = proc[q]
    BY <1>0, <1>3, OthersStay DEF Goes, Configures
  <2>3. CASE Migrates(p)
    <3>1. proc'[p].pc \notin Holding /\ proc'[p].pc \notin OwnSteps
          /\ proc'[p].pc # "pid_write"
      BY <1>0, <2>3, MigratesMove, Unholding
    <3> QED
      BY <1>0, <2>1, <2>2, <3>1, QuietAlone
  <2>4. CASE Configures(p)
    <3>1. proc[p].pc \in OwnSteps /\ proc'[p].pc \in OwnSteps
      BY <1>0, <2>4, ConfiguresMove
    <3> QED
      BY <1>0, <2>1, <2>2, <3>1, StaysAlone
  <2>5. CASE Alerts(p)
    <3>1. proc[p].pc \in OwnSteps /\ proc'[p].pc \in OwnSteps
      BY <1>0, <2>5, AlertsMove, Unholding
    <3> QED
      BY <1>0, <2>1, <2>2, <3>1, StaysAlone
  <2>6. CASE \E role \in {"monitor", "migrate"} : StartMigration(p, role)
    <3>1. proc'[p].pc \in {"check_pid", "off", "examine"}
      BY <1>0, <2>6 DEF StartMigration, Afterwards, Process
    <3> QED
      BY <1>0, <2>1, <2>2, <3>1, Unholding, QuietAlone DEF MigrationSteps
  <2>7. CASE LoopFails(p)
    <3>1. proc[p].pc \in CycleSteps /\ proc'[p].pc = "clean"
      BY <1>0, <2>7 DEF LoopFails, Goto, Process
    <3> QED
      BY <1>0, <2>1, <2>2, <3>1, Unholding, QuietAlone
  <2>8. CASE CoolingEnds(p)
    <3>1. proc'[p].pc = proc[p].pc
      BY <1>0, <2>8 DEF CoolingEnds, Process
    <3> QED
      BY <1>0, <2>1, <2>2, <3>1, QuietAlone
  <2> QED
    BY <1>3, <2>3, <2>4, <2>5, <2>6, <2>7, <2>8
<1>4. ASSUME NEW p \in Procs, Die(p) PROVE AloneInv'
  <2>1. /\ lock' = IF lock = p THEN NoProc ELSE lock
        /\ pidfile' = pidfile /\ proc'[p].pc = "off"
        /\ \A q \in Procs \ {p} : proc'[q] = proc[q]
    BY <1>0, <1>4, OthersStay DEF Die, Goto, Process
  <2>2. \A q \in Procs : proc'[q].pc \in Holding => q # p /\ lock = q
    BY <2>1, Unholding DEF AloneInv, LockInv
  <2>3. LockInv'
    BY <2>1, <2>2 DEF LockInv
  <2>4. PidInv'
    BY <2>1, Unholding DEF AloneInv, PidInv
  <2> QED
    BY <1>0, <2>3, <2>4 DEF AloneInv
<1>5. ASSUME NEW p \in Procs, Goes(p) PROVE AloneInv'
  BY <1>0, <1>3, <1>5, StartsAlone DEF Goes, Starts, Configures
<1> QED
  BY <1>1, <1>2, <1>3, <1>4, <1>5 DEF Next

\* However starts, stops and crashes fall together, one monitor runs its loop,
\* and the pidfile never names another process than it.
THEOREM OneLoop == Spec => []LoopIsAlone
<1>1. Init => AloneInv
  BY ProcessAssumption, InitAlone
<1>2. AloneInv /\ [Next]_vars => AloneInv'
  BY ProcessAssumption, NextAlone
<1>3. AloneInv => LoopIsAlone
  BY ProcessAssumption, AloneImplies
<1> QED
  BY <1>1, <1>2, <1>3, PTL DEF Spec

-----------------------------------------------------------------------------
(* An upgrade keeps the records.                                           *)

\* The legacy files nobody interfered with, and their records in the new ones.
Good == had \ spoiled
Kept == \A f \in Good : file[f].kind = "records"

\* Steps after the last pair.
Beyond == {"stamp_load", "stamp_save"} \cup StartSteps \cup Holding

Somewhere == had \subseteq legacy \cup backup /\ spoiled \subseteq had

Single ==
    \A p, q \in Procs : p # q /\ Migrating(p) /\ Migrating(q) => Good = {}

\* A new file has the records, or is not there yet, or is being copied; it has
\* them when the legacy file is gone.
Whole ==
    \A f \in Good :
        /\ \/ file[f].kind \in {"absent", "records"}
           \/ file[f].kind = "torn" /\ \E p \in Procs : At(p, "copying") /\ Current(p) = f
        /\ f \notin legacy => file[f].kind = "records"

\* What a process that works on a pair knows.
InHand(p) ==
    Current(p) \in Good =>
        /\ At(p, "copy") => file[Current(p)].kind = "absent"
        /\ At(p, "copying") => file[Current(p)].kind = "torn" /\ p \in open
        /\ At(p, "rename") => file[Current(p)].kind = "records"
Earlier(p) ==
    proc[p].pc \in PairSteps =>
        \A i \in 1..Len(Pairs) :
            i < proc[p].at /\ Pairs[i] \in Good => file[Pairs[i]].kind = "records"
Working == \A p \in Procs : InHand(p) /\ Earlier(p)

\* The migration is over for a process that is past it, and for all once a
\* file, or a copy of it in somebody's memory, is stamped.
Over ==
    /\ \A p \in Procs : proc[p].pc \in Beyond \/ proc[p].memo.stamped => Kept
    /\ \A f \in Files : file[f].stamped => Kept
    /\ update.on /\ update.memo.stamped => Kept

\* What is about to be saved has the records, or it spoils the file.
Memos ==
    /\ \A p \in Procs :
          proc[p].pc \in {"stamp_save", "day_save"} /\ MonitorState \in Good
              => proc[p].memo.kind = "records"
    /\ update.on /\ update.file \in Good /\ update.memo.kind = "records"
          => file[update.file].kind = "records"

Keep ==
    Typed /\ Somewhere /\ Single /\ Whole /\ Working /\ Over /\ Memos

\* What a process knows stays true while its pair and the files stay.
LEMMA SameHands ==
    ASSUME NEW q \in Procs, InHand(q), Earlier(q),
           proc'[q].pc = proc[q].pc, proc'[q].at = proc[q].at,
           Good' \subseteq Good, q \in open => q \in open',
           \A f \in Good' : file'[f].kind = file[f].kind
    PROVE  InHand(q)' /\ Earlier(q)'
<1>1. Current(q)' = Current(q)
  BY DEF Current
<1>2. InHand(q)'
  BY <1>1 DEF InHand, At
<1>3. Earlier(q)'
  BY DEF Earlier
<1> QED
  BY <1>2, <1>3

LEMMA BeyondSteps ==
    /\ Beyond \cap (PairSteps \cup {"off"}) = {}
    /\ OwnSteps \subseteq Beyond /\ CycleSteps \subseteq Beyond
    /\ StartSteps \cup Holding \subseteq Beyond
    /\ (StartSteps \cup Holding) \cap MigrationSteps = {}
    /\ MigrationSteps \subseteq PairSteps \cup Beyond
    /\ "off" \notin MigrationSteps \cup PairSteps
BY DEF Beyond, PairSteps, StartSteps, Holding, OwnSteps, CycleSteps, MigrationSteps

LEMMA InitKeep == ASSUME ProcessAssumption, Init PROVE Keep
<1>1. Typed
  BY InitTyped
<1>2. /\ \A p \in Procs : proc[p] = NotStarted
      /\ \A f \in Files : file[f] = Absent
      /\ legacy = had /\ spoiled = {} /\ update.on = FALSE
  BY DEF Init, NoUpdate
<1>3. /\ NotStarted.pc = "new" /\ NotStarted.at = 1 /\ NotStarted.memo = Absent
      /\ Absent.stamped = FALSE /\ Absent.kind = "absent"
  BY DEF NotStarted, Absent
<1>4. "new" \notin Beyond /\ "new" \notin MigrationSteps
  BY DEF Beyond, StartSteps, Holding, OwnSteps, CycleSteps, MigrationSteps
<1>5. Good \subseteq legacy /\ Good \subseteq Files
  BY <1>1, <1>2 DEF Good, Typed, TypeOK
<1>6. Somewhere /\ Single /\ Whole
  BY <1>2, <1>3, <1>4, <1>5 DEF Somewhere, Single, Whole, Migrating
<1>7. Working
  <2>1. \A p \in Procs : proc[p].pc = "new" /\ proc[p].at = 1
    BY <1>2, <1>3
  <2>2. \A i \in 1..Len(Pairs) : ~(i < 1)
    BY DEF ProcessAssumption
  <2>3. \A p \in Procs : ~At(p, "copy") /\ ~At(p, "copying") /\ ~At(p, "rename")
    BY <2>1 DEF At
  <2> QED
    BY <2>1, <2>2, <2>3 DEF Working, InHand, Earlier
<1>8. Over
  BY <1>2, <1>3, <1>4 DEF Over
<1>9. Memos
  BY <1>2, <1>3 DEF Memos
<1> QED
  BY <1>1, <1>6, <1>7, <1>8, <1>9 DEF Keep

LEMMA KeepImplies == ASSUME Keep PROVE UpgradeKeepsRecords
BY BeyondSteps DEF Keep, Somewhere, Over, Kept, Good, UpgradeKeepsRecords, Looping

\* A step of p that changes no file and is not about a pair.
LEMMA QuietKeeps ==
    ASSUME Keep, Typed', NEW p \in Procs,
           UNCHANGED <<legacy, backup, file, open, had, spoiled, update>>,
           \A q \in Procs \ {p} : proc'[q] = proc[q],
           proc[p].pc \notin {"copying"}, proc'[p].pc \notin PairSteps,
           proc'[p].pc \in MigrationSteps => proc[p].pc \in MigrationSteps,
           proc'[p].pc \in Beyond => Kept,
           proc'[p].memo.stamped => Kept,
           proc'[p].pc \in {"stamp_save", "day_save"} /\ MonitorState \in Good
              => proc'[p].memo.kind = "records"
    PROVE  Keep'
<1>1. Good' = Good /\ Kept' = Kept
  BY DEF Good, Kept
<1>2. Somewhere' /\ Single'
  BY <1>1 DEF Keep, Somewhere, Single, Migrating
<1>3. Whole'
  <2>1. \A q \in Procs : At(q, "copying") => At(q, "copying")' /\ Current(q)' = Current(q)
    BY DEF At, Current
  <2> QED
    BY <1>1, <2>1 DEF Keep, Whole
<1>4. Working'
  <2>1. \A q \in Procs \ {p} : Current(q)' = Current(q)
    BY DEF Current
  <2>2. ~At(p, "copy")' /\ ~At(p, "copying")' /\ ~At(p, "rename")'
    BY DEF At, PairSteps
  <2> QED
    BY <1>1, <2>1, <2>2 DEF Keep, Working, InHand, Earlier, At
<1>5. Over'
  BY <1>1 DEF Keep, Over
<1>6. Memos'
  BY <1>1 DEF Keep, Memos
<1> QED
  BY <1>2, <1>3, <1>4, <1>5, <1>6 DEF Keep

\* A step after which the records are all there, as they were before.
LEMMA KeptKeeps ==
    ASSUME Keep, Typed', Kept, Kept', had' = had, spoiled \subseteq spoiled',
           Somewhere', NEW p,
           \A q \in Procs \ {p} : proc'[q] = proc[q],
           p \in Procs => /\ proc'[p].pc \notin {"copy", "copying"}
                          /\ Migrating(p)' => Migrating(p),
           Memos'
    PROVE  Keep'
<1>1. Good' \subseteq Good
  BY DEF Good
<1>2. Single' /\ Whole' /\ Over'
  BY <1>1 DEF Keep, Single, Migrating, Whole, Over, Kept
<1>3. Working'
  <2> SUFFICES ASSUME NEW q \in Procs, Current(q)' \in Good', At(q, "copy")' \/ At(q, "copying")'
               PROVE  FALSE
    <3>1. \A f \in Good' : file'[f].kind = "records"
      BY DEF Kept
    <3> QED
      BY <3>1 DEF Working, InHand, Earlier
  <2>1. q # p
    BY DEF At
  <2>2. Current(q) \in Good /\ (At(q, "copy") \/ At(q, "copying"))
    BY <1>1, <2>1 DEF Current, At
  <2> QED
    BY <2>2 DEF Keep, Working, InHand, Earlier, Kept
<1> QED
  BY <1>2, <1>3 DEF Keep


LEMMA SteadyKeeps ==
    ASSUME ProcessAssumption, Keep, Typed', NEW p \in Procs,
           \/ Starts(p) \/ Configures(p) \/ LoopFails(p) \/ CoolingEnds(p)
           \/ StampLoads(p) \/ (Alerts(p) /\ ~DaySaves(p))
    PROVE  Keep'
<1>0. /\ proc \in [Procs -> Process] /\ proc[p] \in Process /\ Typed
  BY DEF Keep, Typed, TypeOK
<1>1. \A q \in Procs \ {p} : proc'[q] = proc[q]
  BY <1>0, OthersStay DEF Goes, Starts, Configures, Migrates
<1>f. proc[p].memo.stamped => Kept
  BY DEF Keep, Over
<1>g. MonitorState \in Files /\ (file[MonitorState].stamped => Kept)
  BY FilesOfPairs DEF Keep, Over
<1>k. proc[p].pc \in Beyond => Kept
  BY DEF Keep, Over
<1>2. CASE Starts(p)
  <2>1. UNCHANGED <<legacy, backup, file, open, had, spoiled, update>>
    BY <1>2 DEF Starts, CheckPid, Unlink, Lock, PidOpens, PidWrites, Cleans, Unlocks,
       processRest, files, others
  <2>2. /\ proc[p].pc \in StartSteps \cup Holding /\ proc[p].pc # "copying"
        /\ proc'[p].pc \in (StartSteps \cup Holding \cup {"off"}) \ {"day_save"}
        /\ proc'[p].memo = proc[p].memo
    BY <1>0, <1>2 DEF Starts, CheckPid, Unlink, Lock, PidOpens, PidWrites, Cleans,
       Unlocks, At, Goto, StartSteps, Holding, OwnSteps, CycleSteps, Process
  <2>3. /\ proc'[p].pc \notin PairSteps \cup MigrationSteps
        /\ proc'[p].pc \notin {"stamp_save", "day_save"}
    BY <2>2, BeyondSteps DEF MigrationSteps
  <2>4. proc'[p].pc \in Beyond => Kept
    BY <1>k, <2>2, BeyondSteps
  <2> QED
    BY <1>1, <1>f, <2>1, <2>2, <2>3, <2>4, QuietKeeps
<1>3. CASE Configures(p)
  <2>1. UNCHANGED <<legacy, backup, file, open, had, spoiled, update>>
    BY <1>3 DEF Configures, LoadConfig, Stat, Read, processRest, files, others
  <2>2. /\ proc[p].pc \in OwnSteps /\ proc[p].pc # "copying"
        /\ proc'[p].pc \in OwnSteps \ {"day_save"}
        /\ proc'[p].memo = proc[p].memo
    BY <1>0, <1>3 DEF Configures, LoadConfig, Stat, Read, At, Goto, OwnSteps, CycleSteps,
       Process
  <2>3. "stamp_save" \notin OwnSteps /\ OwnSteps \cap MigrationSteps = {}
    BY DEF OwnSteps, CycleSteps, MigrationSteps
  <2> QED
    BY <1>1, <1>f, <1>k, <2>1, <2>2, <2>3, BeyondSteps, QuietKeeps
<1>4. CASE LoopFails(p)
  <2>1. UNCHANGED <<legacy, backup, file, open, had, spoiled, update>>
    BY <1>4 DEF LoopFails, files, others
  <2>2. /\ proc[p].pc \in CycleSteps /\ proc[p].pc # "copying"
        /\ proc'[p].pc = "clean" /\ proc'[p].memo = proc[p].memo
    BY <1>0, <1>4 DEF LoopFails, Goto, CycleSteps, Process
  <2>3. "clean" \notin PairSteps \cup MigrationSteps
    BY StepNames DEF MigrationSteps
  <2>4. Kept
    BY <1>k, <2>2, BeyondSteps
  <2> QED
    BY <1>1, <1>f, <2>1, <2>2, <2>3, <2>4, QuietKeeps
<1>5. CASE CoolingEnds(p)
  <2>1. UNCHANGED <<legacy, backup, file, open, had, spoiled, update>>
    BY <1>5 DEF CoolingEnds, alertsRest, others
  <2>2. /\ proc'[p].pc = proc[p].pc /\ proc'[p].memo = proc[p].memo
        /\ proc'[p].at = proc[p].at
    BY <1>0, <1>5 DEF CoolingEnds, Process
  <2>3. \A q \in Procs : proc'[q].pc = proc[q].pc /\ proc'[q].memo = proc[q].memo
                         /\ proc'[q].at = proc[q].at
    BY <1>1, <2>2
  <2>4. Good' = Good /\ Kept' = Kept
    BY <2>1 DEF Good, Kept
  <2>5. \A q \in Procs : (Migrating(q)' <=> Migrating(q)) /\ Current(q)' = Current(q)
    BY <2>3 DEF Migrating, Current
  <2>6. Somewhere' /\ Single' /\ Whole'
    <3>1. Somewhere'
      BY <2>1 DEF Keep, Somewhere
    <3>2. Single'
      BY <2>4, <2>5 DEF Keep, Single
    <3>3. \A q \in Procs : At(q, "copying")' <=> At(q, "copying")
      BY <2>3 DEF At
    <3>4. Whole'
      BY <2>1, <2>4, <2>5, <3>3 DEF Keep, Whole
    <3> QED
      BY <3>1, <3>2, <3>4
  <2>7. Working'
    BY <2>1, <2>3, <2>4, SameHands DEF Keep, Working
  <2>8. Over' /\ Memos'
    BY <2>1, <2>3, <2>4 DEF Keep, Over, Memos
  <2> QED
    BY <2>6, <2>7, <2>8 DEF Keep
<1>6. CASE StampLoads(p)
  <2>1. UNCHANGED <<legacy, backup, file, open, had, spoiled, update>>
    BY <1>6 DEF StampLoads, filesRest, files, others
  <2>2. /\ proc[p].pc = "stamp_load" /\ proc'[p].pc = "stamp_save"
        /\ proc'[p].memo = file[MonitorState]
    BY <1>0, <1>6 DEF StampLoads, At, Process
  <2>3. Kept
    BY <1>k, <2>2 DEF Beyond
  <2>4. {"stamp_load", "stamp_save"} \subseteq MigrationSteps \cap Beyond
    BY DEF MigrationSteps, Beyond
  <2>5. MonitorState \in Good => file[MonitorState].kind = "records"
    BY <2>3 DEF Kept
  <2>6. "stamp_save" \notin PairSteps
    BY DEF PairSteps
  <2> QED
    BY <1>1, <2>1, <2>2, <2>3, <2>4, <2>5, <2>6, QuietKeeps
<1>7. CASE Alerts(p) /\ ~DaySaves(p)
  <2>1. UNCHANGED <<legacy, backup, file, open, had, spoiled, update>>
    BY <1>7 DEF Alerts, FailsMail, LowMail, EmptyMail, SummaryMail, LoadDay, DayLoads,
       alertsRest, others
  <2>2. /\ proc[p].pc \in OwnSteps /\ proc'[p].pc \in CycleSteps /\ proc[p].pc # "copying"
    BY <1>0, <1>7, AlertsMove, Unholding DEF CycleSteps
  <2>3. Kept
    BY <1>k, <2>2, BeyondSteps
  <2>4. CycleSteps \cap MigrationSteps = {}
    BY DEF CycleSteps, MigrationSteps
  <2>5. proc'[p].pc = "day_save" => proc'[p].memo = file[MonitorState]
    <3>1. CASE FailsMail(p)
      <4>1. CASE Goto(p, "low")
        BY <1>0, <4>1 DEF Goto, Process
      <4>2. CASE \E kind \in {"fails", "hosts"} : \E o \in Outcomes(proc[p].mem, kind) :
                    Mailed(p, kind, o, o.mem, got[p], "fails")
        BY <1>0, <4>2 DEF Mailed, Process
      <4> QED
        BY <3>1, <4>1, <4>2 DEF FailsMail
    <3>2. CASE LowMail(p)
      BY <1>0, <3>2 DEF LowMail, Mailed, Process
    <3>3. CASE EmptyMail(p)
      BY <1>0, <3>3 DEF EmptyMail, Mailed, Process
    <3>4. CASE SummaryMail(p)
      BY <1>0, <3>4 DEF SummaryMail, Mailed, Process
    <3>5. CASE LoadDay(p)
      BY <1>0, <3>5 DEF LoadDay, Process
    <3>6. CASE DayLoads(p)
      BY <1>0, <3>6 DEF DayLoads, Process
    <3> QED
      BY <1>7, <3>1, <3>2, <3>3, <3>4, <3>5, <3>6 DEF Alerts
  <2>6. MonitorState \in Good => file[MonitorState].kind = "records"
    BY <2>3 DEF Kept
  <2>7. proc'[p].memo.stamped => Kept
    BY <2>3
  <2>8. /\ proc'[p].pc \notin PairSteps /\ proc'[p].pc \notin MigrationSteps
        /\ proc'[p].pc # "stamp_save"
    BY <2>2, <2>4, BeyondSteps DEF MigrationSteps
  <2> QED
    BY <1>1, <2>1, <2>2, <2>3, <2>5, <2>6, <2>7, <2>8, QuietKeeps
<1> QED
  BY <1>2, <1>3, <1>4, <1>5, <1>6, <1>7

\* Where somebody interfered with every file there is nothing to keep.
LEMMA NothingGood ==
    ASSUME Typed', Somewhere', Good' = {} PROVE Keep'
BY DEF Keep, Single, Whole, Working, InHand, Earlier, Over, Memos, Kept

LEMMA StartMigrationKeeps ==
    ASSUME ProcessAssumption, Keep, Typed', NEW p \in Procs,
           NEW role \in {"monitor", "migrate"}, StartMigration(p, role)
    PROVE  Keep'
<1>0. /\ proc \in [Procs -> Process] /\ proc[p] \in Process /\ had \subseteq Files
      /\ proc[p].pc = "new" /\ MonitorState \in Files
  BY FilesOfPairs DEF Keep, Typed, TypeOK, StartMigration, At
<1>1. UNCHANGED <<legacy, backup, file, open, had, update>>
  BY DEF StartMigration, files, others
<1>2. /\ \A q \in Procs \ {p} : proc'[q] = proc[q]
      /\ proc'[p].at = proc[p].at /\ proc'[p].memo = proc[p].memo
      /\ proc'[p].pc = IF Migrated THEN Afterwards(role) ELSE "examine"
  BY <1>0 DEF StartMigration, Process
<1>3. CASE Migrated
  <2>1. Kept
    BY <1>0, <1>3 DEF Keep, Over, Migrated
  <2>2. spoiled' = spoiled
    BY <1>3 DEF StartMigration
  <2>3. proc'[p].pc \in {"check_pid", "off"}
    BY <1>2, <1>3 DEF Afterwards
  <2>4. /\ proc'[p].pc \notin PairSteps \cup MigrationSteps
        /\ proc'[p].pc \notin {"stamp_save", "day_save"}
    BY <2>3 DEF PairSteps, MigrationSteps
  <2> QED
    BY <1>0, <1>1, <1>2, <2>1, <2>2, <2>4, QuietKeeps
<1>4. CASE ~Migrated /\ \E q \in Procs : Migrating(q)
  <2>1. spoiled' = had /\ Good' = {}
    BY <1>1, <1>4 DEF StartMigration, Good
  <2>2. Somewhere'
    BY <1>1, <2>1 DEF Keep, Somewhere
  <2> QED
    BY <2>1, <2>2, NothingGood
<1>5. CASE ~Migrated /\ ~(\E q \in Procs : Migrating(q))
  <2>1. spoiled' = spoiled /\ Good' = Good /\ Kept' = Kept
    BY <1>1, <1>5 DEF StartMigration, Good, Kept
  <2>2. proc'[p].pc = "examine"
    BY <1>2, <1>5
  <2>3. \A q \in Procs : Current(q)' = Current(q)
    BY <1>2 DEF Current
  <2>4. Somewhere' /\ Single'
    BY <1>1, <1>2, <1>5, <2>1 DEF Keep, Somewhere, Single, Migrating
  <2>5. Whole'
    <3>1. \A q \in Procs : At(q, "copying") => At(q, "copying")'
      BY <1>0, <1>1, <1>2 DEF At
    <3> QED
      BY <1>1, <2>1, <2>3, <3>1 DEF Keep, Whole
  <2>6. Working'
    <3>1. ASSUME NEW q \in Procs \ {p} PROVE InHand(q)' /\ Earlier(q)'
      BY <1>1, <1>2, <2>1, <3>1, SameHands DEF Keep, Working
    <3>2. InHand(p)'
      BY <2>2 DEF InHand, At
    <3>3. Earlier(p)'
      BY <1>0, <1>1, <1>2, <2>1 DEF Keep, Working, Earlier, PairSteps
    <3> QED
      BY <3>1, <3>2, <3>3 DEF Working
  <2>7. Over'
    BY <1>1, <1>2, <2>1, <2>2, BeyondSteps DEF Keep, Over, PairSteps
  <2>8. Memos'
    BY <1>1, <1>2, <2>1, <2>2 DEF Keep, Memos
  <2> QED
    BY <2>4, <2>5, <2>6, <2>7, <2>8 DEF Keep
<1> QED
  BY <1>3, <1>4, <1>5

\* From one pair to the next, when the records of this one are in place.
LEMMA NextPairKeeps ==
    ASSUME ProcessAssumption, Keep, Typed', NEW p \in Procs, NextPair(p),
           proc[p].pc \in {"examine", "rename"},
           Current(p) \in Good => file[Current(p)].kind = "records",
           UNCHANGED <<file, open, had, spoiled, update>>,
           Somewhere', legacy \subseteq legacy' \cup {Current(p)}
    PROVE  Keep'
<1>0. /\ proc \in [Procs -> Process] /\ proc[p] \in Process /\ p \notin open
      /\ proc[p].at \in 1..Len(Pairs) /\ Len(Pairs) \in Nat /\ had \subseteq Files
  <2>1. Typed /\ proc[p].pc \in PairSteps /\ proc[p].pc # "copying"
    BY DEF Keep, PairSteps
  <2>2. proc[p].at \in 1..Len(Pairs) /\ p \notin open
    BY <2>1 DEF Typed, PairsOK
  <2>3. proc \in [Procs -> Process] /\ had \subseteq Files
    BY <2>1 DEF Typed, TypeOK
  <2>4. Len(Pairs) \in Nat
    BY DEF ProcessAssumption
  <2> QED
    BY <2>2, <2>3, <2>4
<1>1. /\ \A q \in Procs \ {p} : proc'[q] = proc[q]
      /\ proc'[p].at = proc[p].at + 1 /\ proc'[p].memo = proc[p].memo
      /\ proc'[p].pc = IF proc[p].at < Len(Pairs) THEN "examine" ELSE "stamp_load"
  BY <1>0 DEF NextPair, Process
<1>2. Good' = Good /\ Kept' = Kept /\ Good \subseteq Files
  BY <1>0 DEF Good, Kept
<1>3. \A i \in 1..Len(Pairs) :
         i < proc[p].at + 1 /\ Pairs[i] \in Good => file[Pairs[i]].kind = "records"
  <2> TAKE i \in 1..Len(Pairs)
  <2>1. CASE i = proc[p].at
    BY <2>1 DEF Current
  <2>2. CASE i < proc[p].at
    BY <2>2 DEF Keep, Working, Earlier, PairSteps
  <2> QED
    BY <1>0, <2>1, <2>2
<1>4. proc[p].at = Len(Pairs) => Kept
  BY <1>0, <1>2, <1>3 DEF Kept, ProcessAssumption
<1>5. \A q \in Procs \ {p} : Current(q)' = Current(q)
  BY <1>1 DEF Current
<1>6. proc[p].pc \in MigrationSteps
  BY DEF MigrationSteps
<1>7. Single'
  BY <1>1, <1>2, <1>6 DEF Keep, Single, Migrating
<1>8. Whole'
  BY <1>1, <1>2, <1>5 DEF Keep, Whole, At
<1>9. Working'
  <2>1. ASSUME NEW q \in Procs \ {p} PROVE InHand(q)' /\ Earlier(q)'
    BY <1>1, <1>2, <2>1, SameHands DEF Keep, Working
  <2>2. InHand(p)'
    BY <1>1 DEF InHand, At
  <2>3. Earlier(p)'
    BY <1>1, <1>2, <1>3 DEF Earlier
  <2> QED
    BY <2>1, <2>2, <2>3 DEF Working
<1>10. Over'
  <2>1. ASSUME NEW q \in Procs, proc'[q].pc \in Beyond \/ proc'[q].memo.stamped
        PROVE  Kept
    <3>1. CASE q = p
      <4>1. "examine" \notin Beyond
        BY BeyondSteps DEF PairSteps
      <4>2. CASE proc'[p].pc \in Beyond
        BY <1>0, <1>1, <1>4, <4>1, <4>2
      <4>3. CASE proc'[p].memo.stamped
        BY <1>1, <4>3 DEF Keep, Over
      <4> QED
        BY <2>1, <3>1, <4>2, <4>3
    <3>2. CASE q # p
      BY <1>1, <2>1, <3>2 DEF Keep, Over
    <3> QED
      BY <3>1, <3>2
  <2>2. /\ \A f \in Files : file[f].stamped => Kept
        /\ update.on /\ update.memo.stamped => Kept
    BY DEF Keep, Over
  <2>3. Kept' <=> Kept
    BY DEF Kept, Good
  <2> QED
    BY <2>1, <2>2, <2>3 DEF Over
<1>11. Memos'
  BY <1>1, <1>2 DEF Keep, Memos
<1> QED
  BY <1>7, <1>8, <1>9, <1>10, <1>11 DEF Keep

\* A migration that is alone.
LEMMA MigratesAlone ==
    ASSUME ProcessAssumption, Keep, Typed', NEW p \in Procs,
           \A q \in Procs \ {p} : ~Migrating(q),
           Examine(p) \/ CopyStarts(p) \/ CopyEnds(p) \/ Rename(p)
    PROVE  Keep'
<1>0. /\ Typed /\ proc \in [Procs -> Process] /\ proc[p] \in Process
      /\ had \subseteq Files /\ file \in [Files -> Content]
  BY DEF Keep, Typed, TypeOK
<1>1. /\ \A q \in Procs \ {p} : proc'[q] = proc[q]
      /\ UNCHANGED <<had, spoiled, update>>
  BY <1>0, OthersStay DEF Goes, Migrates, Examine, CopyStarts, CopyEnds, Rename,
     filesRest, others
<1>2. Good' = Good /\ Good \subseteq Files
  BY <1>0, <1>1 DEF Good
<1>p. ASSUME proc[p].pc \in PairSteps
      PROVE  Current(p) \in Files /\ proc[p].at \in 1..Len(Pairs)
  BY <1>0, <1>p, FilesOfPairs DEF Typed, PairsOK, Current
<1>s. \A q \in Procs \ {p} : ~At(q, "copy") /\ ~At(q, "copying") /\ ~At(q, "rename")
  BY DEF Migrating, MigrationSteps, At
<1>h. InHand(p) /\ Earlier(p)
  BY DEF Keep, Working
<1>off. ASSUME Goto(p, "off"), proc[p].pc \in {"copy", "rename"},
               UNCHANGED <<legacy, backup, file, open>>
        PROVE  Keep'
  <2>1. proc'[p].pc = "off" /\ proc'[p].memo = proc[p].memo
    BY <1>0, <1>off DEF Goto, Process
  <2>2. proc[p].memo.stamped => Kept
    BY DEF Keep, Over
  <2> QED
    BY <1>1, <1>off, <2>1, <2>2, BeyondSteps, QuietKeeps
<1>3. CASE Examine(p)
  <2>1. UNCHANGED <<legacy, backup, file, open>> /\ proc[p].pc = "examine"
    BY <1>3 DEF Examine, files, At
  <2>2. Somewhere'
    BY <1>1, <2>1 DEF Keep, Somewhere
  <2>3. CASE Current(p) \in legacy /\ file[Current(p)].kind = "absent" /\ Goto(p, "copy")
    <3>1. /\ proc'[p].pc = "copy" /\ proc'[p].at = proc[p].at
          /\ proc'[p].memo = proc[p].memo /\ Current(p)' = Current(p)
      BY <1>0, <2>3 DEF Goto, Process, Current
    <3>2. Single'
      BY <1>1, <1>2 DEF Keep, Single, Migrating
    <3>3. Whole'
      BY <1>1, <1>2, <1>s, <2>1 DEF Keep, Whole, At
    <3>4. ASSUME NEW q \in Procs \ {p} PROVE InHand(q)' /\ Earlier(q)'
      BY <1>1, <1>2, <2>1, <3>4, SameHands DEF Keep, Working
    <3>5. InHand(p)'
      BY <2>1, <2>3, <3>1 DEF InHand, At
    <3>6. Earlier(p)'
      BY <1>2, <1>h, <2>1, <3>1 DEF Earlier, PairSteps
    <3>7. Working'
      BY <3>4, <3>5, <3>6 DEF Working
    <3>8. Over'
      BY <1>1, <1>2, <2>1, <3>1, BeyondSteps DEF Keep, Over, Kept, PairSteps
    <3>9. Memos'
      BY <1>1, <1>2, <2>1, <3>1 DEF Keep, Memos
    <3> QED
      BY <2>2, <3>2, <3>3, <3>7, <3>8, <3>9 DEF Keep
  <2>4. CASE NextPair(p) /\ ~(Current(p) \in legacy /\ file[Current(p)].kind = "absent")
    <3>1. \A q \in Procs : ~At(q, "copying")
      BY <1>s, <2>1 DEF At
    <3>2. Current(p) \in Good => file[Current(p)].kind = "records"
      BY <2>4, <3>1 DEF Keep, Whole
    <3> QED
      BY <1>1, <2>1, <2>2, <2>4, <3>2, NextPairKeeps
  <2> QED
    BY <1>3, <2>3, <2>4 DEF Examine
<1>4. CASE CopyStarts(p)
  <2>1. legacy' = legacy /\ backup' = backup /\ proc[p].pc = "copy"
    BY <1>4 DEF CopyStarts, At
  <2>2. CASE Goto(p, "off") /\ UNCHANGED <<file, open>>
    BY <1>off, <2>1, <2>2
  <2>3. CASE /\ Current(p) \in legacy /\ Goto(p, "copying")
             /\ file' = [file EXCEPT ![Current(p)] = Torn] /\ open' = open \cup {p}
    <3>1. /\ proc'[p].pc = "copying" /\ proc'[p].at = proc[p].at
          /\ proc'[p].memo = proc[p].memo /\ Current(p)' = Current(p)
      BY <1>0, <2>3 DEF Goto, Process, Current
    <3>2. /\ Current(p) \in Files
          /\ Current(p) \in Good => file[Current(p)].kind = "absent"
      BY <1>p, <1>h, <2>1 DEF InHand, At, PairSteps
    <3>3. /\ file'[Current(p)].kind = "torn" /\ file'[Current(p)].stamped = FALSE
          /\ \A f \in Files \ {Current(p)} : file'[f] = file[f]
      BY <1>0, <2>3, <3>2 DEF Torn, Absent
    <3>4. Kept => Kept'
      BY <1>2, <3>2, <3>3 DEF Kept
    <3>5. Somewhere' /\ Single'
      BY <1>1, <1>2, <2>1 DEF Keep, Somewhere, Single, Migrating
    <3>6. Whole'
      <4> SUFFICES ASSUME NEW f \in Good
                   PROVE  /\ \/ file'[f].kind \in {"absent", "records"}
                             \/ file'[f].kind = "torn"
                                /\ \E q \in Procs : At(q, "copying")' /\ Current(q)' = f
                          /\ f \notin legacy => file'[f].kind = "records"
        BY <1>2, <2>1 DEF Whole
      <4>1. CASE f = Current(p)
        BY <2>3, <3>1, <3>3, <4>1 DEF At
      <4>2. CASE f # Current(p)
        <5>1. file'[f] = file[f] /\ \A q \in Procs : ~At(q, "copying")
          BY <1>2, <1>s, <2>1, <3>3, <4>2 DEF At
        <5> QED
          BY <5>1 DEF Keep, Whole
      <4> QED
        BY <4>1, <4>2
    <3>7. ASSUME NEW q \in Procs PROVE Earlier(q)'
      <4>1. Earlier(q) /\ (proc'[q].pc \in PairSteps => proc[q].pc \in PairSteps)
            /\ proc'[q].at = proc[q].at
        BY <1>1, <2>1, <3>1 DEF Keep, Working, PairSteps
      <4>2. \A f \in Good : file[f].kind = "records" => file'[f].kind = "records"
        BY <1>2, <3>2, <3>3
      <4> QED
        BY <1>2, <4>1, <4>2 DEF Earlier
    <3>8. ASSUME NEW q \in Procs \ {p} PROVE InHand(q)'
      BY <1>1, <1>s DEF InHand, At
    <3>9. InHand(p)'
      BY <2>3, <3>1, <3>3 DEF InHand, At
    <3>10. Working'
      BY <3>7, <3>8, <3>9 DEF Working
    <3>11. Over'
      BY <1>1, <3>1, <3>3, <3>4, BeyondSteps DEF Keep, Over, PairSteps
    <3>12. Memos'
      BY <1>1, <1>2, <3>1, <3>2, <3>3 DEF Keep, Memos
    <3> QED
      BY <3>5, <3>6, <3>10, <3>11, <3>12 DEF Keep
  <2> QED
    BY <1>4, <2>2, <2>3 DEF CopyStarts, Put
<1>5. CASE CopyEnds(p)
  <2>1. /\ legacy' = legacy /\ backup' = backup /\ proc[p].pc = "copying"
        /\ open' = open \ {p} /\ Others(p) = {}
    <3>1. Others(p) = {}
      BY <1>0, <1>s DEF Others, Typed, TypeOK, PairsOK, At
    <3> QED
      BY <1>5, <3>1 DEF CopyEnds, At
  <2>2. /\ proc'[p].pc = "rename" /\ proc'[p].at = proc[p].at
        /\ proc'[p].memo = proc[p].memo /\ Current(p)' = Current(p)
    BY <1>0, <1>5 DEF CopyEnds, Goto, Process, Current
  <2>3. Current(p) \in Files /\ (Current(p) \in Good => p \in open)
    BY <1>p, <1>h, <2>1 DEF InHand, At, PairSteps
  <2>4. /\ Current(p) \in Good => file'[Current(p)].kind = "records"
        /\ \A f \in Files : file'[f] = file[f] \/ file'[f].stamped = FALSE
        /\ \A f \in Files \ {Current(p)} : file'[f] = file[f]
    <3>1. CASE p \in open /\ Others(p) = {} /\ Put(Current(p), Records)
      BY <1>0, <2>3, <3>1 DEF Put, Records, Absent
    <3>2. CASE ~(p \in open /\ Others(p) = {}) /\ UNCHANGED <<file, summaries>>
      BY <2>1, <2>3, <3>2
    <3> QED
      BY <1>5, <3>1, <3>2 DEF CopyEnds
  <2>5. \A f \in Good : file[f].kind = "records" => file'[f].kind = "records"
    BY <1>2, <2>4
  <2>6. Kept => Kept'
    BY <1>2, <2>5 DEF Kept
  <2>7. Somewhere' /\ Single'
    BY <1>1, <1>2, <2>1 DEF Keep, Somewhere, Single, Migrating
  <2>8. Whole'
    <3>1. \A q \in Procs \ {p} : ~At(q, "copying")
      BY <1>s
    <3>2. \A f \in Good \ {Current(p)} : file'[f] = file[f]
                                         /\ file[f].kind \in {"absent", "records"}
      BY <1>2, <2>4, <3>1 DEF Keep, Whole
    <3>3. \A f \in Good : f \notin legacy => file[f].kind = "records"
      BY DEF Keep, Whole
    <3>4. \A f \in Good : file'[f].kind \in {"absent", "records"}
      BY <2>4, <3>2
    <3> QED
      BY <1>2, <2>1, <2>5, <3>3, <3>4 DEF Whole
  <2>9. ASSUME NEW q \in Procs PROVE Earlier(q)'
    <3>1. Earlier(q) /\ (proc'[q].pc \in PairSteps => proc[q].pc \in PairSteps)
          /\ proc'[q].at = proc[q].at
      BY <1>1, <2>1, <2>2 DEF Keep, Working, PairSteps
    <3> QED
      BY <1>2, <2>5, <3>1 DEF Earlier
  <2>10. ASSUME NEW q \in Procs \ {p} PROVE InHand(q)'
    BY <1>1, <1>s DEF InHand, At
  <2>11. InHand(p)'
    BY <1>2, <2>2, <2>4 DEF InHand, At
  <2>12. Working'
    BY <2>9, <2>10, <2>11 DEF Working
  <2>13. Over'
    BY <1>1, <2>2, <2>4, <2>6, BeyondSteps DEF Keep, Over, PairSteps
  <2>14. Memos'
    BY <1>1, <1>2, <2>2, <2>5 DEF Keep, Memos
  <2> QED
    BY <2>7, <2>8, <2>12, <2>13, <2>14 DEF Keep
<1>6. CASE Rename(p)
  <2>1. /\ file' = file /\ open' = open /\ proc[p].pc = "rename"
    BY <1>6 DEF Rename, At
  <2>2. CASE Goto(p, "off") /\ UNCHANGED <<legacy, backup>>
    BY <1>off, <2>1, <2>2
  <2>3. CASE /\ legacy' = legacy \ {Current(p)} /\ backup' = backup \cup {Current(p)}
             /\ NextPair(p)
    <3>1. Current(p) \in Good => file[Current(p)].kind = "records"
      BY <1>h, <2>1 DEF InHand, At
    <3>2. Somewhere'
      BY <1>1, <2>3 DEF Keep, Somewhere
    <3> QED
      BY <1>1, <2>1, <2>3, <3>1, <3>2, NextPairKeeps
  <2> QED
    BY <1>6, <2>2, <2>3 DEF Rename
<1> QED
  BY <1>3, <1>4, <1>5, <1>6

LEMMA MigratesKeeps ==
    ASSUME ProcessAssumption, Keep, Typed', NEW p \in Procs,
           Examine(p) \/ CopyStarts(p) \/ CopyEnds(p) \/ Rename(p)
    PROVE  Keep'
<1>1. CASE \A q \in Procs \ {p} : ~Migrating(q)
  BY <1>1, MigratesAlone
<1>2. CASE \E q \in Procs \ {p} : Migrating(q)
  <2>1. Migrating(p)
    BY DEF Migrating, MigrationSteps, Examine, CopyStarts, CopyEnds, Rename, At
  <2>2. Good = {} /\ Somewhere
    BY <1>2, <2>1 DEF Keep, Single
  <2>3. UNCHANGED <<had, spoiled>>
    BY DEF Examine, CopyStarts, CopyEnds, Rename, filesRest
  <2>4. had \subseteq legacy' \cup backup'
    BY <2>2 DEF Somewhere, Examine, CopyStarts, CopyEnds, Rename, files
  <2> QED
    BY <2>2, <2>3, <2>4, NothingGood DEF Good, Somewhere
<1> QED
  BY <1>1, <1>2

\* A process saves monitor_state.json: its records, if they are there, were
\* among what it loaded.
LEMMA SavesKeep ==
    ASSUME ProcessAssumption, Keep, Typed', NEW p \in Procs,
           StampSaves(p) \/ DaySaves(p)
    PROVE  Keep'
<1>0. /\ Typed /\ proc \in [Procs -> Process] /\ proc[p] \in Process
      /\ had \subseteq Files /\ file \in [Files -> Content] /\ MonitorState \in Files
  BY FilesOfPairs DEF Keep, Typed, TypeOK
<1>1. /\ \A q \in Procs \ {p} : proc'[q] = proc[q]
      /\ UNCHANGED <<legacy, backup, had, spoiled, update>>
  BY <1>0, OthersStay DEF Goes, Migrates, Alerts, StampSaves, DaySaves, filesRest,
     alertsRest, others
<1>2. proc[p].pc \in {"stamp_save", "day_save"} /\ proc[p].pc \in Beyond /\ Kept
  <2>1. proc[p].pc \in {"stamp_save", "day_save"}
    BY DEF StampSaves, DaySaves, At
  <2>2. proc[p].pc \in Beyond
    BY <2>1, BeyondSteps DEF Beyond, CycleSteps
  <2> QED
    BY <2>1, <2>2 DEF Keep, Over
<1>3. \E c \in Content : /\ Save(MonitorState, c)
                         /\ MonitorState \in Good => c.kind = "records"
  <2>1. MonitorState \in Good => proc[p].memo.kind = "records"
    BY <1>2 DEF Keep, Memos
  <2>2. proc[p].memo \in Content /\ proc[p].mem.last \in Nat
    BY <1>0 DEF Process, Memory
  <2>3. CASE StampSaves(p)
    <3> DEFINE c == [Resaved(proc[p].memo) EXCEPT !.stamped = TRUE]
    <3>1. c \in Content /\ Save(MonitorState, c)
      BY <2>2, <2>3, ContentTypes DEF StampSaves
    <3>2. MonitorState \in Good => c.kind = "records"
      BY <2>1, <2>2 DEF Resaved, Content
    <3> QED
      BY <3>1, <3>2
  <2>4. CASE DaySaves(p)
    <3> DEFINE c == [Resaved(proc[p].memo) EXCEPT !.day = proc[p].mem.last]
    <3>1. c \in Content /\ Save(MonitorState, c)
      BY <2>2, <2>4, ContentTypes DEF DaySaves
    <3>2. MonitorState \in Good => c.kind = "records"
      BY <2>1, <2>2 DEF Resaved, Content
    <3> QED
      BY <3>1, <3>2
  <2> QED
    BY <2>3, <2>4
<1>4. Good' = Good /\ Good \subseteq Files
  BY <1>0, <1>1 DEF Good
<1>5. Kept'
  BY <1>0, <1>2, <1>3, <1>4 DEF Kept, Save, Put
<1>6. /\ proc'[p].pc \in {"check_pid", "off", "loop"} /\ proc'[p].memo = proc[p].memo
  BY <1>0 DEF StampSaves, DaySaves, Goto, Afterwards, Process
<1>7. Memos'
  <2>1. update.on /\ update.file \in Good => file'[update.file].kind = "records"
    BY <1>4, <1>5 DEF Kept
  <2> QED
    BY <1>1, <1>4, <1>6, <2>1 DEF Keep, Memos
<1>8. Somewhere'
  BY <1>1 DEF Keep, Somewhere
<1>9. ~Migrating(p)'
  BY <1>6 DEF Migrating, MigrationSteps
<1> QED
  BY <1>1, <1>2, <1>5, <1>6, <1>7, <1>8, <1>9, KeptKeeps

LEMMA DieKeeps ==
    ASSUME ProcessAssumption, Keep, Typed', NEW p \in Procs, Die(p)
    PROVE  Keep'
<1>0. /\ Typed /\ proc \in [Procs -> Process] /\ proc[p] \in Process
      /\ spoiled \subseteq had
  BY DEF Keep, Somewhere, Typed, TypeOK
<1>1. /\ \A q \in Procs \ {p} : proc'[q] = proc[q]
      /\ UNCHANGED <<legacy, backup, file, had, update>> /\ open' = open \ {p}
      /\ proc'[p].pc = "off" /\ proc'[p].memo = proc[p].memo
  BY <1>0, OthersStay DEF Die, Goto, others, Process
<1>2. /\ Good' \subseteq Good
      /\ At(p, "copying") => Current(p) \notin Good'
  BY <1>1 DEF Die, Good
<1>3. Somewhere'
  BY <1>0, <1>1 DEF Die, Keep, Somewhere
<1>4. Single'
  <2>1. \A q \in Procs : Migrating(q)' => Migrating(q)
    BY <1>1, BeyondSteps DEF Migrating
  <2> QED
    BY <1>2, <2>1 DEF Keep, Single
<1>5. Whole'
  <2>1. \A q \in Procs \ {p} : (At(q, "copying") => At(q, "copying")') /\ Current(q)' = Current(q)
    BY <1>1 DEF At, Current
  <2> QED
    BY <1>1, <1>2, <2>1 DEF Keep, Whole
<1>6. Working'
  <2>1. ASSUME NEW q \in Procs \ {p} PROVE InHand(q)' /\ Earlier(q)'
    BY <1>1, <1>2, <2>1, SameHands DEF Keep, Working
  <2>2. InHand(p)' /\ Earlier(p)'
    BY <1>1 DEF InHand, Earlier, At, PairSteps
  <2> QED
    BY <2>1, <2>2 DEF Working
<1>7. Kept => Kept'
  BY <1>1, <1>2 DEF Kept
<1>8. Over'
  BY <1>1, <1>7, BeyondSteps DEF Keep, Over
<1>9. Memos'
  BY <1>1, <1>2 DEF Keep, Memos
<1> QED
  BY <1>3, <1>4, <1>5, <1>6, <1>8, <1>9 DEF Keep

LEMMA UpdateSavesKeeps ==
    ASSUME ProcessAssumption, Keep, Typed', UpdateSaves
    PROVE  Keep'
<1> DEFINE f == update.file
<1>0. /\ Typed /\ had \subseteq Files /\ file \in [Files -> Content] /\ f \in Files
      /\ spoiled \subseteq had /\ update.memo \in Content
  BY DEF Keep, Somewhere, Typed, TypeOK
<1>1. /\ UNCHANGED <<legacy, backup, had, proc>> /\ update.on /\ update'.on = FALSE
      /\ Save(f, Resaved(update.memo))
  BY DEF UpdateSaves, NoUpdate
<1>2. /\ Good' \subseteq Good /\ Good \subseteq Files /\ spoiled' \subseteq had
      /\ f \in Good' => update.memo.kind = "records"
  BY <1>0, <1>1 DEF UpdateSaves, Good
<1>3. \A g \in Good' : file'[g].kind = file[g].kind
                       /\ (g = f => file[g].kind = "records")
  <2>1. f \in Good' => file[f].kind = "records"
    BY <1>1, <1>2 DEF Keep, Memos
  <2>2. update.memo.kind = "records" => Resaved(update.memo).kind = "records"
    BY DEF Resaved
  <2>3. \A g \in Files : file'[g] = IF g = f THEN Resaved(update.memo) ELSE file[g]
    BY <1>0, <1>1 DEF Save, Put
  <2> QED
    BY <1>2, <2>1, <2>2, <2>3
<1>4. \A g \in Files : file'[g].stamped => file[g].stamped \/ update.memo.stamped
  BY <1>0, <1>1 DEF Save, Put, Resaved, Content
<1>5. Kept => Kept'
  BY <1>2, <1>3 DEF Kept
<1> HIDE DEF f
<1>6. Somewhere' /\ Single'
  BY <1>1, <1>2 DEF Keep, Somewhere, Single, Migrating
<1>7. Whole'
  <2>1. \A q \in Procs : At(q, "copying")' = At(q, "copying") /\ Current(q)' = Current(q)
    BY <1>1 DEF At, Current
  <2> QED
    BY <1>1, <1>2, <1>3, <2>1 DEF Keep, Whole
<1>8. Working'
  <2> SUFFICES ASSUME NEW q \in Procs PROVE InHand(q)' /\ Earlier(q)'
    BY DEF Working
  <2>1. InHand(q) /\ Earlier(q) /\ Current(q)' = Current(q)
    BY <1>1 DEF Keep, Working, Current
  <2>2. Earlier(q)'
    BY <1>1, <1>2, <1>3, <2>1 DEF Earlier
  <2>3. InHand(q)'
    <3>1. At(q, "copying") /\ Current(q) \in Good' => q \in open'
      BY <1>1, <1>2, <1>3, <2>1 DEF InHand, Save, Current
    <3> QED
      BY <1>1, <1>2, <1>3, <2>1, <3>1 DEF InHand, At
  <2> QED
    BY <2>2, <2>3
<1>9. Over'
  BY <1>1, <1>4, <1>5 DEF Keep, Over
<1>10. Memos'
  BY <1>1, <1>2 DEF Keep, Memos
<1> QED
  BY <1>6, <1>7, <1>8, <1>9, <1>10 DEF Keep

LEMMA HappensKeeps ==
    ASSUME ProcessAssumption, Keep, Typed', Happens
    PROVE  Keep'
<1>1. CASE UpdateSaves
  BY <1>1, UpdateSavesKeeps
<1>2. CASE EditConfig \/ StopReads \/ StopActs \/ QueueChanges \/ NewDay
  <2>1. UNCHANGED <<legacy, backup, file, open, had, spoiled, proc, update>>
    BY <1>2 DEF EditConfig, StopReads, StopActs, QueueChanges, NewDay, files, others
  <2> QED
    BY <2>1 DEF Keep, Somewhere, Single, Whole, Working, InHand, Earlier, Over, Memos,
       Kept, Good, Migrating, Current, At
<1>3. CASE \E f \in Files : UpdateLoads(f)
  <2>1. UNCHANGED <<legacy, backup, file, open, had, spoiled, proc>>
    BY <1>3 DEF UpdateLoads, files
  <2>2. \E f \in Files : update'.file = f /\ update'.memo = file[f]
    BY <1>3 DEF UpdateLoads
  <2>3. Somewhere' /\ Single' /\ Whole' /\ Working'
    BY <2>1 DEF Keep, Somewhere, Single, Whole, Working, InHand, Earlier, Good,
       Migrating, Current, At
  <2>4. Over' /\ Memos'
    BY <2>1, <2>2 DEF Keep, Over, Memos, Kept, Good
  <2> QED
    BY <2>3, <2>4 DEF Keep
<1> QED
  BY <1>1, <1>2, <1>3 DEF Happens

LEMMA NextKeeps ==
    ASSUME ProcessAssumption, Keep, [Next]_vars
    PROVE  Keep'
<1>0. Typed'
  BY NextTyped DEF Keep
<1>1. CASE UNCHANGED vars
  <2>1. UNCHANGED <<legacy, backup, file, open, had, spoiled, proc, update>>
    BY <1>1 DEF vars, files, others
  <2> QED
    BY <1>0, <2>1 DEF Keep, Somewhere, Single, Whole, Working, InHand, Earlier, Over,
       Memos, Kept, Good, Migrating, Current, At
<1>2. CASE Happens
  BY <1>0, <1>2, HappensKeeps
<1>3. ASSUME NEW p \in Procs,
             \/ \E role \in {"monitor", "migrate"} : StartMigration(p, role)
             \/ Goes(p) \/ LoopFails(p) \/ Die(p) \/ CoolingEnds(p)
      PROVE  Keep'
  BY <1>0, <1>3, StartMigrationKeeps, MigratesKeeps, SavesKeep, SteadyKeeps, DieKeeps
     DEF Goes, Starts, Configures, Migrates
<1> QED
  BY <1>1, <1>2, <1>3 DEF Next

\* The records of a legacy file are in it or in its backup, and a running
\* monitor works from a new file that has them, unless the migration of that
\* file was interfered with.
THEOREM UpgradeKeeps == Spec => []UpgradeKeepsRecords
<1>1. Init => Keep
  BY ProcessAssumption, InitKeep
<1>2. Keep /\ [Next]_vars => Keep'
  BY ProcessAssumption, NextKeeps
<1>3. Keep => UpgradeKeepsRecords
  BY KeepImplies
<1> QED
  BY <1>1, <1>2, <1>3, PTL DEF Spec

-----------------------------------------------------------------------------
(* The mails are rationed.                                                 *)

\* The daily limit and the cooldown: a memory m accounts for the mails g.
Daily(m, g) ==
    /\ m.day <= today
    /\ g.today <= Limit
    /\ m.day = today => g.today <= m.sent
    /\ m.day # today => g.today = 0 /\ g.fails <= g.nights
    /\ g.fails <= 1 + g.nights /\ (~m.cooling => g.fails <= g.nights)

\* The latches and the day of the last summary.
Latched(m, g) ==
    /\ g.low <= 1 /\ (g.low > 0 => m.low)
    /\ g.empty <= 1 /\ (g.empty > 0 => m.empty)
    /\ g.summaries <= 1 /\ (g.summaries > 0 => m.last = today)

\* Before its first cycle a process has sent nothing.
Fresh(p) == proc[p].pc \notin CycleSteps \cup {"clean", "unlock", "off"}

RationInv ==
    /\ Typed
    /\ \A p \in Procs : /\ Daily(proc[p].mem, got[p])
                        /\ Latched(proc[p].mem, got[p])
                        /\ Fresh(p) => got[p] = NoMails

LEMMA RationImplies == ASSUME RationInv PROVE AlertsAreRationed
BY Z3 DEF RationInv, Daily, Latched, AlertsAreRationed

LEMMA InitRation == ASSUME ProcessAssumption, Init PROVE RationInv
<1>1. \A p \in Procs : /\ proc[p].mem.day = 0 /\ proc[p].mem.sent = 0
                       /\ got[p] = NoMails /\ today = 1 /\ Limit \in Nat
  BY DEF Init, NotStarted, ProcessAssumption
<1>2. /\ NoMails.today = 0 /\ NoMails.fails = 0 /\ NoMails.low = 0
      /\ NoMails.empty = 0 /\ NoMails.summaries = 0 /\ NoMails.nights = 0
  BY DEF NoMails, Accounts
<1>3. ASSUME NEW p \in Procs PROVE Daily(proc[p].mem, got[p]) /\ Latched(proc[p].mem, got[p])
  <2> DEFINE m == proc[p].mem
             g == got[p]
  <2>1. /\ m.day = 0 /\ m.sent = 0 /\ today = 1 /\ Limit \in Nat
        /\ g.today = 0 /\ g.fails = 0 /\ g.nights = 0
        /\ g.low = 0 /\ g.empty = 0 /\ g.summaries = 0
    BY <1>1, <1>2
  <2> HIDE DEF m, g
  <2>2. Daily(m, g)
    BY <2>1 DEF Daily
  <2>3. Latched(m, g)
    BY <2>1 DEF Latched
  <2> QED
    BY <2>2, <2>3 DEF m, g
<1> QED
  BY <1>1, <1>3, InitTyped DEF RationInv

\* What trying to send a mail does to the account.
LEMMA OutcomeAccount ==
    ASSUME ProcessAssumption, today \in Nat, NEW m \in Memory, NEW g \in Mails, Daily(m, g),
           NEW kind \in {"fails", "hosts", "low", "empty", "summaries"},
           NEW o \in Outcomes(m, kind) \cup {NoMail(m)},
           NEW h, h = IF o.told THEN Told(g, kind) ELSE g
    PROVE  /\ Daily(o.mem, h)
           /\ o.mem.low = m.low /\ o.mem.empty = m.empty /\ o.mem.last = m.last
           /\ o.told => o.ok
           /\ h.low = (IF o.told /\ kind = "low" THEN g.low + 1 ELSE g.low)
           /\ h.empty = (IF o.told /\ kind = "empty" THEN g.empty + 1 ELSE g.empty)
           /\ h.summaries = (IF o.told /\ kind = "summaries" THEN g.summaries + 1
                                                             ELSE g.summaries)
<1> DEFINE d == NewDaySeen(m)
<1>0. Limit \in Nat
  BY DEF ProcessAssumption
<1>1. /\ d \in Memory /\ Daily(d, g) /\ d.day = today
      /\ d.low = m.low /\ d.empty = m.empty /\ d.last = m.last
  <2>1. CASE m.day = today
    BY <2>1 DEF NewDaySeen
  <2>2. CASE m.day # today
    <3>1. d = [m EXCEPT !.day = today, !.sent = 0, !.cooling = FALSE]
      BY <2>2 DEF NewDaySeen
    <3>a. d \in Memory
      BY DEF NewDaySeen, Memory
    <3>b. d.day = today /\ d.sent = 0 /\ d.last = m.last
      BY <3>1 DEF Memory
    <3>c. d.low = m.low /\ d.empty = m.empty
      BY <3>1 DEF Memory
    <3>2. /\ d \in Memory /\ d.day = today /\ d.sent = 0
          /\ d.low = m.low /\ d.empty = m.empty /\ d.last = m.last
      BY <3>a, <3>b, <3>c
    <3>3. g.today = 0 /\ g.fails <= g.nights /\ g.fails <= 1 + g.nights
      BY <2>2 DEF Daily
    <3> HIDE DEF d
    <3> QED
      BY <1>0, <3>2, <3>3 DEF Daily
  <2> QED
    BY <2>1, <2>2
<1>2. CASE o = NoMail(m)
  BY <1>2 DEF NoMail
<1>3. CASE o.mem = d /\ ~o.told
  BY <1>1, <1>3
<1>4. CASE /\ o.mem = Counted(d, kind) /\ o.told /\ o.ok /\ ~Rationed(d, kind)
  <2> DEFINE c == d.cooling \/ kind = "fails"
             n == [d EXCEPT !.sent = d.sent + 1, !.cooling = c]
  <2>1. o.mem = n /\ h = Told(g, kind)
    BY <1>4 DEF Counted
  <2>2. d.sent < Limit /\ (kind = "fails" => ~d.cooling)
    BY <1>0, <1>1, <1>4 DEF Rationed, Memory
  <2>3. /\ h.today = g.today + 1
        /\ h.fails = (IF kind = "fails" THEN g.fails + 1 ELSE g.fails)
        /\ h.low = (IF kind = "low" THEN g.low + 1 ELSE g.low)
        /\ h.empty = (IF kind = "empty" THEN g.empty + 1 ELSE g.empty)
        /\ h.summaries = (IF kind = "summaries" THEN g.summaries + 1 ELSE g.summaries)
        /\ h.nights = g.nights
    BY <2>1 DEF Told, Mails, Accounts
  <2>4. /\ n.day = today /\ n.sent = d.sent + 1 /\ n.cooling = c
        /\ n.low = d.low /\ n.empty = d.empty /\ n.last = d.last
    BY <1>1 DEF Memory
  <2>5. d.sent \in Nat /\ g.today \in Nat /\ g.fails \in Nat /\ g.nights \in Nat
    BY <1>1 DEF Memory, Mails, Accounts
  <2>6. kind = "fails" => c
    OBVIOUS
  <2>7. d.cooling => c
    OBVIOUS
  <2> HIDE DEF d, c, n
  <2>8. h.today <= Limit /\ h.today <= n.sent
    <3>1. g.today <= d.sent /\ h.today = g.today + 1 /\ n.sent = d.sent + 1
          /\ d.sent < Limit
      BY <1>1, <2>2, <2>3, <2>4 DEF Daily
    <3>2. g.today + 1 <= d.sent + 1 /\ g.today + 1 <= Limit
      BY <1>0, <2>5, <3>1
    <3> QED
      BY <3>1, <3>2
  <2>9. h.fails <= 1 + h.nights /\ (~n.cooling => h.fails <= h.nights)
    <3>1. g.fails <= 1 + g.nights /\ (~d.cooling => g.fails <= g.nights)
      BY <1>1 DEF Daily
    <3>2. CASE kind = "fails"
      <4>1. h.fails = g.fails + 1 /\ h.nights = g.nights /\ g.fails <= g.nights
            /\ n.cooling
        BY <2>2, <2>3, <2>4, <2>6, <3>1, <3>2
      <4> QED
        BY <2>5, <4>1
    <3>3. CASE kind # "fails"
      BY <2>3, <2>4, <2>7, <3>1, <3>3
    <3> QED
      BY <3>2, <3>3
  <2>10. Daily(n, h)
    BY <1>0, <2>4, <2>8, <2>9 DEF Daily
  <2> QED
    BY <1>1, <1>4, <2>1, <2>3, <2>4, <2>10
<1>5. \/ o = NoMail(m)
      \/ o.mem = d /\ ~o.told
      \/ o.mem = Counted(d, kind) /\ o.told /\ o.ok /\ ~Rationed(d, kind)
  <2>1. CASE Rationed(d, kind)
    BY <2>1 DEF Outcomes
  <2>2. CASE ~Rationed(d, kind)
    BY <2>2 DEF Outcomes
  <2> QED
    BY <2>1, <2>2
<1> QED
  BY <1>2, <1>3, <1>4, <1>5

LEMMA OneAccount ==
    ASSUME RationInv, Typed', NEW p \in Procs, today' = today,
           \A q \in Procs \ {p} : proc'[q] = proc[q] /\ got'[q] = got[q],
           Daily(proc'[p].mem, got'[p]), Latched(proc'[p].mem, got'[p]),
           Fresh(p)' => got'[p] = NoMails
    PROVE  RationInv'
<1>1. ASSUME NEW q \in Procs \ {p}
      PROVE  /\ Daily(proc[q].mem, got[q])' /\ Latched(proc[q].mem, got[q])'
             /\ (Fresh(q) => got[q] = NoMails)'
  BY <1>1 DEF RationInv, Daily, Latched, Fresh
<1>2. Daily(proc[p].mem, got[p])' /\ Latched(proc[p].mem, got[p])'
  BY DEF Daily, Latched
<1> QED
  BY <1>1, <1>2 DEF RationInv

\* A step of p that is not about mails.
LEMMA NoMailSteps ==
    ASSUME ProcessAssumption, RationInv, Typed', NEW p \in Procs,
           \/ \E role \in {"monitor", "migrate"} : StartMigration(p, role)
           \/ Migrates(p) \/ Starts(p) \/ Configures(p)
           \/ LoopFails(p) \/ Die(p) \/ DayLoads(p) \/ DaySaves(p)
    PROVE  RationInv'
<1>0. /\ Typed /\ proc \in [Procs -> Process] /\ proc[p] \in Process
  BY DEF RationInv, Typed, TypeOK
<1>1. \A q \in Procs \ {p} : proc'[q] = proc[q]
  BY <1>0, OthersStay DEF Goes, Starts, Configures, Alerts
<1>2. today' = today /\ got' = got
  BY DEF StartMigration, Migrates, Examine, CopyStarts, CopyEnds, Rename, StampLoads,
     StampSaves, Starts, CheckPid, Unlink, Lock, PidOpens, PidWrites, Cleans, Unlocks,
     Configures, LoadConfig, Stat, Read, LoopFails, Die, DayLoads, DaySaves,
     filesRest, alertsRest, processRest, others
<1>3. proc'[p].mem = proc[p].mem /\ (Fresh(p)' => Fresh(p))
  <2>1. CASE \E role \in {"monitor", "migrate"} : StartMigration(p, role)
    BY <1>0, <2>1 DEF StartMigration, At, Fresh, CycleSteps, Process
  <2>2. CASE Migrates(p)
    <3>1. Fresh(p)
      BY <2>2 DEF Migrates, Examine, CopyStarts, CopyEnds, Rename, StampLoads,
         StampSaves, At, Fresh, CycleSteps
    <3> QED
      BY <1>0, <2>2, <3>1 DEF Migrates, Examine, CopyStarts, CopyEnds, Rename,
         StampLoads, StampSaves, Goto, NextPair, Process
  <2>3. CASE Starts(p)
    BY <1>0, <2>3 DEF Starts, CheckPid, Unlink, Lock, PidOpens, PidWrites, Cleans,
       Unlocks, At, Goto, Fresh, CycleSteps, Process
  <2>4. CASE Configures(p)
    BY <1>0, <2>4 DEF Configures, LoadConfig, Stat, Read, At, Goto, Fresh, CycleSteps,
       Process
  <2>5. CASE LoopFails(p) \/ Die(p) \/ DayLoads(p) \/ DaySaves(p)
    BY <1>0, <2>5 DEF LoopFails, Die, DayLoads, DaySaves, At, Goto, Fresh, CycleSteps,
       Process
  <2> QED
    BY <2>1, <2>2, <2>3, <2>4, <2>5
<1> QED
  BY <1>1, <1>2, <1>3, OneAccount DEF RationInv

LEMMA MailSteps ==
    ASSUME ProcessAssumption, RationInv, Typed', NEW p \in Procs,
           FailsMail(p) \/ LowMail(p) \/ EmptyMail(p) \/ SummaryMail(p)
    PROVE  RationInv'
<1> DEFINE m == proc[p].mem
           g == got[p]
<1>0. /\ Typed /\ proc \in [Procs -> Process] /\ proc[p] \in Process
      /\ m \in Memory /\ g \in Mails /\ qlen \in Nat /\ today \in Nat
      /\ got \in [Procs -> Mails]
  BY DEF RationInv, Typed, TypeOK, Process
<1>1. Daily(m, g) /\ Latched(m, g)
  BY DEF RationInv
<1>2. /\ \A q \in Procs \ {p} : proc'[q] = proc[q]
      /\ today' = today
  BY <1>0, OthersStay DEF Goes, Alerts, FailsMail, LowMail, EmptyMail, SummaryMail,
     alertsRest, others
\* Where all four end.
<1>e. ASSUME NEW kind \in {"fails", "hosts", "low", "empty", "summaries"},
             NEW o, NEW mem, NEW h \in Mails,
             NEW pc \in CycleSteps, Mailed(p, kind, o, mem, h, pc),
             Daily(mem, IF o.told THEN Told(h, kind) ELSE h),
             Latched(mem, IF o.told THEN Told(h, kind) ELSE h)
      PROVE  RationInv'
  <2>1. /\ proc'[p].mem = mem /\ proc'[p].pc = pc
        /\ got'[p] = IF o.told THEN Told(h, kind) ELSE h
        /\ \A q \in Procs \ {p} : got'[q] = got[q]
    BY <1>0, <1>e DEF Mailed, Process
  <2>2. ~Fresh(p)'
    BY <2>1 DEF Fresh
  <2> QED
    BY <1>2, <1>e, <2>1, <2>2, OneAccount
<1>c. {"fails", "low", "empty", "summary", "loop", "day_load"} \subseteq CycleSteps
  BY DEF CycleSteps
<1>3. CASE FailsMail(p)
  <2>1. CASE Goto(p, "low") /\ UNCHANGED got
    <3>1. proc'[p].mem = m /\ proc'[p].pc = "low" /\ got' = got
      BY <1>0, <2>1 DEF Goto, Process
    <3>2. ~Fresh(p)'
      BY <1>c, <3>1 DEF Fresh
    <3> QED
      BY <1>1, <1>2, <3>1, <3>2, OneAccount
  <2>2. CASE \E kind \in {"fails", "hosts"} : \E o \in Outcomes(m, kind) :
                Mailed(p, kind, o, o.mem, g, "fails")
    <3>1. PICK kind \in {"fails", "hosts"} : \E o \in Outcomes(m, kind) :
                Mailed(p, kind, o, o.mem, g, "fails")
      BY <2>2
    <3>2. PICK o \in Outcomes(m, kind) : Mailed(p, kind, o, o.mem, g, "fails")
      BY <3>1
    <3> DEFINE h == IF o.told THEN Told(g, kind) ELSE g
    <3>3. /\ Daily(o.mem, h) /\ h.low = g.low /\ h.empty = g.empty
          /\ h.summaries = g.summaries
          /\ o.mem.low = m.low /\ o.mem.empty = m.empty /\ o.mem.last = m.last
      BY <1>0, <1>1, OutcomeAccount
    <3>4. Latched(o.mem, h)
      BY <1>1, <3>3 DEF Latched
    <3>5. Daily(o.mem, h)
      BY <3>3
    <3> HIDE DEF h
    <3> QED
      BY <1>0, <1>c, <1>e, <3>2, <3>4, <3>5 DEF h
  <2> QED
    BY <1>3, <2>1, <2>2 DEF FailsMail
<1>4. CASE LowMail(p)
  <2> DEFINE n == [LatchesReset(m, qlen) EXCEPT !.len = qlen]
             s == SeenHealthy(g)
             wanted == 0 < qlen /\ qlen < Healthy /\ ~n.low
  <2>1. PICK o \in IF wanted THEN Outcomes(n, "low") ELSE {NoMail(n)} :
              Mailed(p, "low", o, [o.mem EXCEPT !.low = @ \/ o.ok], s, "empty")
    BY <1>4 DEF LowMail
  <2>2. n \in Memory /\ s \in Mails
    BY <1>0 DEF LatchesReset, Memory, SeenHealthy, Mails, Accounts
  <2>3. Daily(n, s) /\ Latched(n, s)
    <3>1. CASE qlen >= Healthy
      <4>0. s = [g EXCEPT !.low = 0, !.empty = 0]
        BY <3>1 DEF SeenHealthy
      <4>1. /\ s.low = 0 /\ s.empty = 0 /\ s.today = g.today /\ s.fails = g.fails
            /\ s.summaries = g.summaries /\ s.nights = g.nights
        BY <1>0, <4>0 DEF Mails, Accounts
      <4>2. /\ n.day = m.day /\ n.sent = m.sent /\ n.cooling = m.cooling /\ n.last = m.last
        BY <1>0, <3>1 DEF LatchesReset, Memory
      <4> HIDE DEF n, s
      <4> QED
        BY <1>1, <4>1, <4>2 DEF Daily, Latched
    <3>2. CASE ~(qlen >= Healthy)
      <4>1. s = g
        BY <3>2 DEF SeenHealthy
      <4>2. /\ n.day = m.day /\ n.sent = m.sent /\ n.cooling = m.cooling
            /\ n.last = m.last /\ n.low = m.low /\ n.empty = m.empty
        BY <1>0, <3>2 DEF LatchesReset, Memory
      <4> HIDE DEF n, s
      <4> QED
        BY <1>1, <4>1, <4>2 DEF Daily, Latched
    <3> QED
      BY <3>1, <3>2
  <2>4. o \in Outcomes(n, "low") \cup {NoMail(n)} /\ (o.told => ~n.low)
    BY <2>1 DEF NoMail
  <2> HIDE DEF n, s, wanted
  <2> DEFINE h == IF o.told THEN Told(s, "low") ELSE s
             l == o.mem.low \/ o.ok
             mem == [o.mem EXCEPT !.low = l]
  <2>5. /\ Daily(o.mem, h) /\ h.low = (IF o.told THEN s.low + 1 ELSE s.low)
        /\ h.empty = s.empty /\ h.summaries = s.summaries
        /\ o.mem.low = n.low /\ o.mem.empty = n.empty /\ o.mem.last = n.last
        /\ o.told => o.ok
    BY <1>0, <2>2, <2>3, <2>4, OutcomeAccount
  <2>6. o.mem \in Memory
    BY <1>0, <2>2, <2>4, OutcomeTypes
  <2>7. /\ mem.day = o.mem.day /\ mem.sent = o.mem.sent /\ mem.cooling = o.mem.cooling
        /\ mem.low = l /\ mem.empty = n.empty /\ mem.last = n.last
    BY <2>5, <2>6 DEF Memory
  <2>8. o.told => l
    BY <2>5
  <2>9. n.low => l
    BY <2>5
  <2>10. Mailed(p, "low", o, mem, s, "empty")
    BY <2>1
  <2>11. s.low \in Nat
    BY <2>2 DEF Mails, Accounts
  <2> HIDE DEF h, l, mem
  <2>12. Daily(mem, h)
    BY <2>5, <2>7 DEF Daily
  <2>13. Latched(mem, h)
    BY <2>3, <2>4, <2>5, <2>7, <2>8, <2>9, <2>11 DEF Latched
  <2> QED
    BY <1>c, <1>e, <2>2, <2>10, <2>12, <2>13 DEF h
<1>5. CASE EmptyMail(p)
  <2>1. PICK o \in IF m.len = 0 /\ ~m.empty THEN Outcomes(m, "empty") ELSE {NoMail(m)} :
              Mailed(p, "empty", o,
                     [o.mem EXCEPT !.low = @ \/ o.ok, !.empty = @ \/ o.ok], g, "summary")
    BY <1>5 DEF EmptyMail
  <2>4. o \in Outcomes(m, "empty") \cup {NoMail(m)} /\ (o.told => ~m.empty)
    BY <2>1 DEF NoMail
  <2> DEFINE h == IF o.told THEN Told(g, "empty") ELSE g
             l == o.mem.low \/ o.ok
             e == o.mem.empty \/ o.ok
             mem == [o.mem EXCEPT !.low = l, !.empty = e]
  <2>5. /\ Daily(o.mem, h) /\ h.empty = (IF o.told THEN g.empty + 1 ELSE g.empty)
        /\ h.low = g.low /\ h.summaries = g.summaries
        /\ o.mem.low = m.low /\ o.mem.empty = m.empty /\ o.mem.last = m.last
        /\ o.told => o.ok
    BY <1>0, <1>1, <2>4, OutcomeAccount
  <2>6. o.mem \in Memory
    BY <1>0, <2>4, OutcomeTypes
  <2>7. /\ mem.day = o.mem.day /\ mem.sent = o.mem.sent /\ mem.cooling = o.mem.cooling
        /\ mem.low = l /\ mem.empty = e /\ mem.last = m.last
    <3> HIDE DEF l, e
    <3> QED
      BY <2>5, <2>6 DEF Memory
  <2>8. (m.low => l) /\ (m.empty => e) /\ (o.told => e)
    BY <2>5
  <2>10. Mailed(p, "empty", o, mem, g, "summary")
    BY <2>1
  <2>11. g.empty \in Nat
    BY <1>0 DEF Mails, Accounts
  <2> HIDE DEF h, l, e, mem
  <2>12. Daily(mem, h)
    BY <2>5, <2>7 DEF Daily
  <2>13. Latched(mem, h)
    BY <1>1, <2>4, <2>5, <2>7, <2>8, <2>11 DEF Latched
  <2> QED
    BY <1>0, <1>c, <1>e, <2>10, <2>12, <2>13 DEF h
<1>6. CASE SummaryMail(p)
  <2>1. PICK o \in IF m.last # today THEN Outcomes(m, "summaries") ELSE {NoMail(m)} :
              Mailed(p, "summaries", o,
                     IF o.ok THEN [o.mem EXCEPT !.last = today] ELSE o.mem,
                     g, IF o.ok THEN "day_load" ELSE "loop")
    BY <1>6 DEF SummaryMail
  <2>4. /\ o \in Outcomes(m, "summaries") \cup {NoMail(m)}
        /\ o.told => m.last # today
    BY <2>1 DEF NoMail
  <2> DEFINE h == IF o.told THEN Told(g, "summaries") ELSE g
             mem == IF o.ok THEN [o.mem EXCEPT !.last = today] ELSE o.mem
             pc == IF o.ok THEN "day_load" ELSE "loop"
  <2>5. /\ Daily(o.mem, h)
        /\ h.summaries = (IF o.told THEN g.summaries + 1 ELSE g.summaries)
        /\ h.low = g.low /\ h.empty = g.empty
        /\ o.mem.low = m.low /\ o.mem.empty = m.empty /\ o.mem.last = m.last
        /\ o.told => o.ok
    BY <1>0, <1>1, <2>4, OutcomeAccount
  <2>6. o.mem \in Memory
    BY <1>0, <2>4, OutcomeTypes
  <2>7. /\ mem.day = o.mem.day /\ mem.sent = o.mem.sent /\ mem.cooling = o.mem.cooling
        /\ mem.low = m.low /\ mem.empty = m.empty
        /\ mem.last = IF o.ok THEN today ELSE m.last
    BY <2>5, <2>6 DEF Memory
  <2>10. Mailed(p, "summaries", o, mem, g, pc) /\ pc \in CycleSteps
    BY <1>c, <2>1
  <2>11. g.summaries \in Nat
    BY <1>0 DEF Mails, Accounts
  <2> HIDE DEF h, mem, pc
  <2>12. Daily(mem, h)
    BY <2>5, <2>7 DEF Daily
  <2>13. Latched(mem, h)
    BY <1>1, <2>4, <2>5, <2>7, <2>11 DEF Latched
  <2> QED
    BY <1>0, <1>e, <2>10, <2>12, <2>13 DEF h
<1> QED
  BY <1>3, <1>4, <1>5, <1>6

LEMMA NextRation ==
    ASSUME ProcessAssumption, RationInv, [Next]_vars
    PROVE  RationInv'
<1>0. Typed' /\ Typed /\ proc \in [Procs -> Process] /\ got \in [Procs -> Mails]
      /\ today \in Nat
  BY NextTyped DEF RationInv, Typed, TypeOK
<1>1. CASE UNCHANGED <<proc, got, today>>
  BY <1>0, <1>1 DEF RationInv, Daily, Latched, Fresh
<1>2. CASE Happens /\ ~NewDay
  <2>1. UNCHANGED <<proc, got, today>>
    BY <1>2 DEF Happens, EditConfig, StopReads, StopActs, UpdateSaves, UpdateLoads,
       QueueChanges, others
  <2> QED
    BY <1>1, <2>1
<1>3. CASE NewDay
  <2> SUFFICES ASSUME NEW p \in Procs
               PROVE  /\ Daily(proc[p].mem, got[p])' /\ Latched(proc[p].mem, got[p])'
                      /\ (Fresh(p) => got[p] = NoMails)'
    BY <1>0 DEF RationInv
  <2> DEFINE m == proc[p].mem
             g == got[p]
             n == IF g.fails > 0 THEN g.nights + 1 ELSE 0
             h == [g EXCEPT !.today = 0, !.summaries = 0, !.nights = n]
  <2>1. /\ today' = today + 1 /\ proc' = proc /\ got'[p] = h
    BY <1>3 DEF NewDay
  <2>a. g \in Mails /\ g.fails \in Nat /\ g.nights \in Nat
    <3>1. \A k \in Mails : k.fails \in Nat /\ k.nights \in Nat
      BY DEF Mails, Accounts
    <3> HIDE DEF n, h
    <3> QED
      BY <1>0, <3>1
  <2>b. g = NoMails => n = 0
    BY DEF NoMails, Accounts
  <2>c. g.fails <= 1 + g.nights => g.fails <= n /\ g.fails <= 1 + n
    BY <2>a
  <2> HIDE DEF n
  <2>2. /\ h.today = 0 /\ h.fails = g.fails /\ h.nights = n /\ h.summaries = 0
        /\ h.low = g.low /\ h.empty = g.empty
    <3>1. DOMAIN g = Accounts
      BY <2>a DEF Mails
    <3> QED
      BY <3>1 DEF Accounts
  <2>3. g = NoMails => h = NoMails
    BY <2>b DEF NoMails, Accounts
  <2>4. Daily(m, g) /\ Latched(m, g) /\ (Fresh(p) => g = NoMails)
    BY DEF RationInv
  <2>5. m.day \in Nat /\ Limit \in Nat
    BY <1>0 DEF Process, Memory, ProcessAssumption
  <2> HIDE DEF h
  <2>6. m.day <= today + 1 /\ m.day # today + 1
    BY <1>0, <2>4, <2>5 DEF Daily
  <2>7. Daily(m, got[p])'
    <3>1. h.fails <= h.nights /\ h.fails <= 1 + h.nights
      BY <2>2, <2>4, <2>c DEF Daily
    <3> QED
      BY <2>1, <2>2, <2>5, <2>6, <3>1 DEF Daily
  <2>8. Latched(m, got[p])'
    BY <2>1, <2>2, <2>4 DEF Latched
  <2> QED
    BY <2>1, <2>3, <2>4, <2>7, <2>8 DEF Fresh
<1>4. ASSUME NEW p \in Procs, LoadDay(p) PROVE RationInv'
  <2>1. /\ \A q \in Procs \ {p} : proc'[q] = proc[q]
        /\ UNCHANGED <<got, today>>
    BY <1>0, <1>4, OthersStay DEF Goes, Alerts, LoadDay, alertsRest, others
  <2>2. Fresh(p) /\ got[p] = NoMails
    BY <1>4 DEF LoadDay, At, Fresh, CycleSteps, RationInv
  <2>3. proc'[p].mem.day = today /\ proc'[p].mem.sent = proc[p].mem.sent
        /\ proc[p].mem.sent \in Nat
    BY <1>0, <1>4 DEF LoadDay, Process, Memory
  <2>4. /\ got[p].today = 0 /\ got[p].fails = 0 /\ got[p].nights = 0
        /\ got[p].low = 0 /\ got[p].empty = 0 /\ got[p].summaries = 0
    BY <2>2 DEF NoMails, Accounts
  <2>5. Daily(proc'[p].mem, got[p])
    BY <1>0, <2>3, <2>4 DEF Daily, ProcessAssumption
  <2>6. Latched(proc'[p].mem, got[p])
    BY <2>4 DEF Latched
  <2> QED
    BY <1>0, <2>1, <2>2, <2>5, <2>6, OneAccount
<1>5. ASSUME NEW p \in Procs, CoolingEnds(p) PROVE RationInv'
  <2> DEFINE m == proc[p].mem
             g == got[p]
             h == [g EXCEPT !.fails = 0, !.nights = 0]
  <2>1. /\ \A q \in Procs \ {p} : proc'[q] = proc[q] /\ got'[q] = got[q]
        /\ today' = today /\ got'[p] = h
    BY <1>0, <1>5, OthersStay DEF CoolingEnds, alertsRest, others
  <2>2. /\ proc'[p].pc = proc[p].pc /\ proc'[p].mem.day = m.day
        /\ proc'[p].mem.sent = m.sent /\ proc'[p].mem.last = m.last
    BY <1>0, <1>5 DEF CoolingEnds, Process, Memory
  <2>3. proc'[p].mem.low = m.low /\ proc'[p].mem.empty = m.empty
    BY <1>0, <1>5 DEF CoolingEnds, Process, Memory
  <2>4. /\ h.fails = 0 /\ h.nights = 0 /\ h.today = g.today
        /\ h.summaries = g.summaries /\ h.low = g.low /\ h.empty = g.empty
    BY <1>0 DEF Mails, Accounts
  <2>5. g = NoMails => h = NoMails
    BY DEF NoMails, Accounts
  <2>6. Daily(m, g) /\ Latched(m, g) /\ (Fresh(p) => g = NoMails)
    BY DEF RationInv
  <2> HIDE DEF h
  <2>7. Daily(proc'[p].mem, h)
    BY <2>2, <2>4, <2>6 DEF Daily
  <2>8. Latched(proc'[p].mem, h)
    BY <2>2, <2>3, <2>4, <2>6 DEF Latched
  <2>9. Fresh(p)' => got'[p] = NoMails
    BY <2>1, <2>2, <2>5, <2>6 DEF Fresh
  <2> QED
    BY <1>0, <2>1, <2>7, <2>8, <2>9, OneAccount
<1>6. ASSUME NEW p \in Procs,
             \/ \E role \in {"monitor", "migrate"} : StartMigration(p, role)
             \/ Goes(p) \/ LoopFails(p) \/ Die(p) \/ CoolingEnds(p)
      PROVE  RationInv'
  BY <1>0, <1>4, <1>5, <1>6, NoMailSteps, MailSteps DEF Goes, Starts, Configures, Alerts
<1> QED
  BY <1>1, <1>2, <1>3, <1>6 DEF Next, vars, others

\* One run of a monitor stays within the daily limit, sends one summary a day,
\* one job-failure mail per cooldown and one more for each midnight in it, and
\* says once that the queue is low or empty until it has seen it recover.
THEOREM AlertsRationed == Spec => []AlertsAreRationed
<1>1. Init => RationInv
  BY ProcessAssumption, InitRation
<1>2. RationInv /\ [Next]_vars => RationInv'
  BY ProcessAssumption, NextRation
<1>3. RationInv => AlertsAreRationed
  BY RationImplies
<1> QED
  BY <1>1, <1>2, <1>3, PTL DEF Spec

-----------------------------------------------------------------------------
(* One summary a day, whoever sends it.                                    *)

\* Nothing says that today's summary went out: neither monitor_state.json nor
\* a monitor that is about to write it there.
Unmarked ==
    /\ file[MonitorState].day # today
    /\ \A p \in Procs : ~Unsaved(p)

\* A running monitor that will send a summary.
Due(p) == proc[p].pc \in CycleSteps /\ proc[p].mem.last # today

SummaryInv ==
    /\ RationInv /\ AloneInv
    /\ today > 0
    /\ OneSummaryADay
    /\ Unmarked \/ (\E p \in Procs : Due(p)) => summaries.mailed <= summaries.undated

LEMMA InitSummary == ASSUME ProcessAssumption, Init PROVE SummaryInv
<1>1. summaries.mailed = 0 /\ summaries.undated = 0 /\ today = 1
  BY DEF Init, NoSummaries
<1> QED
  BY <1>1, InitRation, InitAlone DEF SummaryInv, OneSummaryADay

\* A step that mails no summary: it loses the date, or leaves what says that
\* one went out and nobody who would not know.
LEMMA NoSummary ==
    ASSUME SummaryInv, RationInv', AloneInv', today' = today,
           summaries'.mailed = summaries.mailed,
           \/ summaries'.undated = summaries.undated + 1
           \/ /\ summaries'.undated = summaries.undated
              /\ Unmarked' => Unmarked
              /\ \A q \in Procs : Due(q)' => Due(q) \/ Unmarked
    PROVE  SummaryInv'
<1>1. summaries.mailed \in Nat /\ summaries.undated \in Nat
  BY DEF SummaryInv, RationInv, Typed, TypeOK, Summaries
<1>2. CASE summaries'.undated = summaries.undated + 1
  BY <1>1, <1>2 DEF SummaryInv, OneSummaryADay
<1>3. CASE /\ summaries'.undated = summaries.undated
           /\ Unmarked' => Unmarked
           /\ \A q \in Procs : Due(q)' => Due(q) \/ Unmarked
  BY <1>1, <1>3 DEF SummaryInv, OneSummaryADay
<1> QED
  BY <1>2, <1>3

\* What writing a file does to the date in monitor_state.json.
LEMMA PutDate ==
    ASSUME ProcessAssumption, Typed, NEW f \in Files, NEW c \in Content, Put(f, c)
    PROVE  /\ summaries'.mailed = summaries.mailed
           /\ file'[MonitorState].day = IF f = MonitorState THEN c.day
                                                            ELSE file[MonitorState].day
           /\ IF f = MonitorState /\ file[f].day = today /\ c.day # today
              THEN summaries'.undated = summaries.undated + 1
              ELSE summaries' = summaries
<1>1. file \in [Files -> Content] /\ summaries \in Summaries /\ MonitorState \in Files
  BY FilesOfPairs DEF Typed, TypeOK
<1>2. file'[MonitorState] = IF f = MonitorState THEN c ELSE file[MonitorState]
  BY <1>1 DEF Put
<1>3. /\ Undated(TRUE).mailed = summaries.mailed
      /\ Undated(TRUE).undated = summaries.undated + 1
      /\ Undated(FALSE) = summaries
  BY <1>1 DEF Undated, Summaries
<1>4. \A lost \in BOOLEAN : lost = TRUE \/ lost = FALSE
  OBVIOUS
<1>5. CASE f = MonitorState /\ file[f].day = today /\ c.day # today
  <2>1. summaries' = Undated(TRUE)
    BY <1>5 DEF Put
  <2> QED
    BY <1>2, <1>3, <1>5, <2>1
<1>6. CASE ~(f = MonitorState /\ file[f].day = today /\ c.day # today)
  <2>1. summaries' = Undated(FALSE)
    BY <1>6 DEF Put
  <2> QED
    BY <1>2, <1>3, <1>6, <2>1
<1> QED
  BY <1>5, <1>6

\* A step that writes a state file, or none, and takes no monitor past its mails.
LEMMA PutSummary ==
    ASSUME ProcessAssumption, SummaryInv, RationInv', AloneInv', today' = today,
           \/ UNCHANGED <<file, summaries>>
           \/ \E f \in Files, c \in Content : Put(f, c),
           \A q \in Procs : (Unsaved(q) => Unsaved(q)') /\ (Due(q)' => Due(q))
    PROVE  SummaryInv'
<1>1. CASE UNCHANGED <<file, summaries>>
  BY <1>1, NoSummary DEF Unmarked
<1>2. CASE \E f \in Files, c \in Content : Put(f, c)
  <2>1. PICK f \in Files, c \in Content : Put(f, c)
    BY <1>2
  <2>2. Typed
    BY DEF SummaryInv, RationInv
  <2>3. \/ summaries'.undated = summaries.undated + 1
        \/ /\ summaries' = summaries
           /\ file[MonitorState].day = today => file'[MonitorState].day = today
    BY <2>1, <2>2, PutDate
  <2>4. MonitorState' = MonitorState
    BY DEF MonitorState
  <2> QED
    BY <2>1, <2>2, <2>3, <2>4, PutDate, NoSummary DEF Unmarked
<1> QED
  BY <1>1, <1>2

\* While one is at a step that needs the lock, no other has an unsaved summary.
LEMMA AloneUnsaved ==
    ASSUME AloneInv, NEW p \in Procs, proc[p].pc \in Holding,
           NEW q \in Procs \ {p}
    PROVE  proc[q].pc \notin CycleSteps /\ ~Unsaved(q) /\ ~Due(q)
<1>1. CycleSteps \subseteq Holding /\ {"day_load", "day_save"} \subseteq CycleSteps
  BY Unholding DEF CycleSteps
<1>2. proc[q].pc \notin Holding
  BY DEF AloneInv, LockInv
<1> QED
  BY <1>1, <1>2 DEF Unsaved, Due

LEMMA OthersUnsaved ==
    ASSUME NEW p \in Procs, today' = today,
           \A q \in Procs \ {p} : proc'[q] = proc[q] /\ got'[q] = got[q]
    PROVE  \A q \in Procs \ {p} : (Unsaved(q)' <=> Unsaved(q)) /\ (Due(q)' <=> Due(q))
BY DEF Unsaved, Due

\* The accounts of the others, and the day, through a step of p.
LEMMA OthersAccounts ==
    ASSUME ProcessAssumption, Typed, NEW p \in Procs,
           \/ \E role \in {"monitor", "migrate"} : StartMigration(p, role)
           \/ Goes(p) \/ LoopFails(p) \/ Die(p) \/ CoolingEnds(p)
    PROVE  /\ today' = today
           /\ \A q \in Procs \ {p} : proc'[q] = proc[q] /\ got'[q] = got[q]
<1>0. got \in [Procs -> Mails]
  BY DEF Typed, TypeOK
<1>1. \A q \in Procs \ {p} : proc'[q] = proc[q]
  BY OthersStay
<1>2. CASE FailsMail(p)
  <2>1. today' = today
    BY <1>2 DEF FailsMail, alertsRest, others
  <2>2. \A q \in Procs \ {p} : got'[q] = got[q]
    BY <1>0, <1>2 DEF FailsMail, Mailed
  <2> QED
    BY <1>1, <2>1, <2>2
<1>3. CASE LowMail(p) \/ EmptyMail(p) \/ SummaryMail(p)
  <2>1. today' = today
    BY <1>3 DEF LowMail, EmptyMail, SummaryMail, alertsRest, others
  <2>2. \A q \in Procs \ {p} : got'[q] = got[q]
    BY <1>0, <1>3 DEF LowMail, EmptyMail, SummaryMail, Mailed
  <2> QED
    BY <1>1, <2>1, <2>2
<1>4. CASE CoolingEnds(p)
  BY <1>0, <1>1, <1>4 DEF CoolingEnds, alertsRest, others
<1>5. CASE \/ \E role \in {"monitor", "migrate"} : StartMigration(p, role)
           \/ Migrates(p) \/ Starts(p) \/ Configures(p)
           \/ LoopFails(p) \/ Die(p) \/ LoadDay(p) \/ DayLoads(p) \/ DaySaves(p)
  <2>1. today' = today /\ got' = got
    BY <1>5 DEF StartMigration, Migrates, Examine, CopyStarts, CopyEnds, Rename,
       StampLoads, StampSaves, Starts, CheckPid, Unlink, Lock, PidOpens, PidWrites,
       Cleans, Unlocks, Configures, LoadConfig, Stat, Read, LoopFails, Die, LoadDay,
       DayLoads, DaySaves, filesRest, alertsRest, processRest, others
  <2> QED
    BY <1>1, <2>1
<1> QED
  BY <1>2, <1>3, <1>4, <1>5 DEF Goes, Starts, Configures, Alerts

\* Steps outside the mails.
LEMMA QuietSummary ==
    ASSUME ProcessAssumption, SummaryInv, RationInv', AloneInv', NEW p \in Procs,
           \/ \E role \in {"monitor", "migrate"} : StartMigration(p, role)
           \/ Migrates(p) \/ Starts(p) \/ Configures(p) \/ CoolingEnds(p) \/ DayLoads(p)
    PROVE  SummaryInv'
<1>0. Typed /\ proc \in [Procs -> Process] /\ proc[p] \in Process
  BY DEF SummaryInv, RationInv, Typed, TypeOK
<1>1. /\ today' = today
      /\ \A q \in Procs \ {p} : proc'[q] = proc[q] /\ got'[q] = got[q]
  BY <1>0, OthersAccounts DEF Goes, Starts, Configures, Alerts
<1>2. SUFFICES ASSUME TRUE
               PROVE  /\ (Unsaved(p) => Unsaved(p)') /\ (Due(p)' => Due(p))
                      /\ \/ UNCHANGED <<file, summaries>>
                         \/ \E f \in Files, c \in Content : Put(f, c)
  <2>1. \A q \in Procs : (Unsaved(q) => Unsaved(q)') /\ (Due(q)' => Due(q))
    BY <1>1, <1>2, OthersUnsaved
  <2> QED
    BY <1>1, <1>2, <2>1, PutSummary
<1>3. CASE \E role \in {"monitor", "migrate"} : StartMigration(p, role)
  <2>1. proc[p].pc = "new" /\ UNCHANGED <<file, summaries>>
    BY <1>3 DEF StartMigration, At, files
  <2>2. proc'[p].pc \in {"check_pid", "off", "examine"}
    BY <1>0, <1>3 DEF StartMigration, Afterwards, Process
  <2> QED
    BY <2>1, <2>2 DEF Unsaved, Due, CycleSteps
<1>4. CASE Migrates(p)
  <2>1. proc[p].pc \in MigrationSteps
    BY <1>4 DEF Migrates, Examine, CopyStarts, CopyEnds, Rename, StampLoads, StampSaves,
       At, MigrationSteps
  <2>2. proc'[p].pc \in MigrationSteps \cup {"check_pid", "off"}
    BY <1>0, <1>4, MigratesMove
  <2>3. CASE Examine(p) \/ Rename(p) \/ StampLoads(p)
    <3>1. UNCHANGED <<file, summaries>>
      BY <2>3 DEF Examine, Rename, StampLoads, files
    <3> QED
      BY <2>1, <2>2, <3>1 DEF Unsaved, Due, CycleSteps, MigrationSteps
  <2>4. CASE CopyStarts(p) \/ CopyEnds(p)
    <3>1. Current(p) \in Files /\ Torn \in Content /\ Records \in Content
      <4>1. proc[p].at \in 1..Len(Pairs)
        BY <1>0, <2>4 DEF CopyStarts, CopyEnds, At, Typed, PairsOK, PairSteps
      <4>2. Torn \in Content /\ Records \in Content
        BY DEF Torn, Records, Absent, Content
      <4> QED
        BY <4>1, <4>2, FilesOfPairs DEF Current
    <3>2. \/ UNCHANGED <<file, summaries>>
          \/ Put(Current(p), Torn) \/ Put(Current(p), Records)
      BY <2>4 DEF CopyStarts, CopyEnds
    <3> QED
      BY <2>1, <2>2, <3>1, <3>2 DEF Unsaved, Due, CycleSteps, MigrationSteps
  <2>5. CASE StampSaves(p)
    <3> DEFINE c == [Resaved(proc[p].memo) EXCEPT !.stamped = TRUE]
    <3>1. Put(MonitorState, c)
      BY <2>5 DEF StampSaves, Save
    <3>2. c \in Content /\ MonitorState \in Files
      BY <1>0, ContentTypes, FilesOfPairs DEF Process
    <3> HIDE DEF c
    <3> QED
      BY <2>1, <2>2, <3>1, <3>2 DEF Unsaved, Due, CycleSteps, MigrationSteps
  <2> QED
    BY <1>4, <2>3, <2>4, <2>5 DEF Migrates
<1>5. CASE Starts(p)
  <2>1. proc[p].pc \notin CycleSteps /\ UNCHANGED <<file, summaries>>
    BY <1>5 DEF Starts, CheckPid, Unlink, Lock, PidOpens, PidWrites, Cleans, Unlocks, At,
       CycleSteps, processRest, files
  <2>2. proc'[p].pc \notin CycleSteps
    BY <1>0, <1>5 DEF Starts, CheckPid, Unlink, Lock, PidOpens, PidWrites, Cleans,
       Unlocks, Goto, CycleSteps, Process
  <2> QED
    BY <2>1, <2>2 DEF Unsaved, Due, CycleSteps
<1>6. CASE Configures(p)
  <2>1. UNCHANGED <<file, summaries>> /\ proc[p].pc \in {"load_config", "loop", "read"}
    BY <1>6 DEF Configures, LoadConfig, Stat, Read, At, processRest, files
  <2>2. /\ proc'[p].mem = proc[p].mem
        /\ proc'[p].pc \in CycleSteps => proc[p].pc \in CycleSteps
    BY <1>0, <1>6 DEF Configures, LoadConfig, Stat, Read, Goto, At, CycleSteps, Process
  <2> QED
    BY <1>1, <2>1, <2>2 DEF Unsaved, Due
<1>7. CASE CoolingEnds(p)
  <2>1. UNCHANGED <<file, summaries>> /\ proc'[p].pc = proc[p].pc
    BY <1>0, <1>7 DEF CoolingEnds, Process
  <2>2. proc'[p].mem.last = proc[p].mem.last
    BY <1>0, <1>7 DEF CoolingEnds, Process, Memory
  <2>3. got'[p].summaries = got[p].summaries
    BY <1>0, <1>7 DEF CoolingEnds, Typed, TypeOK, Mails, Accounts
  <2> QED
    BY <1>1, <2>1, <2>2, <2>3 DEF Unsaved, Due
<1>8. CASE DayLoads(p)
  <2>1. UNCHANGED <<file, summaries, got>> /\ proc[p].pc = "day_load"
    BY <1>8 DEF DayLoads, At
  <2>2. proc'[p].pc = "day_save" /\ proc'[p].mem = proc[p].mem
    BY <1>0, <1>8 DEF DayLoads, Process
  <2> QED
    BY <1>1, <2>1, <2>2 DEF Unsaved, Due, CycleSteps
<1> QED
  BY <1>3, <1>4, <1>5, <1>6, <1>7, <1>8

\* A mail about something else.
LEMMA OtherMails ==
    ASSUME ProcessAssumption, SummaryInv, RationInv', AloneInv', NEW p \in Procs,
           FailsMail(p) \/ LowMail(p) \/ EmptyMail(p)
    PROVE  SummaryInv'
<1> DEFINE m == proc[p].mem
           g == got[p]
<1>0. /\ Typed /\ proc \in [Procs -> Process] /\ proc[p] \in Process
      /\ m \in Memory /\ g \in Mails /\ qlen \in Nat /\ today \in Nat
  BY DEF SummaryInv, RationInv, Typed, TypeOK, Process
<1>1. /\ today' = today
      /\ \A q \in Procs \ {p} : proc'[q] = proc[q] /\ got'[q] = got[q]
  BY <1>0, OthersAccounts DEF Goes, Alerts
<1>2. /\ file' = file /\ proc[p].pc \in {"fails", "low", "empty"}
  BY DEF FailsMail, LowMail, EmptyMail, At
<1>d. Daily(m, g)
  BY DEF SummaryInv, RationInv
<1>3. summaries' = summaries /\ proc'[p].mem.last = m.last
  <2>1. ASSUME NEW kind \in {"fails", "hosts", "low", "empty"}, NEW o, NEW mem \in Memory,
               NEW h, NEW pc, Mailed(p, kind, o, mem, h, pc), mem.last = m.last
        PROVE  summaries' = summaries /\ proc'[p].mem.last = m.last
    BY <1>0, <2>1 DEF Mailed, Process
  \* n is the memory that the outcome is about.
  <2>o. ASSUME NEW n \in Memory, n.day = m.day, n.sent = m.sent, n.cooling = m.cooling,
               n.last = m.last, NEW kind \in {"fails", "hosts", "low", "empty"},
               NEW o \in Outcomes(n, kind) \cup {NoMail(n)}
        PROVE  o.mem \in Memory /\ o.ok \in BOOLEAN /\ o.mem.last = m.last
    <3>1. Daily(n, g)
      BY <1>d, <2>o DEF Daily
    <3>2. o.mem.last = n.last
      BY <1>0, <3>1, OutcomeAccount
    <3> QED
      BY <1>0, <2>o, <3>2, OutcomeTypes
  <2>2. CASE FailsMail(p)
    <3>1. CASE Goto(p, "low") /\ UNCHANGED <<got, summaries, budget>>
      BY <1>0, <3>1 DEF Goto, Process
    <3>2. CASE \E kind \in {"fails", "hosts"} : \E o \in Outcomes(m, kind) :
                  Mailed(p, kind, o, o.mem, g, "fails")
      <4>1. PICK kind \in {"fails", "hosts"} : \E o \in Outcomes(m, kind) :
                  Mailed(p, kind, o, o.mem, g, "fails")
        BY <3>2
      <4>2. PICK o \in Outcomes(m, kind) : Mailed(p, kind, o, o.mem, g, "fails")
        BY <4>1
      <4>3. o.mem \in Memory /\ o.mem.last = m.last
        BY <1>0, <2>o
      <4> QED
        BY <2>1, <4>2, <4>3
    <3> QED
      BY <2>2, <3>1, <3>2 DEF FailsMail
  <2>3. CASE LowMail(p)
    <3> DEFINE n == [LatchesReset(m, qlen) EXCEPT !.len = qlen]
               wanted == 0 < qlen /\ qlen < Healthy /\ ~n.low
    <3>1. PICK o \in IF wanted THEN Outcomes(n, "low") ELSE {NoMail(n)} :
                Mailed(p, "low", o, [o.mem EXCEPT !.low = @ \/ o.ok], SeenHealthy(g), "empty")
      BY <2>3 DEF LowMail
    <3>2. /\ n \in Memory /\ n.day = m.day /\ n.sent = m.sent /\ n.cooling = m.cooling
          /\ n.last = m.last
      BY <1>0 DEF LatchesReset, Memory
    <3>3. o \in Outcomes(n, "low") \cup {NoMail(n)}
      BY <3>1
    <3> HIDE DEF n, wanted
    <3> DEFINE l == o.mem.low \/ o.ok
    <3>4. o.mem \in Memory /\ o.mem.last = m.last
      BY <2>o, <3>2, <3>3
    <3>5. [o.mem EXCEPT !.low = l] \in Memory /\ [o.mem EXCEPT !.low = l].last = m.last
      <4>1. l \in BOOLEAN
        OBVIOUS
      <4> HIDE DEF l
      <4> QED
        BY <3>4, <4>1 DEF Memory
    <3>6. Mailed(p, "low", o, [o.mem EXCEPT !.low = l], SeenHealthy(g), "empty")
      BY <3>1
    <3> HIDE DEF l
    <3> QED
      BY <2>1, <3>5, <3>6
  <2>4. CASE EmptyMail(p)
    <3>1. PICK o \in IF m.len = 0 /\ ~m.empty THEN Outcomes(m, "empty") ELSE {NoMail(m)} :
                Mailed(p, "empty", o,
                       [o.mem EXCEPT !.low = @ \/ o.ok, !.empty = @ \/ o.ok], g, "summary")
      BY <2>4 DEF EmptyMail
    <3>2. o \in Outcomes(m, "empty") \cup {NoMail(m)}
      BY <3>1
    <3> DEFINE l == o.mem.low \/ o.ok
               e == o.mem.empty \/ o.ok
               mem == [o.mem EXCEPT !.low = l, !.empty = e]
    <3>3. o.mem \in Memory /\ o.mem.last = m.last
      BY <1>0, <2>o, <3>2
    <3>4. mem \in Memory /\ mem.last = m.last
      <4>1. l \in BOOLEAN /\ e \in BOOLEAN
        OBVIOUS
      <4> HIDE DEF l, e
      <4> QED
        BY <3>3, <4>1 DEF Memory
    <3>5. Mailed(p, "empty", o, mem, g, "summary")
      BY <3>1
    <3> HIDE DEF mem
    <3> QED
      BY <2>1, <3>4, <3>5
  <2> QED
    BY <2>2, <2>3, <2>4
<1>4. ~Unsaved(p) /\ (Due(p)' => Due(p))
  BY <1>1, <1>2, <1>3 DEF Unsaved, Due, CycleSteps
<1>5. \A q \in Procs : (Unsaved(q) => Unsaved(q)') /\ (Due(q)' => Due(q))
  BY <1>1, <1>4, OthersUnsaved
<1> QED
  BY <1>1, <1>2, <1>3, <1>5, PutSummary

\* The summary goes out when the file has another day, and is one too many
\* only if the date was lost.
LEMMA SummaryMails ==
    ASSUME ProcessAssumption, SummaryInv, RationInv', AloneInv', NEW p \in Procs,
           SummaryMail(p)
    PROVE  SummaryInv'
<1> DEFINE m == proc[p].mem
           g == got[p]
<1>0. /\ Typed /\ proc \in [Procs -> Process] /\ proc[p] \in Process
      /\ m \in Memory /\ g \in Mails /\ today \in Nat /\ summaries \in Summaries
      /\ got \in [Procs -> Mails] /\ Daily(m, g)
  BY DEF SummaryInv, RationInv, Typed, TypeOK, Process
<1>1. /\ today' = today
      /\ \A q \in Procs \ {p} : proc'[q] = proc[q] /\ got'[q] = got[q]
  BY <1>0, OthersAccounts DEF Goes, Alerts
<1>2. file' = file /\ proc[p].pc = "summary"
  BY DEF SummaryMail, At
<1>3. PICK o \in IF m.last # today THEN Outcomes(m, "summaries") ELSE {NoMail(m)} :
              Mailed(p, "summaries", o,
                     IF o.ok THEN [o.mem EXCEPT !.last = today] ELSE o.mem,
                     g, IF o.ok THEN "day_load" ELSE "loop")
  BY DEF SummaryMail
<1>4. /\ o \in Outcomes(m, "summaries") \cup {NoMail(m)}
      /\ o.told => m.last # today
  BY <1>3 DEF NoMail
<1> DEFINE mem == IF o.ok THEN [o.mem EXCEPT !.last = today] ELSE o.mem
           pc == IF o.ok THEN "day_load" ELSE "loop"
<1>5. o.mem \in Memory /\ o.mem.last = m.last /\ (o.told => o.ok)
  BY <1>0, <1>4, OutcomeAccount, OutcomeTypes
<1>6. mem.last = IF o.ok THEN today ELSE m.last
  BY <1>5 DEF Memory
<1>7. proc'[p].mem = mem /\ proc'[p].pc = pc
  BY <1>0, <1>3 DEF Mailed, Process
<1> HIDE DEF mem, pc
<1>8. \A q \in Procs \ {p} : ~Due(q) /\ ~Due(q)'
  <2>1. \A q \in Procs \ {p} : ~Due(q)
    BY <1>2, AloneUnsaved, Unholding DEF SummaryInv, CycleSteps
  <2> QED
    BY <1>1, <2>1, OthersUnsaved
<1>9. ~Unsaved(p)
  BY <1>2 DEF Unsaved
<1>10. CASE o.told
  <2>1. Due(p) /\ o.ok
    BY <1>2, <1>4, <1>5, <1>10 DEF Due, CycleSteps
  <2>2. summaries.mailed <= summaries.undated
    BY <2>1 DEF SummaryInv
  <2>3. summaries' = [summaries EXCEPT !.mailed = @ + 1]
    BY <1>3, <1>10 DEF Mailed
  <2>4. /\ summaries'.mailed = summaries.mailed + 1
        /\ summaries'.undated = summaries.undated
        /\ summaries.mailed \in Nat /\ summaries.undated \in Nat
    BY <1>0, <2>3 DEF Summaries
  <2>5. ~Due(p)'
    BY <1>1, <1>6, <1>7, <2>1 DEF Due
  <2>6. Unsaved(p)'
    <3>1. got'[p] = Told(g, "summaries")
      BY <1>0, <1>3, <1>10 DEF Mailed
    <3>2. Told(g, "summaries").summaries > 0
      BY <1>0 DEF Told, Mails, Accounts
    <3> QED
      BY <1>7, <2>1, <3>1, <3>2 DEF Unsaved, pc
  <2>7. OneSummaryADay'
    BY <2>2, <2>4 DEF OneSummaryADay
  <2>8. ~Unmarked' /\ \A q \in Procs : ~Due(q)'
    BY <1>8, <2>5, <2>6 DEF Unmarked
  <2> QED
    BY <1>1, <2>7, <2>8 DEF SummaryInv
<1>11. CASE ~o.told
  <2>1. summaries' = summaries
    BY <1>3, <1>11 DEF Mailed
  <2>2. Due(p)' => Due(p)
    BY <1>1, <1>2, <1>6, <1>7 DEF Due, CycleSteps
  <2>3. \A q \in Procs : (Unsaved(q) => Unsaved(q)') /\ (Due(q)' => Due(q))
    BY <1>1, <1>9, <2>2, OthersUnsaved
  <2> QED
    BY <1>1, <1>2, <2>1, <2>3, PutSummary
<1> QED
  BY <1>10, <1>11

\* A monitor that starts finds the date in the file, or knows of no summary.
LEMMA LoadDaySummary ==
    ASSUME ProcessAssumption, SummaryInv, RationInv', AloneInv', NEW p \in Procs,
           LoadDay(p)
    PROVE  SummaryInv'
<1>0. /\ Typed /\ proc \in [Procs -> Process] /\ proc[p] \in Process
      /\ today \in Nat /\ today > 0 /\ file \in [Files -> Content]
  BY DEF SummaryInv, RationInv, Typed, TypeOK
<1>1. /\ today' = today
      /\ \A q \in Procs \ {p} : proc'[q] = proc[q] /\ got'[q] = got[q]
  BY <1>0, OthersAccounts DEF Goes, Alerts
<1>2. UNCHANGED <<file, summaries>> /\ proc[p].pc = "load_day"
  BY DEF LoadDay, At
<1>3. \A q \in Procs : ~Unsaved(q)
  <2>1. ~Unsaved(p)
    BY <1>2 DEF Unsaved
  <2> QED
    BY <1>2, <2>1, AloneUnsaved, Unholding DEF SummaryInv
<1>4. Due(p)' => Unmarked
  <2>1. proc'[p].mem.last = IF file[MonitorState].day = 0 THEN today
                                                          ELSE file[MonitorState].day
    BY <1>0 DEF LoadDay, Process, Memory
  <2>2. proc'[p].mem.last # today => file[MonitorState].day # today
    BY <1>0, <2>1
  <2> QED
    BY <1>1, <1>3, <2>2 DEF Due, Unmarked
<1>5. Unmarked' => Unmarked
  BY <1>1, <1>2, <1>3 DEF Unmarked, MonitorState
<1>6. \A q \in Procs : Due(q)' => Due(q) \/ Unmarked
  BY <1>1, <1>4, OthersUnsaved
<1> QED
  BY <1>1, <1>2, <1>5, <1>6, NoSummary

\* The date that is written is today's if the monitor has sent its summary.
LEMMA DaySavesSummary ==
    ASSUME ProcessAssumption, SummaryInv, RationInv', AloneInv', NEW p \in Procs,
           DaySaves(p)
    PROVE  SummaryInv'
<1> DEFINE c == [Resaved(proc[p].memo) EXCEPT !.day = proc[p].mem.last]
<1>0. /\ Typed /\ proc \in [Procs -> Process] /\ proc[p] \in Process
      /\ proc[p].memo \in Content /\ proc[p].mem \in Memory
      /\ Latched(proc[p].mem, got[p]) /\ got[p].summaries \in Nat
  <2>1. /\ Typed /\ proc \in [Procs -> Process] /\ got[p] \in Mails
        /\ Latched(proc[p].mem, got[p])
    BY DEF SummaryInv, RationInv, Typed, TypeOK
  <2>2. proc[p] \in Process
    BY <2>1
  <2>3. proc[p].memo \in Content /\ proc[p].mem \in Memory
    BY <2>2 DEF Process
  <2>4. \A g \in Mails : g.summaries \in Nat
    BY DEF Mails, Accounts
  <2> QED
    BY <2>1, <2>2, <2>3, <2>4
<1>1. /\ today' = today
      /\ \A q \in Procs \ {p} : proc'[q] = proc[q] /\ got'[q] = got[q]
  BY <1>0, OthersAccounts DEF Goes, Alerts
<1>2. Put(MonitorState, c) /\ proc[p].pc = "day_save"
  BY DEF DaySaves, Save, At
<1>3. proc'[p].pc = "loop" /\ proc'[p].mem = proc[p].mem
  BY <1>0 DEF DaySaves, Goto, Process
<1>4. MonitorState \in Files /\ c \in Content /\ c.day = proc[p].mem.last
  <2>1. proc[p].mem.last \in Nat
    BY <1>0 DEF Memory
  <2>2. c.day = proc[p].mem.last
    BY <1>0 DEF Resaved, Content
  <2> QED
    BY <1>0, <2>1, <2>2, ContentTypes, FilesOfPairs
<1> HIDE DEF c
<1>5. /\ summaries'.mailed = summaries.mailed
      /\ file'[MonitorState].day = proc[p].mem.last
      /\ \/ summaries'.undated = summaries.undated + 1
         \/ /\ summaries' = summaries
            /\ file[MonitorState].day = today => proc[p].mem.last = today
  BY <1>0, <1>2, <1>4, PutDate
<1>6. \A q \in Procs \ {p} : ~Unsaved(q)
  BY <1>2, AloneUnsaved, Unholding DEF SummaryInv, CycleSteps
<1>7. \A q \in Procs : Due(q)' => Due(q)
  <2>1. Due(p)' => Due(p)
    BY <1>1, <1>2, <1>3 DEF Due, CycleSteps
  <2> QED
    BY <1>1, <2>1, OthersUnsaved
<1>8. CASE summaries'.undated = summaries.undated + 1
  BY <1>1, <1>5, <1>8, NoSummary
<1>9. CASE summaries' = summaries /\ (file[MonitorState].day = today => proc[p].mem.last = today)
  <2>1. Unmarked' => Unmarked
    <3>1. SUFFICES ASSUME Unmarked' PROVE Unmarked
      OBVIOUS
    <3>2. proc[p].mem.last # today
      BY <1>1, <1>5, <3>1 DEF Unmarked, MonitorState
    <3>3. ~Unsaved(p)
      BY <1>0, <3>2 DEF Unsaved, Latched
    <3> QED
      BY <1>6, <1>9, <3>2, <3>3 DEF Unmarked
  <2> QED
    BY <1>1, <1>7, <1>9, <2>1, NoSummary
<1> QED
  BY <1>5, <1>8, <1>9

\* A monitor ends: an unsaved date is lost.
LEMMA EndsSummary ==
    ASSUME ProcessAssumption, SummaryInv, RationInv', AloneInv', NEW p \in Procs,
           LoopFails(p) \/ Die(p)
    PROVE  SummaryInv'
<1>0. /\ Typed /\ proc \in [Procs -> Process] /\ proc[p] \in Process
      /\ summaries \in Summaries
  BY DEF SummaryInv, RationInv, Typed, TypeOK
<1>1. /\ today' = today
      /\ \A q \in Procs \ {p} : proc'[q] = proc[q] /\ got'[q] = got[q]
  BY <1>0, OthersAccounts
<1>2. file' = file /\ summaries' = Undated(Unsaved(p))
  BY DEF LoopFails, Die, files
<1>3. \A q \in Procs : Due(q)' => Due(q)
  <2>1. proc'[p].pc \in {"clean", "off"}
    BY <1>0 DEF LoopFails, Die, Goto, Process
  <2>2. ~Due(p)'
    BY <2>1 DEF Due, CycleSteps
  <2> QED
    BY <1>1, <2>2, OthersUnsaved
<1>4. CASE Unsaved(p)
  <2>1. /\ summaries'.mailed = summaries.mailed
        /\ summaries'.undated = summaries.undated + 1
    BY <1>0, <1>2, <1>4 DEF Undated, Summaries
  <2> QED
    BY <1>1, <2>1, NoSummary
<1>5. CASE ~Unsaved(p)
  <2>1. summaries' = summaries
    BY <1>2, <1>5 DEF Undated
  <2>2. Unmarked' => Unmarked
    BY <1>1, <1>2, <1>5, OthersUnsaved DEF Unmarked, MonitorState
  <2> QED
    BY <1>1, <1>3, <2>1, <2>2, NoSummary
<1> QED
  BY <1>4, <1>5

LEMMA NextSummary ==
    ASSUME ProcessAssumption, SummaryInv, [Next]_vars
    PROVE  SummaryInv'
<1>0. RationInv' /\ AloneInv' /\ Typed /\ today \in Nat
  BY NextRation, NextAlone DEF SummaryInv, RationInv, Typed, TypeOK
<1>q. ASSUME UNCHANGED <<proc, got, today>>,
             \/ UNCHANGED <<file, summaries>>
             \/ \E f \in Files, c \in Content : Put(f, c)
      PROVE  SummaryInv'
  <2>1. \A q \in Procs : (Unsaved(q) => Unsaved(q)') /\ (Due(q)' => Due(q))
    BY <1>q DEF Unsaved, Due
  <2> QED
    BY <1>0, <1>q, <2>1, PutSummary
<1>1. CASE UNCHANGED vars
  BY <1>1, <1>q DEF vars, files, others
<1>2. CASE NewDay
  <2>1. today' = today + 1 /\ summaries'.mailed = 0 /\ summaries'.undated = 0
    BY <1>2 DEF NewDay, NoSummaries
  <2> QED
    BY <1>0, <2>1 DEF SummaryInv, OneSummaryADay
<1>3. CASE UpdateSaves
  <2>1. Put(update.file, Resaved(update.memo)) /\ UNCHANGED <<proc, got, today>>
    BY <1>3 DEF UpdateSaves, Save
  <2>2. update.file \in Files /\ Resaved(update.memo) \in Content
    BY <1>0, ContentTypes DEF Typed, TypeOK
  <2> QED
    BY <1>q, <2>1, <2>2
<1>4. CASE Happens /\ ~NewDay /\ ~UpdateSaves
  <2>1. UNCHANGED <<proc, got, today, file, summaries>>
    BY <1>4 DEF Happens, EditConfig, StopReads, StopActs, UpdateLoads, QueueChanges,
       others, files
  <2> QED
    BY <1>q, <2>1
<1>5. ASSUME NEW p \in Procs,
             \/ \E role \in {"monitor", "migrate"} : StartMigration(p, role)
             \/ Goes(p) \/ LoopFails(p) \/ Die(p) \/ CoolingEnds(p)
      PROVE  SummaryInv'
  BY <1>0, <1>5, QuietSummary, OtherMails, SummaryMails, LoadDaySummary,
     DaySavesSummary, EndsSummary DEF Goes, Starts, Configures, Alerts
<1> QED
  BY <1>1, <1>2, <1>3, <1>4, <1>5 DEF Next

\* The monitors of a day send one summary together, and one more at most for
\* each time that its date is lost from monitor_state.json or on the way there.
THEOREM OneSummary == Spec => []OneSummaryADay
<1>1. Init => SummaryInv
  BY ProcessAssumption, InitSummary
<1>2. SummaryInv /\ [Next]_vars => SummaryInv'
  BY ProcessAssumption, NextSummary
<1>3. SummaryInv => OneSummaryADay
  BY DEF SummaryInv
<1> QED
  BY <1>1, <1>2, <1>3, PTL DEF Spec

=============================================================================

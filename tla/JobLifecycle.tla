---------------------------- MODULE JobLifecycle ----------------------------
(***************************************************************************)
(* What the queue host promises of the lives of jobs, whatever process     *)
(* moves them: the abstract specification HostSystem implements.           *)
(***************************************************************************)
CONSTANT Jobs

VARIABLE status

Statuses == {"new", "queued", "moving", "running", "deferred", "finished",
             "deleted", "lost"}

Init == status = [j \in Jobs |-> "new"]

\* The jobs of S go from one status to another; the others stay.
Go(S, from, to) ==
    /\ \A j \in S : status[j] = from
    /\ status' = [j \in Jobs |-> IF j \in S THEN to ELSE status[j]]

\* Accepting, dispatching and tracking are one job at a time.
Accept    == \E j \in Jobs : Go({j}, "new", "queued")
Take      == \E j \in Jobs : Go({j}, "queued", "moving")
Confirm   == \E j \in Jobs : Go({j}, "moving", "running")
PutBack   == \E j \in Jobs : Go({j}, "moving", "queued")
Interrupt == \E j \in Jobs : Go({j}, "running", "moving")
Park      == \E j \in Jobs : Go({j}, "moving", "deferred")
Unpark    == \E j \in Jobs : Go({j}, "deferred", "queued")

\* One write may take several finished jobs out of running.json or file them.
Over == \E S \in SUBSET Jobs : Go(S, "running", "moving")
File == \E S \in SUBSET Jobs : Go(S, "moving", "finished")

Delete == \E S \in SUBSET Jobs :
            Go(S, "queued", "deleted") \/ Go(S, "deferred", "deleted")

\* A process dies with jobs in its memory.
Lose == \E S \in SUBSET Jobs :
            Go(S, "moving", "lost") \/ Go(S, "deferred", "lost")

Next == \/ Accept \/ Take \/ Confirm \/ PutBack \/ Interrupt \/ Park \/ Unpark
        \/ Over \/ File \/ Delete \/ Lose

Spec == Init /\ [][Next]_status

=============================================================================

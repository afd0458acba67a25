------------------------------ MODULE MCClient ------------------------------
(***************************************************************************)
(* ClientSystem on small instances: each budget is a scenario, and TLC     *)
(* explores them all in one run.                                           *)
(***************************************************************************)
EXTENDS ClientSystem

CONSTANTS j1, j2, c1, c2

MCSubmissions == {<<j1>>, <<j2>>, <<j1, j2>>}

Nothing == [k \in Kinds |-> 0]

\* Two submits at once, among refreshes.
Appending == [Nothing EXCEPT !["watched"] = 1, !["submit"] = 2,
                             !["write_fails"] = 1, !["die"] = 1]

\* One job goes through the host's hands while it is looked up.
Moving == [Nothing EXCEPT !["info"] = 1, !["submit"] = 1, !["launch"] = 1,
                          !["operate"] = 1, !["evict"] = 1]

\* A qdel, whose request may come late, and a refresh.
Deleting == [Nothing EXCEPT !["jobs"] = 1, !["qdel"] = 1, !["submit"] = 1,
                            !["launch"] = 1, !["give_up"] = 1]

\* A batch, cut into requests.
Batch == [Nothing EXCEPT !["jobs"] = 1, !["batch"] = 1, !["give_up"] = 1,
                         !["refuse"] = 1]
OldBatch == [Batch EXCEPT !["old_host"] = 1]

\* A job's log is fetched while the job is retried; twice; or after the
\* worker lost it.
Fetching == [Nothing EXCEPT !["watched"] = 1, !["submit"] = 1, !["launch"] = 2,
                            !["fetch"] = 1]
Refetching == [Nothing EXCEPT !["watched"] = 1, !["submit"] = 1,
                              !["launch"] = 1, !["fetch"] = 2,
                              !["give_up"] = 1]

\* More jobs than the ledger keeps; one is lost, or deleted by somebody else,
\* or forgotten.
Crowding == [Nothing EXCEPT !["watched"] = 1, !["submit"] = 2, !["launch"] = 1,
                            !["operate"] = 1]
Forgotten == [Nothing EXCEPT !["jobs"] = 1, !["submit"] = 1,
                             !["launch"] = 1, !["forget"] = 1, !["fetch"] = 1,
                             !["recycle"] = 1, !["write_fails"] = 1,
                             !["crash"] = 1]

MCBudgets == {Appending, Moving, Deleting, Batch, OldBatch, Fetching,
              Refetching, Crowding, Forgotten}

=============================================================================

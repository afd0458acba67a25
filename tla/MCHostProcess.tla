---------------------------- MODULE MCHostProcess ---------------------------
(***************************************************************************)
(* HostProcess on a small instance; each budget is a scenario.             *)
(***************************************************************************)
EXTENDS HostProcess

CONSTANTS queue, state

MCPairs == <<queue, state>>

Nothing == [k \in Kinds |-> 0]

\* An upgrade with two starts, a kill and a command that writes a state file.
Upgrade == [Nothing EXCEPT !["legacy"] = 1, !["start"] = 2, !["kill"] = 1,
                           !["update"] = 1]
Migrate == [Nothing EXCEPT !["legacy"] = 1, !["start"] = 1, !["migrate"] = 1,
                           !["kill"] = 1]

\* Three starts and a crash; two starts, a stop command and a loop that fails.
Starting == [Nothing EXCEPT !["start"] = 3, !["kill"] = 1]
Stopping == [Nothing EXCEPT !["start"] = 2, !["kill"] = 1, !["stop"] = 1,
                            !["error"] = 1]

\* The configuration is edited under the loop.
Editing == [Nothing EXCEPT !["start"] = 1, !["edit"] = 3]

\* Mails.
Mailing == [Nothing EXCEPT !["start"] = 1, !["queue"] = 4, !["failures"] = 2,
                           !["day"] = 1]

\* A day with a restart, beside a command that writes monitor_state.json.
Resuming == [Nothing EXCEPT !["start"] = 2, !["day"] = 1, !["kill"] = 1,
                            !["update"] = 1]

MCBudgets == {Upgrade, Migrate, Starting, Stopping, Editing, Mailing, Resuming}

=============================================================================

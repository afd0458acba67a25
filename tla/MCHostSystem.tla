---------------------------- MODULE MCHostSystem ----------------------------
(* Two hosts; "gpu" work may run on h1 only, "cpu" work on either.  Job b   *)
(* carries a payload, u is urgent and may preempt; m may preempt too but is *)
(* not urgent, and the payload it names does not exist.                     *)
EXTENDS HostSystem

CONSTANTS h1, h2, b, u, m, gpu, cpu

MCHosts == {h1, h2}
MCJobs == {b, u, m}
MCQueueOf == [j \in MCJobs |-> IF j = u THEN gpu ELSE cpu]
MCQueueHosts == [n \in {gpu, cpu} |-> IF n = gpu THEN {h1} ELSE {h1, h2}]
MCPrio == [j \in MCJobs |-> IF j = u THEN 1 ELSE 0]
MCPreempt == [j \in MCJobs |-> j \in {u, m}]
MCPinned == [j \in MCJobs |-> {}]
MCPayload ==
    [j \in MCJobs |-> CASE j = b -> "s3"
                         [] j = u -> "none"
                         [] j = m -> "missing"]
MCRank == [h \in MCHosts |-> IF h = h1 THEN 1 ELSE 2]
=============================================================================

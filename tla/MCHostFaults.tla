---------------------------- MODULE MCHostFaults ----------------------------
(* Two hosts; "gpu" work may run on h1 only, "cpu" work on either.  Job b's  *)
(* payload comes from S3, c's from the queue host; c is urgent and may       *)
(* preempt; no host has scratch for g's payload.                             *)
EXTENDS HostSystem

CONSTANTS h1, h2, b, c, g, gpu, cpu

MCHosts == {h1, h2}
MCJobs == {b, c, g}
MCQueueOf == [j \in MCJobs |-> IF j = c THEN gpu ELSE cpu]
MCQueueHosts == [n \in {gpu, cpu} |-> IF n = gpu THEN {h1} ELSE {h1, h2}]
MCPrio == [j \in MCJobs |-> IF j = c THEN 1 ELSE 0]
MCPreempt == [j \in MCJobs |-> j = c]
MCPinned == [j \in MCJobs |-> {}]
MCPayload == [j \in MCJobs |-> CASE j = b -> "s3"
                                [] j = c -> "local"
                                [] j = g -> "huge"]
MCRank == [h \in MCHosts |-> IF h = h1 THEN 1 ELSE 2]
=============================================================================

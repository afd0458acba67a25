---------------------------- MODULE MCQueueFile -----------------------------
(* Three ids of which one is a prefix of another, two queues that share a   *)
(* host, two batch tags.                                                    *)
EXTENDS QueueFile

CONSTANTS h1, h2, gpu, cpu, batch

MCJobs   == {<<1>>, <<1, 2>>, <<1, 3>>}
MCTokens == MCJobs \cup {<<2>>}
MCQueueOf == [j \in MCJobs |-> IF Len(j) = 1 THEN gpu ELSE cpu]
MCQueueHosts == [n \in {gpu, cpu} |-> IF n = gpu THEN {h1} ELSE {h1, h2}]
MCArrayOf == [j \in MCJobs |-> IF j = <<1, 3>> THEN batch ELSE NoArray]
=============================================================================

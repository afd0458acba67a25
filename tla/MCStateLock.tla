---------------------------- MODULE MCStateLock ----------------------------
(* A two-threaded process and one more process share the lock.              *)
EXTENDS StateLock

CONSTANTS d, r, t1, t2, t3

MCProcs   == {d, r}
MCThreads == {t1, t2, t3}
MCProcOf  == [t \in MCThreads |-> IF t = t3 THEN r ELSE d]
MCDegraded == {d}
=============================================================================

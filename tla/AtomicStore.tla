---------------------------- MODULE AtomicStore ----------------------------
(***************************************************************************)
(* What the state lock promises its callers (shared/state_lock.py, module  *)
(* docstring): every mutation of a state file takes effect at one instant  *)
(* on the latest contents, so no acknowledged update is ever dropped.      *)
(* The store is the set of updates its contents reflect.                   *)
(***************************************************************************)
CONSTANT Updates

VARIABLE store

Init == store = {}

Apply(u) ==
    /\ u \notin store
    /\ store' = store \cup {u}

Next == \E u \in Updates : Apply(u)

Spec == Init /\ [][Next]_store
=============================================================================

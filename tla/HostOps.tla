------------------------------- MODULE HostOps ------------------------------
(***************************************************************************)
(* What other processes do to the queue host's files while the monitor     *)
(* runs: one `awsqe-host rpc` process per client call (host/rpc.py) and    *)
(* the host CLI (host/cli.py).                                             *)
(***************************************************************************)
EXTENDS Worker

NewItem(j) == [job |-> j, prio |-> Prio[j], preempt |-> Preempt[j],
               hosts |-> Pinned[j], resume |-> NoHost, fails |-> 0,
               dir |-> FALSE]

\* handle_enqueue, `awsqe-host submit`: accepted once it is in queue.json.
Submit(j) ==
    /\ LockFree
    /\ j \notin submitted
    /\ queue' = Append(queue, NewItem(j))
    /\ submitted' = submitted \cup {j}
    /\ UNCHANGED <<running, deferred, completed, failed, cooldown, workers,
                   memory, commands, withdrawn, dropped, evicted,
                   current, bounds>>

\* handle_qdel and cmd_qdel of a set of queue positions; how a selector is
\* resolved to positions is module QueueFile's.
Qdel(at_) ==
    /\ LockFree
    /\ at_ # {}
    /\ Command("qdel")
    /\ queue' \in Keeping(queue, DOMAIN queue \ at_)
    /\ withdrawn' = withdrawn \cup {queue[i].job : i \in at_}
    /\ UNCHANGED <<running, deferred, completed, failed, cooldown, workers,
                   memory, commands, submitted, dropped, evicted,
                   current, faults>>

\* cmd_clear.
Clear ==
    /\ LockFree
    /\ Command("clear")
    /\ queue' = <<>>
    /\ withdrawn' = withdrawn \cup JobsIn(queue)
    /\ UNCHANGED <<running, deferred, completed, failed, cooldown, workers,
                   memory, commands, submitted, dropped, evicted,
                   current, faults>>

\* clear_host_cooldowns: one locked read-modify-write of monitor_state.json.
EnableHost(h) ==
    /\ LockFree
    /\ h \in cooldown
    /\ Command("enable_host")
    /\ cooldown' = cooldown \ {h}
    /\ UNCHANGED <<queue, running, deferred, completed, failed, workers,
                   memory, commands, ghosts, faults>>

-----------------------------------------------------------------------------
(* handle_requeue_deferred, cmd_requeue_deferred.                          *)

\* pop_deferred_by_indices or pop_all_deferred: the state lock is taken.
PopDeferred(at_) ==
    /\ LockFree
    /\ at_ # {}
    /\ Command("requeue_deferred")
    /\ moving' \in Keeping(deferred, at_)
    /\ deferred' \in Keeping(deferred, DOMAIN deferred \ at_)
    /\ UNCHANGED <<queue, running, completed, failed, cooldown, workers,
                   memory, rerun, ghosts, faults>>

\* One enqueue_item; the lock is released after the last.
EnqueueMoving ==
    /\ moving # <<>>
    /\ queue' = Append(queue, Head(moving))
    /\ moving' = Tail(moving)
    /\ UNCHANGED <<running, deferred, completed, failed, cooldown, workers,
                   memory, rerun, ghosts, bounds>>

\* The same with drop: nothing is written after the pop.
DropDeferred(at_) ==
    /\ LockFree
    /\ at_ # {}
    /\ Command("drop_deferred")
    /\ deferred' \in Keeping(deferred, DOMAIN deferred \ at_)
    /\ withdrawn' = withdrawn \cup {deferred[i].job : i \in at_}
    /\ UNCHANGED <<queue, running, completed, failed, cooldown, workers,
                   memory, commands, submitted, dropped, evicted,
                   current, faults>>

\* The process dies between its pop and its last enqueue.
CommandDies ==
    /\ moving # <<>>
    /\ Fault({"command_dies"})
    /\ moving' = <<>>
    /\ dropped' = dropped \cup (JobsIn(moving) \ (OnDisk \cup InMemory))
    /\ UNCHANGED <<files, workers, memory, rerun, submitted, withdrawn,
                   evicted, current, ops>>

-----------------------------------------------------------------------------
(* cmd_requeue_running, one host: read running.json without the lock,      *)
(* requeue what it said, then kill whatever is managed on the host.        *)

ReadRunning(h) ==
    /\ rerun = <<>>
    /\ running[h] # <<>>
    /\ Command("requeue_running")
    /\ LET item == [ResumeItem(running[h][1], h) EXCEPT !.prio = 100]
       IN  rerun' = <<[host |-> h, item |-> item, step |-> "requeue"]>>
    /\ UNCHANGED <<files, workers, memory, moving, ghosts, faults>>

RequeueRead ==
    /\ LockFree
    /\ rerun # <<>> /\ rerun[1].step = "requeue"
    /\ queue' = Cons(rerun[1].item, queue)
    /\ rerun' = <<[rerun[1] EXCEPT !.step = "kill"]>>
    /\ UNCHANGED <<running, deferred, completed, failed, cooldown, workers,
                   memory, moving, ghosts, bounds>>

KillRequeued ==
    /\ rerun # <<>> /\ rerun[1].step = "kill"
    /\ \/ Killed(rerun[1].host) /\ UNCHANGED faults
       \/ Fault({"kill"}) /\ UNCHANGED <<procs, pids, rc, current>>
    /\ rerun' = <<>>
    /\ UNCHANGED <<files, staged, memory, moving, submitted, withdrawn, dropped,
                   evicted, ops>>

-----------------------------------------------------------------------------
\* Time passes: a cooldown expires, in the file and in every copy of it.
CooldownExpires(h) ==
    /\ h \in cooldown
    /\ cooldown' = cooldown \ {h}
    /\ benched' = IF mpc = "bench_save" THEN benched \ {h} ELSE benched
    /\ UNCHANGED <<queue, running, deferred, completed, failed, workers, mpc,
                   tracked, wrapped, view, todo, at, how, target, hand, held,
                   done, bad, commands, ghosts, bounds>>

CommandFinishes == EnqueueMoving \/ RequeueRead \/ KillRequeued

OpsStep ==
    \/ \E j \in Jobs : Submit(j)
    \/ \E s \in SUBSET DOMAIN queue : Qdel(s)
    \/ Clear
    \/ \E h \in Hosts : EnableHost(h)
    \/ \E s \in SUBSET DOMAIN deferred : PopDeferred(s)
    \/ \E s \in SUBSET DOMAIN deferred : DropDeferred(s)
    \/ CommandDies
    \/ \E h \in Hosts : ReadRunning(h)
    \/ CommandFinishes

=============================================================================

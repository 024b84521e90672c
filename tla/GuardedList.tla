---------------------------- MODULE GuardedList ----------------------------
(***************************************************************************)
(* What the mutex, spinlock and condition-variable queues share: one lock  *)
(* around the list, the monitor that prints under it, and queue_destroy.   *)
(***************************************************************************)
EXTENDS QueueList

VARIABLE lock          \* w->m: the thread that holds it, or NULL

\* mutant: a lock that does not wait
LockHeld(t) == lock' = t

Lock(t) == lock = NULL /\ lock' = t
Unlock == lock' = NULL

GuardedInit == ListInit /\ lock = NULL

-----------------------------------------------------------------------------
\* entering queue_add and queue_get
AddLock(w) == sent[w] < MaxVal /\ JustGoto(w, "idle", "add") /\ Lock(w)
GetLock(r) == JustGoto(r, "idle", "get") /\ Lock(r)

(* queue_print_stats.  Its printf may be a cancellation point, and nothing *)
(* (no pthread_cleanup_push) would then give the lock back.                *)
MonitorLock == JustGoto(Monitor, "stats", "print") /\ Lock(Monitor)
MonitorPrint == JustGoto(Monitor, "print", "sleep") /\ Unlock
MonitorCancelledPrinting ==
  cancelled /\ JustGoto(Monitor, "print", "dead") /\ UNCHANGED lock

MonitorStep == \/ MonitorWakes /\ UNCHANGED lock
               \/ MonitorLock
               \/ MonitorPrint
               \/ MonitorCancelledAsleep /\ UNCHANGED lock
               \/ MonitorCancelledPrinting

DestroyLock == DestroyWalk /\ Lock(Main)
DestroyReturn == DestroyDone /\ Unlock

DestroyStep == \/ DestroyCancel /\ UNCHANGED lock
               \/ DestroyJoin /\ UNCHANGED lock
               \/ DestroyLock
               \/ DestroyFree /\ UNCHANGED lock
               \/ DestroyReturn

-----------------------------------------------------------------------------
(* A writer past the test of count has room for its node.                  *)
Room == \A w \in Writers : pc[w] \in {"link", "head", "tail", "added"} => count < max_count

(* No two threads are between lock and unlock at once.                     *)
Mutex == \A t \in Threads : Inside(t) => lock = t

(* queue_destroy returns, as queue-example.c relies on.                    *)
DestroyReturns == pc[Main] = "join" ~> pc[Main] = "returned"

(* The one way it does not: the monitor died with the lock held.           *)
CleanDestroyReturns ==
  pc[Main] = "join" ~> \/ pc[Main] = "returned"
                       \/ pc[Monitor] = "dead" /\ lock = Monitor
=============================================================================

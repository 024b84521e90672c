----------------------------- MODULE LockQueue -----------------------------
(***************************************************************************)
(* The queue guarded by one lock: queue_mutex.c, and queue_spin.c, which   *)
(* differs only in the lock's type.  queue_add and queue_get never wait    *)
(* for room or for a value: they return 0, and the clients call again.     *)
(*                                                                         *)
(* The clients are the loops of queue-threads.c; like queue-example.c they *)
(* may stop, and when all have, Main calls queue_destroy.                  *)
(***************************************************************************)
EXTENDS GuardedList

vars == <<listVars, lock>>

Init == GuardedInit

-----------------------------------------------------------------------------
\* mutant: writer() does not look at what queue_add returned
AddFullSkips(w) == /\ count = max_count
                   /\ Goto(w, "add", "idle")
                   /\ sent' = [sent EXCEPT ![w] = @ + 1]
                   /\ Unlock
                   /\ UNCHANGED <<linkVars, heapVars, statVars, node, readVars, runVars>>

\* count == max_count: return 0, and writer() tries again
AddFull(w) == count = max_count /\ JustGoto(w, "add", "idle") /\ Unlock

\* mutant: count is not tested
AddUnbounded(w) == Malloc(w) /\ UNCHANGED lock

AddMalloc(w) == count # max_count /\ Malloc(w) /\ UNCHANGED lock

\* malloc returned NULL: unlock, and only then abort
AddNoMemory(w) == count # max_count /\ JustGoto(w, "add", "abort") /\ Unlock
AddAbort(w) == pc[w] = "abort" /\ Abort /\ UNCHANGED lock

AddReturn(w) == Goto(w, "added", "idle") /\ CountAdded(w) /\ Unlock

GetEmpty(r) == /\ count =< 0 \/ first = NULL
               /\ JustGoto(r, "get", "idle")
               /\ Unlock

GetUnlink(r) == /\ ~(count =< 0 \/ first = NULL)
                /\ Unlink(r)
                /\ UNCHANGED lock

GetFree(r) == FreeUnlinked(r) /\ UNCHANGED lock

\* if (q->count > 0) q->count--;
\* if (q->get_count < q->add_count) q->get_count++;
GetReturn(r) == /\ Goto(r, "got", "idle")
                /\ count' = IF count > 0 THEN count - 1 ELSE count
                /\ get_count' = IF get_count < add_count THEN get_count + 1 ELSE get_count
                /\ Unlock
                /\ UNCHANGED <<linkVars, heapVars, add_count, node, sent, readVars, runVars>>

-----------------------------------------------------------------------------
WriterStep(w) == \/ AddLock(w) \/ AddFull(w) \/ AddMalloc(w)
                 \/ AddNoMemory(w) \/ AddAbort(w)
                 \/ LinkStep(w) /\ UNCHANGED lock
                 \/ AddReturn(w)

ReaderStep(r) == GetLock(r) \/ GetEmpty(r) \/ GetUnlink(r) \/ GetFree(r) \/ GetReturn(r)

Next == /\ alive
        /\ \/ \E w \in Writers : WriterStep(w)
           \/ \E r \in Readers : ReaderStep(r)
           \/ \E t \in Clients : ClientStops(t) /\ UNCHANGED lock
           \/ MonitorStep
           \/ DestroyStep

(* Every thread is scheduled again and again; nothing is assumed of who    *)
(* gets a contended lock, nor that a client ever stops.                    *)
Fairness == /\ \A w \in Writers : WF_vars(alive /\ WriterStep(w))
            /\ \A r \in Readers : WF_vars(alive /\ ReaderStep(r))
            /\ WF_vars(alive /\ MonitorStep)
            /\ WF_vars(alive /\ DestroyStep)

Spec == Init /\ [][Next]_vars
FairSpec == Spec /\ Fairness

-----------------------------------------------------------------------------
\* each thread stays in its own code
WriterPlaces == {"idle", "add", "abort", "link", "head", "tail", "added", "stopped"}
ReaderPlaces == {"idle", "get", "free", "got", "stopped"}
PlacesOK == /\ \A w \in Writers : pc[w] \in WriterPlaces
            /\ \A r \in Readers : pc[r] \in ReaderPlaces
            /\ pc[Monitor] \in MonitorPlaces
            /\ pc[Main] \in MainPlaces

(* Each variable keeps its type and each thread stays in its own code.     *)
TypeOK == ListTypeOK /\ PlacesOK /\ lock \in Threads \cup {NULL}
=============================================================================

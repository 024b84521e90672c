------------------------------ MODULE CvQueue ------------------------------
(***************************************************************************)
(* queue_cv.c: a mutex and two condition variables.  queue_add waits for   *)
(* room on not_full, queue_get for a value on not_empty; each signals the  *)
(* other's condition before it unlocks.                                    *)
(***************************************************************************)
EXTENDS GuardedList

ASSUME FiniteAssumption == IsFiniteSet(Writers) /\ IsFiniteSet(Readers)

vars == <<listVars, lock>>

Init == GuardedInit

(* The threads inside pthread_cond_wait on each condition variable, asleep. *)
not_full == {w \in Writers : pc[w] = "wait"}
not_empty == {r \in Readers : pc[r] = "wait"}

\* pthread_cond_wait gives up the lock and sleeps
Wait(t, from) == JustGoto(t, from, "wait") /\ Unlock

\* pthread_cond_signal wakes one waiting thread, if there is one; the thread
\* that signals unlocks and returns
SignalUnlockReturn(t, from, waiting) ==
  /\ pc[t] = from
  /\ \/ waiting = {} /\ pc' = [pc EXCEPT ![t] = "idle"]
     \/ \E u \in waiting : pc' = [pc EXCEPT ![t] = "idle", ![u] = "relock"]
  /\ Unlock

-----------------------------------------------------------------------------
\* mutant: count is not tested
AddUnbounded(w) == Malloc(w) /\ UNCHANGED lock

\* while (q->count == q->max_count) pthread_cond_wait(&not_full, &m)
AddWait(w) == count = max_count /\ Wait(w, "add")

AddMalloc(w) == count # max_count /\ Malloc(w) /\ UNCHANGED lock

\* malloc returned NULL: abort, with the lock held
AddAbort(w) == pc[w] = "add" /\ count # max_count /\ Abort /\ UNCHANGED lock

\* mutants: not_empty is signalled only by the value that ends the emptiness, or never
AddSignalsFirst(w) ==
  CountAdded(w) /\ SignalUnlockReturn(w, "added", IF count = 0 THEN not_empty ELSE {})
AddSignalsNever(w) == CountAdded(w) /\ SignalUnlockReturn(w, "added", {})

AddReturn(w) == CountAdded(w) /\ SignalUnlockReturn(w, "added", not_empty)

\* while (q->count == 0) pthread_cond_wait(&not_empty, &m)
GetWait(r) == count = 0 /\ Wait(r, "get")

GetUnlink(r) == count # 0 /\ Unlink(r) /\ UNCHANGED lock

GetFree(r) == FreeUnlinked(r) /\ UNCHANGED lock

\* mutant: not_full is never signalled
GetSignalsNever(r) == CountGot /\ SignalUnlockReturn(r, "got", {})

GetReturn(r) == CountGot /\ SignalUnlockReturn(r, "got", not_full)

\* a woken thread takes the lock again, and its while loop tests again
AddRelock(w) == JustGoto(w, "relock", "add") /\ Lock(w)
GetRelock(r) == JustGoto(r, "relock", "get") /\ Lock(r)

\* pthread_cond_wait may also end with no signal
SpuriousWakeup(t) == JustGoto(t, "wait", "relock") /\ UNCHANGED lock

-----------------------------------------------------------------------------
Takes(t) == IF t \in Writers THEN AddLock(t) \/ AddRelock(t)
                             ELSE GetLock(t) \/ GetRelock(t)

WriterStep(w) == \/ AddWait(w) \/ AddMalloc(w) \/ AddAbort(w)
                 \/ (LinkStep(w) /\ UNCHANGED lock)
                 \/ AddReturn(w)

ReaderStep(r) == GetWait(r) \/ GetUnlink(r) \/ GetFree(r) \/ GetReturn(r)

Next == /\ alive
        /\ \/ \E w \in Writers : AddLock(w) \/ AddRelock(w) \/ WriterStep(w)
           \/ \E r \in Readers : GetLock(r) \/ GetRelock(r) \/ ReaderStep(r)
           \/ \E t \in Clients : SpuriousWakeup(t)
           \/ \E t \in Clients : ClientStops(t) /\ UNCHANGED lock
           \/ MonitorStep
           \/ DestroyStep

(* Every thread is scheduled again and again, and a thread that finds the  *)
(* mutex free again and again gets it some time.  Nothing is assumed of    *)
(* spurious wakeups, nor that a client ever stops.                         *)
Fairness == /\ \A w \in Writers : WF_vars(alive /\ WriterStep(w))
            /\ \A r \in Readers : WF_vars(alive /\ ReaderStep(r))
            /\ \A t \in Clients : SF_vars(alive /\ Takes(t))
            /\ WF_vars(alive /\ MonitorStep)
            /\ WF_vars(alive /\ DestroyStep)

Spec == Init /\ [][Next]_vars
FairSpec == Spec /\ Fairness

-----------------------------------------------------------------------------
\* each thread stays in its own code
WriterPlaces == {"idle", "add", "wait", "relock", "link", "head", "tail", "added", "stopped"}
ReaderPlaces == {"idle", "get", "wait", "relock", "free", "got", "stopped"}
PlacesOK == /\ \A w \in Writers : pc[w] \in WriterPlaces
            /\ \A r \in Readers : pc[r] \in ReaderPlaces
            /\ pc[Monitor] \in MonitorPlaces
            /\ pc[Main] \in MainPlaces

(* Each variable keeps its type and each thread stays in its own code.     *)
TypeOK == ListTypeOK /\ PlacesOK /\ lock \in Threads \cup {NULL}

(* No lost wakeup: while readers wait, every value in the queue has a      *)
(* reader that is awake and on its way to it; while writers wait, every    *)
(* free place has a writer awake and on its way to it.  One signal for     *)
(* each add and each get is enough, whoever overtakes the thread woken.    *)
Reaching == {r \in Readers : pc[r] \in {"relock", "get", "free", "got"}}
Filling == {w \in Writers : pc[w] \in {"relock", "add", "link", "head", "tail", "added"}}

NoLostWakeup ==
  /\ not_empty # {} => count =< Cardinality(Reaching)
  /\ not_full # {} => max_count - count =< Cardinality(Filling)

(* No free place goes unused for ever: while a writer waits for room, some *)
(* writer is let in, again and again, as long as some reader goes on       *)
(* calling queue_get (and memory lasts).  It may be another writer each    *)
(* time: the one that waits is woken, finds the place taken by one that    *)
(* came later, and waits again (queue_cv.c:69), for ever if it so happens. *)
Admitted ==
  \A w \in Writers :
     pc[w] = "wait" ~> \/ \E u \in Writers : pc[u] = "link"
                       \/ ~alive
                       \/ \A r \in Readers : pc[r] = "stopped"
=============================================================================

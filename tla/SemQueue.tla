------------------------------ MODULE SemQueue ------------------------------
(***************************************************************************)
(* queue_semaphor.c: three semaphores.  spaces counts the free places,     *)
(* items the values ready to be taken, and mutex guards the list.          *)
(* queue_get follows q->first without a test: that the list is not empty   *)
(* rests on the semaphores alone.                                          *)
(***************************************************************************)
EXTENDS QueueList

ASSUME FiniteAssumption == IsFiniteSet(Writers) /\ IsFiniteSet(Readers)

VARIABLES mutex, items, spaces      \* w->mutex, w->items, w->spaces

semVars == <<mutex, items, spaces>>
vars == <<listVars, semVars>>

Init == ListInit /\ mutex = 1 /\ items = 0 /\ spaces = max_count

sem_wait(s, new) == s > 0 /\ new = s - 1
sem_post(s, new) == new = s + 1

-----------------------------------------------------------------------------
\* mutant: queue_add does not wait for a free place
AddUnreserved(w) == /\ sent[w] < MaxVal
                    /\ JustGoto(w, "idle", "reserved")
                    /\ UNCHANGED semVars

AddReserve(w) == /\ sent[w] < MaxVal
                 /\ JustGoto(w, "idle", "reserved")
                 /\ sem_wait(spaces, spaces')
                 /\ UNCHANGED <<mutex, items>>

AddEnter(w) == /\ JustGoto(w, "reserved", "add")
               /\ sem_wait(mutex, mutex')
               /\ UNCHANGED <<items, spaces>>

AddMalloc(w) == Malloc(w) /\ UNCHANGED semVars

\* malloc returned NULL: abort, with mutex down
AddAbort(w) == pc[w] = "add" /\ Abort /\ UNCHANGED semVars

\* ... link ... the counters, sem_post(&w->mutex)
AddLeave(w) == /\ Goto(w, "added", "post")
               /\ CountAdded(w)
               /\ sem_post(mutex, mutex')
               /\ UNCHANGED <<items, spaces>>

\* mutant: items is not posted
AddPostForgotten(w) == w \in Writers /\ JustGoto(w, "post", "idle") /\ UNCHANGED semVars

AddPost(w) == /\ w \in Writers
              /\ JustGoto(w, "post", "idle")
              /\ sem_post(items, items')
              /\ UNCHANGED <<mutex, spaces>>

GetReserve(r) == /\ JustGoto(r, "idle", "reserved")
                 /\ sem_wait(items, items')
                 /\ UNCHANGED <<mutex, spaces>>

GetEnter(r) == /\ JustGoto(r, "reserved", "get")
               /\ sem_wait(mutex, mutex')
               /\ UNCHANGED <<items, spaces>>

GetUnlink(r) == Unlink(r) /\ UNCHANGED semVars

GetFree(r) == FreeUnlinked(r) /\ UNCHANGED semVars

GetLeave(r) == /\ Goto(r, "got", "post")
               /\ CountGot
               /\ sem_post(mutex, mutex')
               /\ UNCHANGED <<items, spaces>>

\* mutant: the wrong semaphore
GetPostItems(r) == /\ JustGoto(r, "post", "idle")
                   /\ sem_post(items, items')
                   /\ UNCHANGED <<mutex, spaces>>

GetPost(r) == /\ JustGoto(r, "post", "idle")
              /\ sem_post(spaces, spaces')
              /\ UNCHANGED <<mutex, items>>

-----------------------------------------------------------------------------
(* queue_print_stats.  sem_wait is a cancellation point, and so may printf *)
(* be; in the second case nobody posts mutex again.                        *)
MonitorEnter == /\ JustGoto(Monitor, "stats", "print")
                /\ sem_wait(mutex, mutex')
                /\ UNCHANGED <<items, spaces>>

MonitorPrint == /\ JustGoto(Monitor, "print", "sleep")
                /\ sem_post(mutex, mutex')
                /\ UNCHANGED <<items, spaces>>

MonitorCancelled == /\ cancelled
                    /\ \E at \in {"stats", "print"} : JustGoto(Monitor, at, "dead")
                    /\ UNCHANGED semVars

MonitorStep == \/ MonitorWakes /\ UNCHANGED semVars
               \/ MonitorEnter
               \/ MonitorPrint
               \/ MonitorCancelledAsleep /\ UNCHANGED semVars
               \/ MonitorCancelled

DestroyEnter == /\ DestroyWalk
                /\ sem_wait(mutex, mutex')
                /\ UNCHANGED <<items, spaces>>

DestroyReturn == /\ DestroyDone
                 /\ sem_post(mutex, mutex')
                 /\ UNCHANGED <<items, spaces>>

DestroyStep == \/ DestroyCancel /\ UNCHANGED semVars
               \/ DestroyJoin /\ UNCHANGED semVars
               \/ DestroyEnter
               \/ DestroyFree /\ UNCHANGED semVars
               \/ DestroyReturn

-----------------------------------------------------------------------------
WriterWaits(w) == AddReserve(w) \/ AddEnter(w)
ReaderWaits(r) == GetReserve(r) \/ GetEnter(r)

WriterStep(w) == \/ AddMalloc(w) \/ AddAbort(w) \/ AddLeave(w) \/ AddPost(w)
                 \/ (LinkStep(w) /\ UNCHANGED semVars)

ReaderStep(r) == GetUnlink(r) \/ GetFree(r) \/ GetLeave(r) \/ GetPost(r)

Next == /\ alive
        /\ \/ \E w \in Writers : WriterWaits(w) \/ WriterStep(w)
           \/ \E r \in Readers : ReaderWaits(r) \/ ReaderStep(r)
           \/ \E t \in Clients : ClientStops(t) /\ UNCHANGED semVars
           \/ MonitorStep
           \/ DestroyStep

(* Every thread is scheduled again and again, and one that finds its       *)
(* semaphore above zero again and again gets past sem_wait some time.      *)
Fairness == /\ \A w \in Writers : /\ WF_vars(alive /\ WriterStep(w))
                                  /\ SF_vars(alive /\ WriterWaits(w))
            /\ \A r \in Readers : /\ WF_vars(alive /\ ReaderStep(r))
                                  /\ SF_vars(alive /\ ReaderWaits(r))
            /\ WF_vars(alive /\ MonitorStep)
            /\ WF_vars(alive /\ DestroyStep)

Spec == Init /\ [][Next]_vars
FairSpec == Spec /\ Fairness

-----------------------------------------------------------------------------
\* each thread stays in its own code
WriterPlaces == {"idle", "reserved", "add", "link", "head", "tail", "added", "post", "stopped"}
ReaderPlaces == {"idle", "reserved", "get", "free", "got", "post", "stopped"}
PlacesOK == /\ \A w \in Writers : pc[w] \in WriterPlaces
            /\ \A r \in Readers : pc[r] \in ReaderPlaces
            /\ pc[Monitor] \in MonitorPlaces
            /\ pc[Main] \in MainPlaces

(* Each variable keeps its type and each thread stays in its own code.     *)
TypeOK == /\ ListTypeOK /\ PlacesOK
          /\ mutex \in {0, 1} /\ items \in Nat /\ spaces \in Nat

(* One thread at most is inside, and mutex is up exactly when none is; a   *)
(* monitor cancelled inside leaves it down for good.                       *)
MutexOK == LET inside == {t \in Threads : Inside(t)}
           IN  /\ mutex + Cardinality(inside) =< 1
               /\ pc[Monitor] # "dead" => mutex + Cardinality(inside) = 1

At(threads, places) == Cardinality({t \in threads : pc[t] \in places})

(* Conservation: every value in the list is announced by items, or about   *)
(* to be, or promised to one reader; every place is announced by spaces,   *)
(* promised to one writer, occupied, or about to be announced.  Hence no   *)
(* reader finds q->first NULL and no writer exceeds max_count.             *)
SemBalance ==
  /\ Len(chain) = items + At(Readers, {"reserved", "get"})
                        + At(Writers, {"tail", "added", "post"})
  /\ max_count = spaces + At(Writers, {"reserved", "add", "link", "head"})
                        + Len(chain) + At(Readers, {"free", "got", "post"})

(* queue_destroy, which cancels the monitor wherever it is, joins it and   *)
(* takes mutex (queue_semaphor.c:48-51), returns.  The one way it does not *)
(* is that the monitor died after its sem_wait: then it waits for a mutex  *)
(* that nobody posts any more.                                             *)
CleanDestroyReturns ==
  pc[Main] = "join" ~> \/ pc[Main] = "returned"
                       \/ pc[Main] = "joined" /\ pc[Monitor] = "dead" /\ mutex = 0
=============================================================================

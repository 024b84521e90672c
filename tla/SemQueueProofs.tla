--------------------------- MODULE SemQueueProofs ---------------------------
(***************************************************************************)
(* For any number of clients, any capacity and any heap: the three         *)
(* semaphores of queue_semaphor.c exclude, and what they count is what is  *)
(* in the list, so that queue_get never follows a NULL and the capacity is *)
(* kept.                                                                   *)
(***************************************************************************)
EXTENDS SemQueue, QueueListProofs, FiniteSetTheorems

USE DEF MonitorPlaces, MainPlaces, Places, Critical

-----------------------------------------------------------------------------
(* First layer: who is where, and what mutex says about it.                *)
Excludes == /\ mutex \in {0, 1}
            /\ \A t, u \in Threads : Inside(t) /\ Inside(u) => t = u
            /\ mutex = 1 => \A t \in Threads : ~Inside(t)
            /\ mutex = 0 /\ pc[Monitor] # "dead" => \E t \in Threads : Inside(t)

SemLock == AtWork /\ Excludes

LEMMA InitSemLock == Init => SemLock
<1> SUFFICES ASSUME Init PROVE SemLock
  OBVIOUS
<1>1. /\ pc \in [Threads -> Places] /\ mutex = 1
      /\ \A t \in Threads : pc[t] \in {"sleep", "run", "idle"}
      /\ pc[Monitor] = "sleep" /\ pc[Main] = "run"
  BY ThreadAssumption DEF Init, ListInit, Threads
<1> QED BY <1>1 DEF SemLock, AtWork, Excludes, Inside, Quiet

(* When a thread moves: in with a sem_wait, out with a sem_post, and only  *)
(* the cancelled monitor leaves mutex as it is.                            *)
MutexMoves(t, from, to) ==
  \/ (from \in Critical <=> to \in Critical) /\ mutex' = mutex
  \/ from \notin Critical /\ to \in Critical /\ mutex > 0 /\ mutex' = mutex - 1
  \/ from \in Critical /\ to \notin Critical /\ mutex' = mutex + 1
  \/ t = Monitor /\ to = "dead" /\ mutex' = mutex

LEMMA MoveOK ==
  ASSUME SemLock, NEW t \in Threads, NEW from, NEW to \in Places, Goto(t, from, to),
         MutexMoves(t, from, to), Quiet', pc[Monitor] = "dead" => pc'[Monitor] = "dead",
         t = Monitor => to \in MonitorPlaces, t = Main => to \in MainPlaces
  PROVE  SemLock'
<1>1. /\ pc' \in [Threads -> Places]
      /\ pc[t] = from /\ pc'[t] = to
      /\ \A u \in Threads \ {t} : pc'[u] = pc[u]
  BY DEF SemLock, AtWork, Goto
<1>2. /\ mutex \in {0, 1}
      /\ \A u, v \in Threads : pc[u] \in Critical /\ pc[v] \in Critical => u = v
      /\ mutex = 1 => \A u \in Threads : pc[u] \notin Critical
      /\ mutex = 0 /\ pc[Monitor] # "dead" => \E u \in Threads : pc[u] \in Critical
  BY DEF SemLock, Excludes, Inside
<1>3. /\ mutex' \in {0, 1}
      /\ \A u, v \in Threads : pc'[u] \in Critical /\ pc'[v] \in Critical => u = v
      /\ mutex' = 1 => \A u \in Threads : pc'[u] \notin Critical
      /\ mutex' = 0 /\ pc'[Monitor] # "dead" => \E u \in Threads : pc'[u] \in Critical
  <2>1. CASE (from \in Critical <=> to \in Critical) /\ mutex' = mutex
    BY <1>1, <1>2, <2>1
  <2>2. CASE from \notin Critical /\ to \in Critical /\ mutex > 0 /\ mutex' = mutex - 1
    BY <1>1, <1>2, <2>2
  <2>3. CASE from \in Critical /\ to \notin Critical /\ mutex' = mutex + 1
    BY <1>1, <1>2, <2>3
  <2>4. CASE t = Monitor /\ to = "dead" /\ mutex' = mutex
    BY <1>1, <1>2, <2>4
  <2> QED BY <2>1, <2>2, <2>3, <2>4 DEF MutexMoves
<1>4. pc'[Monitor] \in MonitorPlaces /\ pc'[Main] \in MainPlaces
  BY <1>1 DEF SemLock, AtWork, Threads
<1> QED BY <1>1, <1>3, <1>4 DEF SemLock, AtWork, Excludes, Inside

LEMMA ClientMoveOK ==
  ASSUME SemLock, NEW t \in Clients, NEW from, NEW to \in Places, Goto(t, from, to),
         from # "stopped", MutexMoves(t, from, to)
  PROVE  SemLock'
<1>1. t \in Threads /\ t # Monitor /\ t # Main /\ Monitor \in Threads
  BY ThreadAssumption DEF Threads
<1>2. Quiet' /\ pc'[Monitor] = pc[Monitor]
  BY <1>1 DEF SemLock, AtWork, Quiet, Goto, Threads
<1> QED BY <1>1, <1>2, MoveOK

LEMMA WriterSemLock ==
  ASSUME SemLock, NEW w \in Writers, WriterWaits(w) \/ WriterStep(w)
  PROVE  SemLock'
<1>0. w \in Clients
  BY DEF Clients
<1>1. CASE AddAbort(w)
  <2>1. UNCHANGED <<pc, cancelled, mutex>>
    BY <1>1 DEF AddAbort, Abort, semVars
  <2> QED BY <2>1 DEF SemLock, AtWork, Excludes, Inside, Quiet
<1>2. CASE ~AddAbort(w)
  <2>1. \E from \in Places \ {"stopped"}, to \in Places :
           Goto(w, from, to) /\ MutexMoves(w, from, to)
    <3> USE DEF JustGoto, MutexMoves, semVars, sem_wait, sem_post
    <3>1. CASE AddReserve(w)
      BY <3>1 DEF AddReserve
    <3>2. CASE AddEnter(w)
      BY <3>2 DEF AddEnter
    <3>3. CASE AddMalloc(w)
      BY <3>3 DEF AddMalloc, Malloc
    <3>4. CASE LinkStep(w) /\ UNCHANGED semVars
      BY <3>4 DEF LinkStep, LinkEmpty, SetFirst, LinkBehind, SetLast
    <3>5. CASE AddLeave(w)
      BY <3>5 DEF AddLeave
    <3>6. CASE AddPost(w)
      BY <3>6 DEF AddPost
    <3> QED BY <1>2, <3>1, <3>2, <3>3, <3>4, <3>5, <3>6 DEF WriterWaits, WriterStep
  <2> QED BY <1>0, <2>1, ClientMoveOK
<1> QED BY <1>1, <1>2

LEMMA ReaderSemLock ==
  ASSUME SemLock, NEW r \in Readers, ReaderWaits(r) \/ ReaderStep(r)
  PROVE  SemLock'
<1>0. r \in Clients
  BY DEF Clients
<1>1. \E from \in Places \ {"stopped"}, to \in Places :
         Goto(r, from, to) /\ MutexMoves(r, from, to)
  <2> USE DEF JustGoto, MutexMoves, semVars, sem_wait, sem_post
  <2>1. CASE GetReserve(r)
    BY <2>1 DEF GetReserve
  <2>2. CASE GetEnter(r)
    BY <2>2 DEF GetEnter
  <2>3. CASE GetUnlink(r)
    BY <2>3 DEF GetUnlink, Unlink
  <2>4. CASE GetFree(r)
    BY <2>4 DEF GetFree, FreeUnlinked
  <2>5. CASE GetLeave(r)
    BY <2>5 DEF GetLeave
  <2>6. CASE GetPost(r)
    BY <2>6 DEF GetPost
  <2> QED BY <2>1, <2>2, <2>3, <2>4, <2>5, <2>6 DEF ReaderWaits, ReaderStep
<1> QED BY <1>0, <1>1, ClientMoveOK

LEMMA StopSemLock ==
  ASSUME SemLock, NEW t \in Clients, ClientStops(t), UNCHANGED semVars
  PROVE  SemLock'
<1>1. Goto(t, "idle", "stopped") /\ MutexMoves(t, "idle", "stopped")
  BY DEF ClientStops, JustGoto, MutexMoves, semVars
<1> QED BY <1>1, ClientMoveOK

LEMMA MonitorSemLock ==
  ASSUME SemLock, MonitorStep
  PROVE  SemLock'
<1>0. Monitor \in Threads /\ Monitor \notin Clients /\ Monitor # Main
  BY ThreadAssumption DEF Threads
<1>1. UNCHANGED cancelled
  BY DEF MonitorStep, MonitorWakes, MonitorEnter, MonitorPrint, MonitorCancelledAsleep,
     MonitorCancelled, JustGoto, memVars, runVars
<1>2. PICK from \in MonitorPlaces \ {"dead"}, to \in MonitorPlaces :
         Goto(Monitor, from, to) /\ MutexMoves(Monitor, from, to)
  BY DEF MonitorStep, MonitorWakes, MonitorEnter, MonitorPrint, MonitorCancelledAsleep,
     MonitorCancelled, JustGoto, MutexMoves, semVars, sem_wait, sem_post
<1>3. Quiet' /\ pc[Monitor] # "dead"
  BY <1>0, <1>1, <1>2 DEF SemLock, AtWork, Quiet, Goto, Threads, Clients
<1> QED BY <1>0, <1>2, <1>3, MoveOK

LEMMA DestroySemLock ==
  ASSUME SemLock, DestroyStep
  PROVE  SemLock'
<1>0. /\ Main \in Threads /\ Main \notin Clients /\ Monitor # Main /\ Monitor \in Threads
      /\ pc \in [Threads -> Places] /\ Quiet
  BY ThreadAssumption DEF Threads, SemLock, AtWork
<1>1. CASE DestroyFree /\ UNCHANGED semVars
  <2>1. UNCHANGED <<pc, cancelled, mutex>>
    BY <1>1 DEF DestroyFree, semVars, runVars
  <2> QED BY <2>1 DEF SemLock, AtWork, Excludes, Inside, Quiet
<1>2. CASE ~(DestroyFree /\ UNCHANGED semVars)
  <2>1. PICK from \in MainPlaces, to \in MainPlaces :
           Goto(Main, from, to) /\ MutexMoves(Main, from, to)
    BY <1>2 DEF DestroyStep, DestroyCancel, DestroyJoin, DestroyEnter, DestroyWalk,
       DestroyReturn, DestroyDone, JustGoto, MutexMoves, semVars, sem_wait, sem_post
  <2>2. \A u \in Threads \ {Main} : pc'[u] = pc[u]
    BY <1>0, <2>1 DEF Goto
  <2>3. Quiet'
    <3>1. CASE DestroyCancel
      BY <1>0, <2>2, <3>1 DEF DestroyCancel, Goto, Quiet, Threads
    <3>2. CASE DestroyJoin
      BY <1>0, <2>2, <3>2 DEF DestroyJoin, JustGoto, Goto, memVars, runVars, Quiet, Threads
    <3>3. CASE DestroyWalk \/ DestroyDone
      BY <1>0, <2>2, <3>3 DEF DestroyWalk, DestroyDone, JustGoto, Goto, memVars, runVars,
         Quiet, Threads
    <3> QED BY <1>2, <3>1, <3>2, <3>3 DEF DestroyStep, DestroyEnter, DestroyReturn
  <2> QED BY <1>0, <2>1, <2>2, <2>3, MoveOK
<1> QED BY <1>1, <1>2 DEF DestroyStep

LEMMA StepSemLock == SemLock /\ [Next]_vars => SemLock'
<1> SUFFICES ASSUME SemLock, [Next]_vars PROVE SemLock'
  OBVIOUS
<1>1. CASE UNCHANGED vars
  BY <1>1 DEF vars, listVars, semVars, runVars, SemLock, AtWork, Excludes, Inside, Quiet
<1> QED BY <1>1, WriterSemLock, ReaderSemLock, StopSemLock, MonitorSemLock,
           DestroySemLock DEF Next

\* inside a thread is alone
LEMMA SoloInside ==
  ASSUME SemLock, NEW t \in Threads, pc[t] \in Critical
  PROVE  Solo(t)
BY DEF SemLock, Excludes, Solo, Inside

(* One thread at most is inside, and mutex is up exactly when none is      *)
(* (queue_semaphor.c: sem_wait and sem_post of w->mutex).                  *)
THEOREM MutexHolds == Spec => []MutexOK
<1>1. SemLock => MutexOK
  <2> SUFFICES ASSUME SemLock PROVE MutexOK
    OBVIOUS
  <2> DEFINE inside == {t \in Threads : Inside(t)}
  <2>1. CASE inside = {}
    <3>1. Cardinality(inside) = 0
      BY <2>1, FS_EmptySet
    <3>2. pc[Monitor] # "dead" => mutex = 1
      BY <2>1 DEF SemLock, Excludes
    <3> QED BY <3>1, <3>2 DEF SemLock, Excludes, MutexOK
  <2>2. CASE inside # {}
    <3>1. PICK t \in Threads : Inside(t)
      BY <2>2
    <3>2. inside = {t} /\ mutex = 0
      BY <3>1 DEF SemLock, Excludes
    <3>3. Cardinality(inside) = 1
      BY <3>2, FS_Singleton
    <3> HIDE DEF inside
    <3>4. mutex + Cardinality(inside) = 1
      BY <3>2, <3>3
    <3> QED BY <3>4 DEF MutexOK, inside
  <2> QED BY <2>1, <2>2
<1> QED BY <1>1, InitSemLock, StepSemLock, PTL DEF Spec
-----------------------------------------------------------------------------
(* Second layer: the heap, the counters and the balance of the semaphores. *)
Tally == /\ add_count = get_count + count
         /\ Len(chain) = count + (IF Adding # {} THEN 1 ELSE 0)
                               - (IF Getting # {} THEN 1 ELSE 0)

Balance == /\ items \in Nat /\ spaces \in Nat
           /\ SemBalance

Inv == SemLock /\ HeapInv /\ Tally /\ Balance

\* the four numbers of threads that SemBalance counts
Promised == At(Readers, {"reserved", "get"})
Announcing == At(Writers, {"tail", "added", "post"})
Filling == At(Writers, {"reserved", "add", "link", "head"})
Emptied == At(Readers, {"free", "got", "post"})

LEMMA AtFacts ==
  ASSUME NEW S, IsFiniteSet(S), NEW P
  PROVE  /\ At(S, P) \in Nat /\ At(S, P)' \in Nat
         /\ \A t \in S : pc[t] \in P => At(S, P) > 0
<1> DEFINE in == {t \in S : pc[t] \in P}
           now == {t \in S : pc'[t] \in P}
<1>1. IsFiniteSet(in) /\ IsFiniteSet(now)
  BY FS_Subset
<1>2. Cardinality(in) \in Nat /\ Cardinality(now) \in Nat
  BY <1>1, FS_CardinalityType
<1>3. ASSUME NEW t \in S, pc[t] \in P PROVE Cardinality(in) # 0
  BY <1>1, <1>3, FS_EmptySet
<1> QED BY <1>2, <1>3 DEF At

\* what a move adds to the number of threads of S that are at P
In(place, P) == IF place \in P THEN 1 ELSE 0
Change(S, P, t, from, to) == IF t \in S THEN In(to, P) - In(from, P) ELSE 0

LEMMA AtMoves ==
  ASSUME pc \in [Threads -> Places], NEW S \in SUBSET Threads, IsFiniteSet(S), NEW P,
         NEW t \in Threads, NEW from, NEW to, Goto(t, from, to)
  PROVE  At(S, P)' = At(S, P) + Change(S, P, t, from, to)
<1> DEFINE in == {u \in S : pc[u] \in P}
           now == {u \in S : pc'[u] \in P}
<1>1. IsFiniteSet(in) /\ IsFiniteSet(now)
  BY FS_Subset
<1>2. Cardinality(in) \in Nat /\ Cardinality(now) \in Nat
  BY <1>1, FS_CardinalityType
<1>3. pc[t] = from /\ pc'[t] = to /\ \A u \in Threads \ {t} : pc'[u] = pc[u]
  BY DEF Goto
<1>4. Cardinality(now) = Cardinality(in) + Change(S, P, t, from, to)
  <2>1. CASE t \in S /\ from \in P /\ to \notin P
    <3>1. t \in in /\ now = in \ {t}
      BY <1>3, <2>1
    <3>2. Cardinality(in \ {t}) = Cardinality(in) - 1
      BY <1>1, <3>1, FS_RemoveElement
    <3> HIDE DEF in, now
    <3> QED BY <1>2, <2>1, <3>1, <3>2 DEF Change, In
  <2>2. CASE t \in S /\ from \notin P /\ to \in P
    <3>1. t \notin in /\ now = in \cup {t}
      BY <1>3, <2>2
    <3>2. Cardinality(in \cup {t}) = Cardinality(in) + 1
      BY <1>1, <3>1, FS_AddElement
    <3> HIDE DEF in, now
    <3> QED BY <1>2, <2>2, <3>1, <3>2 DEF Change, In
  <2>3. CASE t \in S => (from \in P <=> to \in P)
    <3>1. now = in
      BY <1>3, <2>3
    <3>2. Change(S, P, t, from, to) = 0
      BY <2>3 DEF Change, In
    <3> QED BY <1>2, <3>1, <3>2
  <2> QED BY <2>1, <2>2, <2>3
<1> QED BY <1>4 DEF At

\* the four numbers after a move
LEMMA CountsMove ==
  ASSUME pc \in [Threads -> Places], NEW t \in Threads, NEW from, NEW to, Goto(t, from, to)
  PROVE  /\ Promised' = Promised + Change(Readers, {"reserved", "get"}, t, from, to)
         /\ Announcing' = Announcing + Change(Writers, {"tail", "added", "post"}, t, from, to)
         /\ Filling' = Filling + Change(Writers, {"reserved", "add", "link", "head"}, t, from, to)
         /\ Emptied' = Emptied + Change(Readers, {"free", "got", "post"}, t, from, to)
<1>1. Readers \in SUBSET Threads /\ Writers \in SUBSET Threads
  BY DEF Threads, Clients
<1> QED BY <1>1, AtMoves, FiniteAssumption DEF Promised, Announcing, Filling, Emptied

LEMMA CountsAreNat ==
  /\ Promised \in Nat /\ Announcing \in Nat /\ Filling \in Nat /\ Emptied \in Nat
  /\ Promised' \in Nat /\ Announcing' \in Nat /\ Filling' \in Nat /\ Emptied' \in Nat
BY AtFacts, FiniteAssumption DEF Promised, Announcing, Filling, Emptied

LEMMA BalanceFacts ==
  ASSUME Balance
  PROVE  /\ items \in Nat /\ spaces \in Nat
         /\ Len(chain) = items + Promised + Announcing
         /\ max_count = spaces + Filling + Len(chain) + Emptied
BY DEF Balance, SemBalance, Promised, Announcing, Filling, Emptied

LEMMA BalanceNext ==
  ASSUME items' \in Nat, spaces' \in Nat,
         Len(chain') = items' + Promised' + Announcing',
         max_count = spaces' + Filling' + Len(chain') + Emptied'
  PROVE  Balance'
BY DEF Balance, SemBalance, Promised, Announcing, Filling, Emptied

\* a writer that moves, with what it does to the list and to the semaphores
LEMMA WriterBalanced ==
  ASSUME SemLock, HeapInv, Balance, NEW w \in Writers, NEW from, NEW to, Goto(w, from, to),
         items' \in Nat, spaces' \in Nat, Len(chain') \in Nat,
         Len(chain') - Len(chain) = (items' - items) + (In(to, {"tail", "added", "post"}) - In(from, {"tail", "added", "post"})),
         Len(chain') - Len(chain) = (spaces - spaces') - (In(to, {"reserved", "add", "link", "head"}) - In(from, {"reserved", "add", "link", "head"}))
  PROVE  Balance'
<1>1. w \in Threads /\ w \notin Readers /\ pc \in [Threads -> Places]
  BY ThreadAssumption DEF Threads, Clients, SemLock, AtWork
<1>2. /\ Promised' = Promised + Change(Readers, {"reserved", "get"}, w, from, to)
      /\ Announcing' = Announcing + Change(Writers, {"tail", "added", "post"}, w, from, to)
      /\ Filling' = Filling + Change(Writers, {"reserved", "add", "link", "head"}, w, from, to)
      /\ Emptied' = Emptied + Change(Readers, {"free", "got", "post"}, w, from, to)
  BY <1>1, CountsMove
<1>3. Promised' = Promised /\ Emptied' = Emptied
  <2>1. /\ Change(Readers, {"reserved", "get"}, w, from, to) = 0
        /\ Change(Readers, {"free", "got", "post"}, w, from, to) = 0
    BY <1>1 DEF Change
  <2> QED BY <1>2, <2>1, CountsAreNat
<1> DEFINE a == In(to, {"tail", "added", "post"}) - In(from, {"tail", "added", "post"})
           b == In(to, {"reserved", "add", "link", "head"}) - In(from, {"reserved", "add", "link", "head"})
<1>a. /\ a \in Int /\ b \in Int
      /\ Announcing' = Announcing + a /\ Filling' = Filling + b
      /\ Len(chain') - Len(chain) = (items' - items) + a
      /\ Len(chain') - Len(chain) = (spaces - spaces') - b
  <2>1. a \in Int /\ b \in Int
    BY DEF In
  <2>2. Announcing' = Announcing + a /\ Filling' = Filling + b
    BY <1>2 DEF Change
  <2> QED BY <2>1, <2>2
<1>4. /\ items \in Nat /\ spaces \in Nat
      /\ Len(chain) = items + Promised + Announcing
      /\ max_count = spaces + Filling + Len(chain) + Emptied
  BY BalanceFacts
<1>5. Len(chain) \in Nat /\ max_count \in Nat
  BY CountTypes
<1>b. a \in Int /\ b \in Int
  BY <1>a
<1>c. Len(chain') - Len(chain) = (items' - items) + a
  BY <1>a
<1>d. Len(chain') - Len(chain) = (spaces - spaces') - b
  BY <1>a
<1> HIDE DEF a, b
<1>6. /\ Len(chain') = items' + Promised' + Announcing'
      /\ max_count = spaces' + Filling' + Len(chain') + Emptied'
  <2>1. /\ Len(chain) \in Int /\ Len(chain') \in Int /\ items \in Int /\ items' \in Int
        /\ spaces \in Int /\ spaces' \in Int
        /\ Promised \in Int /\ Announcing \in Int /\ Filling \in Int /\ Emptied \in Int
    BY <1>4, <1>5, CountsAreNat
  <2>2. Len(chain') = items' + Promised' + Announcing'
    <3>1. Len(chain') = (items' - items) + a + Len(chain)
      BY <1>b, <1>c, <2>1, SMTT(30)
    <3>2. Len(chain') = (items' - items) + a + (items + Promised + Announcing)
      BY <1>4, <3>1
    <3>3. Len(chain') = items' + Promised + (Announcing + a)
      BY <1>b, <2>1, <3>2, SMTT(30)
    <3> QED BY <1>3, <1>a, <3>3
  <2>3. max_count = spaces' + Filling' + Len(chain') + Emptied'
    <3>1. Len(chain) = Len(chain') - (spaces - spaces') + b
      BY <1>b, <1>d, <2>1, SMTT(30)
    <3>2. max_count = spaces + Filling + (Len(chain') - (spaces - spaces') + b) + Emptied
      BY <1>4, <3>1
    <3>3. max_count = spaces' + (Filling + b) + Len(chain') + Emptied
      BY <1>b, <2>1, <3>2, SMTT(30)
    <3> QED BY <1>3, <1>a, <3>3
  <2> QED BY <2>2, <2>3
<1> QED BY <1>6, BalanceNext

\* ... and a reader
LEMMA ReaderBalanced ==
  ASSUME SemLock, HeapInv, Balance, NEW r \in Readers, NEW from, NEW to, Goto(r, from, to),
         items' \in Nat, spaces' \in Nat, Len(chain') \in Nat,
         Len(chain') - Len(chain) = (items' - items) + (In(to, {"reserved", "get"}) - In(from, {"reserved", "get"})),
         Len(chain') - Len(chain) = (spaces - spaces') - (In(to, {"free", "got", "post"}) - In(from, {"free", "got", "post"}))
  PROVE  Balance'
<1>1. r \in Threads /\ r \notin Writers /\ pc \in [Threads -> Places]
  BY ThreadAssumption DEF Threads, Clients, SemLock, AtWork
<1>2. /\ Promised' = Promised + Change(Readers, {"reserved", "get"}, r, from, to)
      /\ Announcing' = Announcing + Change(Writers, {"tail", "added", "post"}, r, from, to)
      /\ Filling' = Filling + Change(Writers, {"reserved", "add", "link", "head"}, r, from, to)
      /\ Emptied' = Emptied + Change(Readers, {"free", "got", "post"}, r, from, to)
  BY <1>1, CountsMove
<1>3. Announcing' = Announcing /\ Filling' = Filling
  <2>1. /\ Change(Writers, {"tail", "added", "post"}, r, from, to) = 0
        /\ Change(Writers, {"reserved", "add", "link", "head"}, r, from, to) = 0
    BY <1>1 DEF Change
  <2> QED BY <1>2, <2>1, CountsAreNat
<1> DEFINE a == In(to, {"reserved", "get"}) - In(from, {"reserved", "get"})
           b == In(to, {"free", "got", "post"}) - In(from, {"free", "got", "post"})
<1>a. /\ a \in Int /\ b \in Int
      /\ Promised' = Promised + a /\ Emptied' = Emptied + b
      /\ Len(chain') - Len(chain) = (items' - items) + a
      /\ Len(chain') - Len(chain) = (spaces - spaces') - b
  <2>1. a \in Int /\ b \in Int
    BY DEF In
  <2>2. Promised' = Promised + a /\ Emptied' = Emptied + b
    BY <1>2 DEF Change
  <2> QED BY <2>1, <2>2
<1>4. /\ items \in Nat /\ spaces \in Nat
      /\ Len(chain) = items + Promised + Announcing
      /\ max_count = spaces + Filling + Len(chain) + Emptied
  BY BalanceFacts
<1>5. Len(chain) \in Nat /\ max_count \in Nat
  BY CountTypes
<1>b. a \in Int /\ b \in Int
  BY <1>a
<1>c. Len(chain') - Len(chain) = (items' - items) + a
  BY <1>a
<1>d. Len(chain') - Len(chain) = (spaces - spaces') - b
  BY <1>a
<1> HIDE DEF a, b
<1>6. /\ Len(chain') = items' + Promised' + Announcing'
      /\ max_count = spaces' + Filling' + Len(chain') + Emptied'
  <2>1. /\ Len(chain) \in Int /\ Len(chain') \in Int /\ items \in Int /\ items' \in Int
        /\ spaces \in Int /\ spaces' \in Int
        /\ Promised \in Int /\ Announcing \in Int /\ Filling \in Int /\ Emptied \in Int
    BY <1>4, <1>5, CountsAreNat
  <2>2. Len(chain') = items' + Promised' + Announcing'
    <3>1. Len(chain') = (items' - items) + a + Len(chain)
      BY <1>b, <1>c, <2>1, SMTT(30)
    <3>2. Len(chain') = (items' - items) + a + (items + Promised + Announcing)
      BY <1>4, <3>1
    <3>3. Len(chain') = items' + (Promised + a) + Announcing
      BY <1>b, <2>1, <3>2, SMTT(30)
    <3> QED BY <1>3, <1>a, <3>3
  <2>3. max_count = spaces' + Filling' + Len(chain') + Emptied'
    <3>1. Len(chain) = Len(chain') - (spaces - spaces') + b
      BY <1>b, <1>d, <2>1, SMTT(30)
    <3>2. max_count = spaces + Filling + (Len(chain') - (spaces - spaces') + b) + Emptied
      BY <1>4, <3>1
    <3>3. max_count = spaces' + (Filling + b) + Len(chain') + Emptied
      BY <1>b, <2>1, <3>2, SMTT(30)
    <3>4. max_count = spaces' + Filling + Len(chain') + (Emptied + b)
      BY <1>b, <2>1, <3>3, SMTT(30)
    <3> QED BY <1>3, <1>a, <3>4
  <2> QED BY <2>2, <2>3
<1> QED BY <1>6, BalanceNext

\* steps on which no client moves
LEMMA BalanceStays ==
  ASSUME Balance, UNCHANGED <<chain, items, spaces>>, \A t \in Clients : pc'[t] = pc[t]
  PROVE  Balance'
BY DEF Balance, SemBalance, At, Clients

(* Linking a node needs a free place, and unlinking one a value: the       *)
(* semaphores see to it.                                                   *)
LEMMA ThereIsRoom ==
  ASSUME HeapInv, Balance, NEW w \in Writers, pc[w] \in {"link", "head"}
  PROVE  Len(chain) < max_count
<1>1. Filling > 0
  BY AtFacts, FiniteAssumption DEF Filling
<1>2. spaces \in Nat /\ max_count = spaces + Filling + Len(chain) + Emptied
  BY BalanceFacts
<1>3. Len(chain) \in Nat /\ max_count \in Nat
  BY CountTypes
<1> QED BY <1>1, <1>2, <1>3, CountsAreNat

LEMMA ThereIsValue ==
  ASSUME HeapInv, Balance, NEW r \in Readers, pc[r] = "get"
  PROVE  chain # <<>>
<1>1. Promised > 0
  BY AtFacts, FiniteAssumption DEF Promised
<1>2. items \in Nat /\ Len(chain) = items + Promised + Announcing
  BY BalanceFacts
<1>3. Len(chain) # 0
  BY <1>1, <1>2, CountsAreNat
<1> QED BY <1>3, EmptySeq

LEMMA WriterBalance ==
  ASSUME Inv, NEW w \in Writers, WriterWaits(w) \/ WriterStep(w)
  PROVE  Balance'
<1>0. /\ SemLock /\ HeapInv /\ Balance /\ ListTypeOK
      /\ Len(chain) \in Nat /\ items \in Nat /\ spaces \in Nat
  BY CountTypes, BalanceFacts DEF Inv, HeapInv, ListInv
<1> USE DEF JustGoto, memVars, linkVars, semVars, sem_wait, sem_post
<1>1. CASE AddAbort(w)
  BY <1>0, <1>1, BalanceStays DEF AddAbort, Abort
<1>2. CASE AddReserve(w)
  <2>1. /\ Goto(w, "idle", "reserved")
        /\ UNCHANGED <<chain, items>> /\ spaces > 0 /\ spaces' = spaces - 1
    BY <1>2 DEF AddReserve
  <2> QED BY <1>0, <2>1, WriterBalanced DEF In
<1>3. CASE AddEnter(w) \/ AddMalloc(w)
  <2>1. /\ Goto(w, "reserved", "add") \/ Goto(w, "add", "link")
        /\ UNCHANGED <<chain, items, spaces>>
    BY <1>3 DEF AddEnter, AddMalloc, Malloc
  <2> QED BY <1>0, <2>1, WriterBalanced DEF In
<1>4. CASE LinkStep(w) /\ UNCHANGED semVars
  <2>1. CASE LinkEmpty(w) \/ SetLast(w)
    <3>1. /\ Goto(w, "link", "head") \/ Goto(w, "tail", "added")
          /\ UNCHANGED <<chain, items, spaces>>
      BY <1>4, <2>1 DEF LinkEmpty, SetLast
    <3> QED BY <1>0, <3>1, WriterBalanced DEF In
  <2>2. CASE SetFirst(w) \/ LinkBehind(w)
    <3>1. /\ Goto(w, "head", "added") \/ Goto(w, "link", "tail")
          /\ UNCHANGED <<items, spaces>> /\ chain' = Append(chain, node[w])
      BY <1>4, <2>2 DEF SetFirst, LinkBehind
    <3>2. node[w] \in Node
      BY <1>0, <3>1 DEF HeapInv, ListInv, ListTypeOK, OwnNodes, Fresh, Goto
    <3>3. Len(chain') = Len(chain) + 1
      BY <1>0, <3>1, <3>2, AppendFacts
    <3> QED BY <1>0, <3>1, <3>3, WriterBalanced DEF In
  <2> QED BY <1>4, <2>1, <2>2 DEF LinkStep
<1>5. CASE AddLeave(w)
  <2>1. Goto(w, "added", "post") /\ UNCHANGED <<chain, items, spaces>>
    BY <1>5 DEF AddLeave, CountAdded
  <2> QED BY <1>0, <2>1, WriterBalanced DEF In
<1>6. CASE AddPost(w)
  <2>1. Goto(w, "post", "idle") /\ UNCHANGED <<chain, spaces>> /\ items' = items + 1
    BY <1>6 DEF AddPost
  <2> QED BY <1>0, <2>1, WriterBalanced DEF In
<1> QED BY <1>1, <1>2, <1>3, <1>4, <1>5, <1>6 DEF WriterWaits, WriterStep

LEMMA ReaderBalance ==
  ASSUME Inv, NEW r \in Readers, ReaderWaits(r) \/ ReaderStep(r)
  PROVE  Balance'
<1>0. /\ SemLock /\ HeapInv /\ Balance /\ ListTypeOK /\ ChainOK
      /\ Len(chain) \in Nat /\ items \in Nat /\ spaces \in Nat
  BY CountTypes, BalanceFacts DEF Inv, HeapInv, ListInv
<1> USE DEF JustGoto, memVars, linkVars, semVars, sem_wait, sem_post
<1>1. CASE GetReserve(r)
  <2>1. /\ Goto(r, "idle", "reserved")
        /\ UNCHANGED <<chain, spaces>> /\ items > 0 /\ items' = items - 1
    BY <1>1 DEF GetReserve
  <2> QED BY <1>0, <2>1, ReaderBalanced DEF In
<1>2. CASE GetEnter(r) \/ GetFree(r) \/ GetLeave(r)
  <2>1. /\ Goto(r, "reserved", "get") \/ Goto(r, "free", "got") \/ Goto(r, "got", "post")
        /\ UNCHANGED <<chain, items, spaces>>
    BY <1>2 DEF GetEnter, GetFree, FreeUnlinked, GetLeave, CountGot
  <2> QED BY <1>0, <2>1, ReaderBalanced DEF In
<1>3. CASE GetUnlink(r)
  <2>1. Goto(r, "get", "free") /\ UNCHANGED <<items, spaces>> /\ chain' = Tail(chain)
    BY <1>3 DEF GetUnlink, Unlink
  <2>2. chain # <<>>
    BY <1>0, <2>1, ThereIsValue DEF Goto
  <2>3. Len(chain') = Len(chain) - 1 /\ Len(chain) \in Nat \ {0}
    BY <1>0, <2>1, <2>2, TailFacts
  <2>4. Len(chain') \in Nat /\ Len(chain') - Len(chain) = -1
    BY <1>0, <2>3
  <2>5. /\ In("get", {"reserved", "get"}) = 1 /\ In("free", {"reserved", "get"}) = 0
        /\ In("get", {"free", "got", "post"}) = 0 /\ In("free", {"free", "got", "post"}) = 1
    BY DEF In
  <2>6. /\ Len(chain') - Len(chain) = (items' - items)
             + (In("free", {"reserved", "get"}) - In("get", {"reserved", "get"}))
        /\ Len(chain') - Len(chain) = (spaces - spaces')
             - (In("free", {"free", "got", "post"}) - In("get", {"free", "got", "post"}))
    BY <1>0, <2>1, <2>4, <2>5
  <2> QED BY <1>0, <2>1, <2>4, <2>6, ReaderBalanced
<1>4. CASE GetPost(r)
  <2>1. Goto(r, "post", "idle") /\ UNCHANGED <<chain, items>> /\ spaces' = spaces + 1
    BY <1>4 DEF GetPost
  <2> QED BY <1>0, <2>1, ReaderBalanced DEF In
<1> QED BY <1>1, <1>2, <1>3, <1>4 DEF ReaderWaits, ReaderStep

(* The counters: each step of a client keeps the tally.                    *)
LEMMA TallyFrame ==
  ASSUME Tally, SemLock, NEW t \in Threads, NEW from, NEW to, Goto(t, from, to),
         UNCHANGED <<count, add_count, get_count, chain>>,
         from \notin {"tail", "added", "free", "got"}, to \notin {"tail", "added", "free", "got"}
  PROVE  Tally'
<1>1. pc[t] = from /\ pc'[t] = to /\ \A u \in Threads \ {t} : pc'[u] = pc[u]
  BY DEF SemLock, AtWork, Goto
<1>2. Adding' = Adding /\ Getting' = Getting
  BY <1>1 DEF Adding, Getting, Threads, Clients
<1> QED BY <1>2 DEF Tally

LEMMA WriterTally ==
  ASSUME Inv, NEW w \in Writers, WriterWaits(w) \/ WriterStep(w)
  PROVE  Tally'
<1>0. /\ SemLock /\ HeapInv /\ Tally /\ ListTypeOK /\ w \in Threads /\ w \in Clients
      /\ w \notin Readers
      /\ count \in Nat /\ add_count \in Nat /\ get_count \in Nat /\ Len(chain) \in Nat
  BY CountTypes, ThreadAssumption DEF Inv, HeapInv, ListInv, Threads, Clients
<1> USE DEF JustGoto, memVars, linkVars, semVars, statVars
<1>1. CASE AddAbort(w)
  <2>1. UNCHANGED <<pc, count, add_count, get_count, chain>>
    BY <1>1 DEF AddAbort, Abort
  <2> QED BY <1>0, <2>1 DEF Tally, Adding, Getting
<1>2. CASE AddReserve(w) \/ AddEnter(w) \/ AddPost(w) \/ AddMalloc(w)
           \/ (LinkEmpty(w) /\ UNCHANGED semVars)
  <2>1. /\ \/ Goto(w, "idle", "reserved") \/ Goto(w, "reserved", "add") \/ Goto(w, "post", "idle")
           \/ Goto(w, "add", "link") \/ Goto(w, "link", "head")
        /\ UNCHANGED <<count, add_count, get_count, chain>>
    BY <1>2 DEF AddReserve, AddEnter, AddPost, AddMalloc, Malloc, LinkEmpty
  <2> QED BY <1>0, <2>1, TallyFrame
<1>3. ASSUME pc[w] \in Critical PROVE Solo(w)
  BY <1>0, <1>3, SoloInside
<1>4. CASE SetFirst(w) \/ LinkBehind(w)
  <2>1. PICK from \in {"head", "link"}, to \in {"added", "tail"} : Goto(w, from, to)
    BY <1>4 DEF SetFirst, LinkBehind
  <2>2. UNCHANGED <<count, add_count, get_count>> /\ chain' = Append(chain, node[w])
    BY <1>4 DEF SetFirst, LinkBehind
  <2>3. node[w] \in Node
    BY <1>0, <2>1 DEF HeapInv, ListInv, ListTypeOK, OwnNodes, Fresh, Goto
  <2>4. Len(chain') = Len(chain) + 1
    BY <1>0, <2>2, <2>3, AppendFacts
  <2>5. Adding = {} /\ Getting = {} /\ Adding' = {w} /\ Getting' = {}
    BY <1>0, <1>3, <2>1, SoloFacts DEF Goto
  <2> QED BY <1>0, <2>2, <2>4, <2>5 DEF Tally
<1>5. CASE SetLast(w)
  <2>1. Goto(w, "tail", "added") /\ UNCHANGED <<count, add_count, get_count, chain>>
    BY <1>5 DEF SetLast
  <2>2. Adding = {w} /\ Getting = {} /\ Adding' = {w} /\ Getting' = {}
    BY <1>0, <1>3, <2>1, SoloFacts DEF Goto
  <2> QED BY <1>0, <2>1, <2>2 DEF Tally
<1>6. CASE AddLeave(w)
  <2>1. /\ Goto(w, "added", "post") /\ UNCHANGED <<get_count, chain>>
        /\ count' = count + 1 /\ add_count' = add_count + 1
    BY <1>6 DEF AddLeave, CountAdded
  <2>2. Adding = {w} /\ Getting = {} /\ Adding' = {} /\ Getting' = {}
    BY <1>0, <1>3, <2>1, SoloFacts DEF Goto
  <2> QED BY <1>0, <2>1, <2>2 DEF Tally
<1> QED BY <1>1, <1>2, <1>4, <1>5, <1>6 DEF WriterWaits, WriterStep, LinkStep

LEMMA ReaderTally ==
  ASSUME Inv, NEW r \in Readers, ReaderWaits(r) \/ ReaderStep(r)
  PROVE  Tally'
<1>0. /\ SemLock /\ HeapInv /\ Balance /\ Tally /\ ListTypeOK /\ ChainOK
      /\ r \in Threads /\ r \in Clients /\ r \notin Writers
      /\ count \in Nat /\ add_count \in Nat /\ get_count \in Nat /\ Len(chain) \in Nat
  BY CountTypes, ThreadAssumption DEF Inv, HeapInv, ListInv, Threads, Clients
<1> USE DEF JustGoto, memVars, linkVars, semVars, statVars
<1>1. CASE GetReserve(r) \/ GetEnter(r) \/ GetPost(r)
  <2>1. /\ Goto(r, "idle", "reserved") \/ Goto(r, "reserved", "get") \/ Goto(r, "post", "idle")
        /\ UNCHANGED <<count, add_count, get_count, chain>>
    BY <1>1 DEF GetReserve, GetEnter, GetPost
  <2> QED BY <1>0, <2>1, TallyFrame
<1>2. ASSUME pc[r] \in Critical PROVE Solo(r)
  BY <1>0, <1>2, SoloInside
<1>3. CASE GetUnlink(r)
  <2>1. /\ Goto(r, "get", "free") /\ UNCHANGED <<count, add_count, get_count>>
        /\ chain' = Tail(chain)
    BY <1>3 DEF GetUnlink, Unlink
  <2>2. chain # <<>>
    BY <1>0, <2>1, ThereIsValue DEF Goto
  <2>3. Len(chain') = Len(chain) - 1
    BY <1>0, <2>1, <2>2, TailFacts
  <2>4. Adding = {} /\ Getting = {} /\ Adding' = {} /\ Getting' = {r}
    BY <1>0, <1>2, <2>1, SoloFacts DEF Goto
  <2> QED BY <1>0, <2>1, <2>3, <2>4 DEF Tally
<1>4. CASE GetFree(r)
  <2>1. Goto(r, "free", "got") /\ UNCHANGED <<count, add_count, get_count, chain>>
    BY <1>4 DEF GetFree, FreeUnlinked
  <2>2. Adding = {} /\ Getting = {r} /\ Adding' = {} /\ Getting' = {r}
    BY <1>0, <1>2, <2>1, SoloFacts DEF Goto
  <2> QED BY <1>0, <2>1, <2>2 DEF Tally
<1>5. CASE GetLeave(r)
  <2>1. /\ Goto(r, "got", "post") /\ UNCHANGED <<add_count, chain>>
        /\ count' = count - 1 /\ get_count' = get_count + 1
    BY <1>5 DEF GetLeave, CountGot
  <2>2. Adding = {} /\ Getting = {r} /\ Adding' = {} /\ Getting' = {}
    BY <1>0, <1>2, <2>1, SoloFacts DEF Goto
  <2> QED BY <1>0, <2>1, <2>2 DEF Tally
<1> QED BY <1>1, <1>3, <1>4, <1>5 DEF ReaderWaits, ReaderStep

(* The list and the heap: the steps of queue_add and queue_get that change *)
(* them are made inside, alone.                                            *)
LEMMA WriterHeap ==
  ASSUME Inv, NEW w \in Writers, WriterWaits(w) \/ WriterStep(w)
  PROVE  HeapInv'
<1>0. SemLock /\ AtWork /\ HeapInv /\ ListInv /\ w \in Threads /\ w \in Clients
  BY DEF Inv, SemLock, HeapInv, Threads, Clients
<1>1. CASE AddAbort(w)
  BY <1>0, <1>1, AbortHeapInv DEF AddAbort
<1>2. CASE AddReserve(w) \/ AddEnter(w) \/ AddPost(w)
  <2>1. \/ JustGoto(w, "idle", "reserved") \/ JustGoto(w, "reserved", "add")
        \/ JustGoto(w, "post", "idle")
    BY <1>2 DEF AddReserve, AddEnter, AddPost
  <2> QED BY <1>0, <2>1, ClientGotoOK DEF Pointing
<1>3. CASE Malloc(w) \/ LinkStep(w)
  <2>1. pc[w] \in Critical
    BY <1>3 DEF Malloc, LinkStep, LinkEmpty, SetFirst, LinkBehind, SetLast, Goto
  <2> QED BY <1>0, <1>3, <2>1, SoloInside, WriterListHeap
<1>4. CASE AddLeave(w)
  <2>1. Goto(w, "added", "post") /\ CountAdded(w) /\ "post" \in Places \ Pointing
    BY <1>4 DEF AddLeave, Pointing
  <2>2. HeapRun => ListInv' /\ HeapRun'
    BY <1>0, <2>1, CountAddedOK
  <2> QED BY <1>0, <2>1, <2>2, ClientStepOK
<1> QED BY <1>1, <1>2, <1>3, <1>4 DEF WriterWaits, WriterStep, AddMalloc

LEMMA GetLeaveOK ==
  ASSUME Inv, NEW r \in Readers, GetLeave(r)
  PROVE  ListInv' /\ (HeapRun => HeapRun')
<1>0. /\ SemLock /\ ListTypeOK /\ ListInv /\ HeapInv /\ Tally
      /\ r \in Threads /\ r \in Clients /\ r \notin Writers
  BY ThreadAssumption DEF Inv, HeapInv, ListInv, Threads, Clients
<1>1. /\ Goto(r, "got", "post") /\ count' = count - 1 /\ get_count' = get_count + 1
      /\ UNCHANGED <<first, last, chain, next, val, heap, add_count>>
      /\ UNCHANGED <<node, sent, expected, errors, cancelled, alive>>
  BY DEF GetLeave, CountGot, linkVars, heapVars, readVars, runVars
<1>2. Solo(r) /\ pc[r] = "got"
  BY <1>0, <1>1, SoloInside DEF Goto
<1>3. count \in Nat \ {0} /\ get_count \in Nat
  <2>1. Adding = {} /\ Getting = {r}
    BY <1>0, <1>2, Between
  <2>2. Len(chain) = count - 1 /\ Len(chain) \in Nat /\ count \in Nat /\ get_count \in Nat
    BY <1>0, <2>1, CountTypes DEF Tally
  <2> QED BY <2>2
<1>4. /\ pc' \in [Threads -> Places] /\ pc'[r] = "post"
      /\ \A u \in Threads \ {r} : pc'[u] = pc[u]
  BY <1>0, <1>1, GotoFacts
<1>5. ListTypeOK'
  <2>1. count' \in Nat /\ get_count' \in Nat
    BY <1>1, <1>3
  <2> QED BY <1>0, <1>1, <1>4, <2>1 DEF ListTypeOK
<1>6. /\ \A u \in Threads : pc[u] \in Pointing \/ pc'[u] \in Pointing =>
                              pc'[u] = pc[u] /\ node'[u] = node[u]
      /\ \A u \in Writers : pc[u] \in Pointing => sent'[u] = sent[u]
  BY <1>1, <1>2, <1>4 DEF Pointing
<1> QED BY <1>0, <1>1, <1>5, <1>6, FrameOK

LEMMA ReaderHeap ==
  ASSUME Inv, NEW r \in Readers, ReaderWaits(r) \/ ReaderStep(r)
  PROVE  HeapInv'
<1>0. SemLock /\ AtWork /\ HeapInv /\ Balance /\ ListInv /\ r \in Threads /\ r \in Clients
  BY DEF Inv, SemLock, HeapInv, Threads, Clients
<1>1. CASE GetReserve(r) \/ GetEnter(r) \/ GetPost(r)
  <2>1. \/ JustGoto(r, "idle", "reserved") \/ JustGoto(r, "reserved", "get")
        \/ JustGoto(r, "post", "idle")
    BY <1>1 DEF GetReserve, GetEnter, GetPost
  <2> QED BY <1>0, <2>1, ClientGotoOK DEF Pointing
<1>2. CASE Unlink(r)
  <2>1. pc[r] = "get"
    BY <1>2 DEF Unlink, Goto
  <2>2. Solo(r) /\ chain # <<>>
    BY <1>0, <2>1, SoloInside, ThereIsValue
  <2> QED BY <1>0, <1>2, <2>2, ReaderListHeap
<1>3. CASE FreeUnlinked(r)
  <2>1. pc[r] = "free"
    BY <1>3 DEF FreeUnlinked, Goto
  <2>2. Solo(r)
    BY <1>0, <2>1, SoloInside
  <2> QED BY <1>0, <1>3, <2>2, ReaderListHeap
<1>4. CASE GetLeave(r)
  <2>1. Goto(r, "got", "post")
    BY <1>4 DEF GetLeave
  <2>2. HeapRun => ListInv' /\ HeapRun'
    BY <1>4, GetLeaveOK
  <2> QED BY <1>0, <2>1, <2>2, ClientStepOK
<1> QED BY <1>1, <1>2, <1>3, <1>4 DEF ReaderWaits, ReaderStep, GetUnlink, GetFree

(* A client that stops, the monitor and queue_destroy.                     *)
LEMMA StopInv ==
  ASSUME Inv, NEW t \in Clients, ClientStops(t), UNCHANGED semVars
  PROVE  Inv'
<1>0. /\ SemLock /\ AtWork /\ HeapInv /\ Tally /\ Balance /\ t \in Threads
      /\ Len(chain) \in Nat /\ items \in Nat /\ spaces \in Nat
      /\ JustGoto(t, "idle", "stopped") /\ Goto(t, "idle", "stopped")
      /\ UNCHANGED <<count, add_count, get_count, chain, items, spaces>>
  BY CountTypes, BalanceFacts DEF Inv, SemLock, Threads, ClientStops, JustGoto,
     memVars, statVars, linkVars, semVars
<1>1. HeapInv' /\ SemLock'
  BY <1>0, ClientGotoOK, StopSemLock DEF Pointing
<1>2. Tally'
  BY <1>0, TallyFrame
<1>3. Balance'
  <2>1. CASE t \in Writers
    BY <1>0, <2>1, WriterBalanced DEF In
  <2>2. CASE t \in Readers
    BY <1>0, <2>2, ReaderBalanced DEF In
  <2> QED BY <2>1, <2>2 DEF Clients
<1> QED BY <1>1, <1>2, <1>3 DEF Inv

LEMMA OtherInv ==
  ASSUME Inv, MonitorStep \/ DestroyStep
  PROVE  Inv'
<1>0. /\ SemLock /\ AtWork /\ HeapInv /\ Tally /\ Balance /\ pc \in [Threads -> Places]
      /\ Monitor \in Threads /\ Main \in Threads
      /\ Monitor \notin Clients /\ Main \notin Clients
  BY ThreadAssumption DEF Inv, SemLock, AtWork, Threads
<1>1. HeapInv'
  <2>1. CASE MonitorStep
    <3>1. PICK from \in MonitorPlaces, to \in MonitorPlaces : JustGoto(Monitor, from, to)
      BY <2>1 DEF MonitorStep, MonitorWakes, MonitorEnter, MonitorPrint,
         MonitorCancelledAsleep, MonitorCancelled
    <3> QED BY <1>0, <3>1, MonitorHeapInv
  <2>2. CASE DestroyStep
    <3>1. DestroyCancel \/ DestroyJoin \/ DestroyWalk \/ DestroyFree \/ DestroyDone
      BY <2>2 DEF DestroyStep, DestroyEnter, DestroyReturn
    <3> QED BY <1>0, <3>1, DestroyHeapInv
  <2> QED BY <2>1, <2>2
<1>2. /\ UNCHANGED <<count, add_count, get_count, chain, items, spaces>>
      /\ \A t \in Clients : pc'[t] = pc[t]
  <2> USE DEF JustGoto, Goto, memVars, statVars, linkVars, semVars
  <2>1. UNCHANGED <<count, add_count, get_count, chain, items, spaces>>
    BY DEF MonitorStep, MonitorWakes, MonitorEnter, MonitorPrint, MonitorCancelledAsleep,
       MonitorCancelled, DestroyStep, DestroyCancel, DestroyJoin, DestroyEnter, DestroyWalk,
       DestroyFree, DestroyReturn, DestroyDone
  <2>2. \/ UNCHANGED pc
        \/ \E t \in {Monitor, Main}, to \in Places : pc' = [pc EXCEPT ![t] = to]
    BY DEF MonitorStep, MonitorWakes, MonitorEnter, MonitorPrint, MonitorCancelledAsleep,
       MonitorCancelled, DestroyStep, DestroyCancel, DestroyJoin, DestroyEnter, DestroyWalk,
       DestroyFree, DestroyReturn, DestroyDone
  <2>3. \A t \in Clients : pc'[t] = pc[t]
    BY <1>0, <2>2 DEF Threads
  <2> QED BY <2>1, <2>3
<1>3. Tally'
  <2>1. Adding' = Adding /\ Getting' = Getting
    BY <1>2 DEF Adding, Getting, Clients
  <2> QED BY <1>0, <1>2, <2>1 DEF Tally
<1>4. Balance'
  BY <1>0, <1>2, BalanceStays
<1>5. SemLock'
  BY <1>0, MonitorSemLock, DestroySemLock
<1> QED BY <1>1, <1>3, <1>4, <1>5 DEF Inv

LEMMA InitSemInv == Init => Inv
<1> SUFFICES ASSUME Init PROVE Inv
  OBVIOUS
<1>1. /\ SemLock /\ HeapInv /\ chain = <<>> /\ Len(chain) = 0
      /\ count = 0 /\ add_count = 0 /\ get_count = 0 /\ items = 0 /\ spaces = max_count
  BY InitSemLock, InitHeapInv, EmptySeq DEF Init, ListInit
<1>2. \A t \in Clients : pc[t] = "idle"
  BY ThreadAssumption DEF Init, ListInit, Threads
<1>3. Adding = {} /\ Getting = {}
  BY <1>2 DEF Adding, Getting, Clients
<1>4. Promised = 0 /\ Announcing = 0 /\ Filling = 0 /\ Emptied = 0
  <2> DEFINE here(S, P) == {t \in S : pc[t] \in P}
  <2>1. /\ here(Readers, {"reserved", "get"}) = {}
        /\ here(Writers, {"tail", "added", "post"}) = {}
        /\ here(Writers, {"reserved", "add", "link", "head"}) = {}
        /\ here(Readers, {"free", "got", "post"}) = {}
    BY <1>2 DEF Clients
  <2> QED BY <2>1, FS_EmptySet DEF Promised, Announcing, Filling, Emptied, At
<1>5. Tally
  BY <1>1, <1>3 DEF Tally
<1>6. Balance
  <2>1. /\ Len(chain) = items + Promised + Announcing
        /\ max_count = spaces + Filling + Len(chain) + Emptied
        /\ items \in Nat /\ spaces \in Nat
    BY <1>1, <1>4, BoundAssumption
  <2> QED BY <2>1 DEF Balance, SemBalance, Promised, Announcing, Filling, Emptied
<1> QED BY <1>1, <1>5, <1>6 DEF Inv

LEMMA StutterInv ==
  ASSUME Inv, UNCHANGED vars
  PROVE  Inv'
<1>1. /\ UNCHANGED <<first, last, chain, next, val, heap, count, add_count, get_count>>
      /\ UNCHANGED <<pc, node, sent, expected, errors, cancelled, alive, items, spaces>>
  BY DEF vars, semVars, listVars, linkVars, heapVars, statVars, readVars, runVars
<1>2. ListTypeOK' /\ ListInv /\ HeapOK
  BY <1>1 DEF Inv, HeapInv, ListInv, ListTypeOK
<1>3. ListInv' /\ (HeapRun => HeapRun')
  BY <1>1, <1>2, FrameOK
<1>4. HeapInv'
  BY <1>1, <1>2, <1>3, HeapFrameOK DEF HeapInv
<1>5. Tally' /\ Balance'
  BY <1>1, BalanceStays DEF Inv, Tally, Adding, Getting
<1> QED BY <1>4, <1>5, StepSemLock DEF Inv

LEMMA StepInv == Inv /\ [Next]_vars => Inv'
<1> SUFFICES ASSUME Inv, [Next]_vars PROVE Inv'
  OBVIOUS
<1>1. CASE UNCHANGED vars
  BY <1>1, StutterInv
<1>2. ASSUME NEW w \in Writers, WriterWaits(w) \/ WriterStep(w) PROVE Inv'
  BY <1>2, WriterSemLock, WriterHeap, WriterTally, WriterBalance DEF Inv
<1>3. ASSUME NEW r \in Readers, ReaderWaits(r) \/ ReaderStep(r) PROVE Inv'
  BY <1>3, ReaderSemLock, ReaderHeap, ReaderTally, ReaderBalance DEF Inv
<1> QED BY <1>1, <1>2, <1>3, StopInv, OtherInv DEF Next

(* Both layers hold throughout.                                            *)
THEOREM Invariant == Spec => []Inv
BY InitSemInv, StepInv, PTL DEF Spec

(* Conservation: the two semaphores count what is in the list, up to the   *)
(* threads between a wait or a post and the change it stands for, so that  *)
(* queue_get never follows a NULL first and the capacity is kept           *)
(* (queue_semaphor.c).                                                     *)
THEOREM BalanceHolds == Spec => []SemBalance
<1>1. Inv => SemBalance
  BY DEF Inv, Balance
<1> QED BY <1>1, Invariant, PTL

(* No leak, no use after free, and queue_destroy frees every node once.    *)
THEOREM HeapHolds == Spec => []HeapOK
<1>1. Inv => HeapOK
  BY DEF Inv, HeapInv
<1> QED BY <1>1, Invariant, PTL

(* Type correctness: each variable keeps its type, and each thread stays   *)
(* in its own code.                                                        *)
THEOREM TypeCorrect == Spec => []TypeOK
<1> USE DEF WriterPlaces, ReaderPlaces
<1>1. Init => PlacesOK
  BY ThreadAssumption DEF Init, ListInit, PlacesOK, Threads, Clients
<1>2. Inv /\ Inv' /\ PlacesOK /\ [Next]_vars => PlacesOK'
  <2> SUFFICES ASSUME Inv, Inv', PlacesOK, [Next]_vars PROVE PlacesOK'
    OBVIOUS
  <2>0. /\ pc \in [Threads -> Places] /\ pc'[Monitor] \in MonitorPlaces
        /\ pc'[Main] \in MainPlaces /\ Writers \cap Readers = {}
        /\ Monitor \notin Clients /\ Main \notin Clients
    BY ThreadAssumption DEF Inv, SemLock, AtWork
  <2>1. CASE UNCHANGED vars
    BY <2>1 DEF vars, listVars, PlacesOK
  <2>2. ASSUME NEW w \in Writers, WriterWaits(w) \/ WriterStep(w) PROVE PlacesOK'
    <3>1. UNCHANGED pc \/ \E from, to \in WriterPlaces : Goto(w, from, to)
      BY <2>2 DEF WriterWaits, AddReserve, AddEnter, WriterStep, AddMalloc, Malloc, AddAbort,
         Abort, LinkStep, LinkEmpty, SetFirst, LinkBehind, SetLast, AddLeave, AddPost, JustGoto
    <3> QED BY <2>0, <3>1 DEF Goto, PlacesOK, Threads, Clients
  <2>3. ASSUME NEW r \in Readers, ReaderWaits(r) \/ ReaderStep(r) PROVE PlacesOK'
    <3>1. \E from, to \in ReaderPlaces : Goto(r, from, to)
      BY <2>3 DEF ReaderWaits, GetReserve, GetEnter, ReaderStep, GetUnlink, Unlink, GetFree,
         FreeUnlinked, GetLeave, GetPost, JustGoto
    <3> QED BY <2>0, <3>1 DEF Goto, PlacesOK, Threads, Clients
  <2>4. CASE \E t \in Clients : ClientStops(t)
    BY <2>0, <2>4 DEF ClientStops, JustGoto, Goto, PlacesOK, Threads, Clients
  <2>5. CASE MonitorStep \/ DestroyStep
    <3>1. UNCHANGED pc \/ \E t \in {Monitor, Main}, from, to \in Places : Goto(t, from, to)
      BY <2>5 DEF MonitorStep, MonitorWakes, MonitorEnter, MonitorPrint,
         MonitorCancelledAsleep, MonitorCancelled, DestroyStep, DestroyCancel, DestroyJoin,
         DestroyEnter, DestroyWalk, DestroyFree, DestroyReturn, DestroyDone, JustGoto
    <3> QED BY <2>0, <3>1 DEF Goto, PlacesOK, Threads, Clients
  <2> QED BY <2>1, <2>2, <2>3, <2>4, <2>5 DEF Next
<1>3. Inv /\ PlacesOK => TypeOK
  BY DEF Inv, SemLock, Excludes, HeapInv, ListInv, Balance, TypeOK
<1> QED BY <1>1, <1>2, <1>3, Invariant, PTL DEF Spec

-----------------------------------------------------------------------------
(* Each step is one of the bounded FIFO or unseen by it.                   *)
FifoStep == [FifoP!Next]_(FifoP!fifoVars)

LEMMA SilentStep ==
  ASSUME Silent
  PROVE  FifoStep
BY DEF FifoStep, Silent, FifoP!fifoVars

LEMMA WriterFifo ==
  ASSUME Inv, Inv', NEW w \in Writers, WriterWaits(w) \/ WriterStep(w)
  PROVE  FifoStep
<1>0. /\ SemLock /\ AtWork /\ HeapInv /\ Balance /\ ListInv /\ HeapOK /\ ListTypeOK /\ ListTypeOK'
      /\ w \in Threads /\ w \in Clients /\ pc \in [Threads -> Places]
      /\ \A u \in Writers : u \in Threads
  BY DEF Inv, SemLock, AtWork, HeapInv, ListInv, Threads, Clients
<1>1. CASE AddAbort(w)
  <2>1. UNCHANGED <<chain, val, sent, expected, pc>>
    BY <1>1 DEF AddAbort, Abort, linkVars, heapVars, readVars
  <2> QED BY <2>1, SilentFrame, SilentStep
<1>2. CASE AddReserve(w) \/ AddEnter(w) \/ AddPost(w)
  <2>1. \/ JustGoto(w, "idle", "reserved") \/ JustGoto(w, "reserved", "add")
        \/ JustGoto(w, "post", "idle")
    BY <1>2 DEF AddReserve, AddEnter, AddPost
  <2> QED BY <1>0, <2>1, SilentMove, SilentStep
<1>3. CASE Malloc(w) \/ LinkEmpty(w) \/ SetLast(w)
  <2>1. pc[w] # "stopped"
    BY <1>3 DEF Malloc, LinkEmpty, SetLast, Goto
  <2>2. HeapRun
    BY <1>0, <2>1 DEF AtWork, Quiet, HeapOK, HeapRun
  <2> QED BY <1>0, <1>3, <2>2, WriterIsSilent, SilentStep
<1>4. CASE SetFirst(w) \/ LinkBehind(w)
  <2>1. pc[w] \in {"link", "head"}
    BY <1>4 DEF SetFirst, LinkBehind, Goto
  <2>2. Solo(w) /\ Len(chain) < max_count
    BY <1>0, <2>1, SoloInside, ThereIsRoom
  <2>3. FifoP!Put(w)
    BY <1>0, <1>4, <2>2, LinkIsPut
  <2> QED BY <2>3 DEF FifoStep, FifoP!Next
<1>5. CASE AddLeave(w)
  <2>1. Goto(w, "added", "post") /\ CountAdded(w)
    BY <1>5 DEF AddLeave
  <2>2. /\ pc[w] = "added" /\ pc'[w] \notin {"tail", "added"}
        /\ \A u \in Writers \ {w} : pc'[u] = pc[u]
    BY <1>0, <2>1 DEF Goto
  <2> QED BY <1>0, <2>1, <2>2, CountAddedIsSilent, SilentStep
<1> QED BY <1>1, <1>2, <1>3, <1>4, <1>5 DEF WriterWaits, WriterStep, AddMalloc, LinkStep

LEMMA ReaderFifo ==
  ASSUME Inv, Inv', NEW r \in Readers, ReaderWaits(r) \/ ReaderStep(r)
  PROVE  FifoStep
<1>0. /\ HeapInv /\ Balance /\ ListInv /\ ListTypeOK /\ ListTypeOK' /\ r \in Threads
  BY DEF Inv, HeapInv, ListInv, Threads, Clients
<1>1. CASE GetReserve(r) \/ GetEnter(r) \/ GetPost(r)
  <2>1. \/ JustGoto(r, "idle", "reserved") \/ JustGoto(r, "reserved", "get")
        \/ JustGoto(r, "post", "idle")
    BY <1>1 DEF GetReserve, GetEnter, GetPost
  <2> QED BY <1>0, <2>1, SilentMove, SilentStep
<1>2. CASE Unlink(r)
  <2>1. chain # <<>>
    BY <1>0, <1>2, ThereIsValue DEF Unlink, Goto
  <2> QED BY <1>0, <1>2, <2>1, UnlinkIsTake DEF FifoStep, FifoP!Next
<1>3. CASE FreeUnlinked(r)
  BY <1>0, <1>3, FreeIsSilent, SilentStep
<1>4. CASE GetLeave(r)
  <2>1. Goto(r, "got", "post") /\ UNCHANGED <<chain, val, sent, expected>>
    BY <1>4 DEF GetLeave, CountGot, linkVars, heapVars, readVars
  <2> QED BY <1>0, <2>1, SilentGoto, SilentStep
<1> QED BY <1>1, <1>2, <1>3, <1>4 DEF ReaderWaits, ReaderStep, GetUnlink, GetFree

LEMMA OtherFifo ==
  ASSUME Inv,
         \/ \E t \in Clients : ClientStops(t)
         \/ MonitorStep \/ DestroyStep
  PROVE  FifoStep
<1>0. /\ ListTypeOK /\ pc \in [Threads -> Places] /\ Monitor \in Threads /\ Main \in Threads
      /\ Main \notin Writers /\ \A u \in Clients : u \in Threads
  BY ThreadAssumption DEF Inv, HeapInv, ListInv, ListTypeOK, Threads, Clients
<1>1. CASE \E t \in Clients : ClientStops(t)
  <2>1. PICK t \in Clients : JustGoto(t, "idle", "stopped")
    BY <1>1 DEF ClientStops
  <2> QED BY <1>0, <2>1, SilentMove, SilentStep
<1>2. CASE MonitorStep
  <2>1. PICK from \in MonitorPlaces, to \in MonitorPlaces : JustGoto(Monitor, from, to)
    BY <1>2 DEF MonitorStep, MonitorWakes, MonitorEnter, MonitorPrint,
       MonitorCancelledAsleep, MonitorCancelled
  <2> QED BY <1>0, <2>1, SilentMove, SilentStep
<1>3. CASE DestroyStep
  <2>1. UNCHANGED <<chain, val, sent, expected>>
    BY <1>3 DEF DestroyStep, DestroyCancel, DestroyJoin, DestroyEnter, DestroyWalk,
       DestroyFree, DestroyReturn, DestroyDone, JustGoto, memVars, linkVars, heapVars, readVars
  <2>2. \A u \in Writers : pc'[u] = pc[u]
    BY <1>0, <1>3 DEF DestroyStep, DestroyCancel, DestroyJoin, DestroyEnter, DestroyWalk,
       DestroyFree, DestroyReturn, DestroyDone, JustGoto, Goto, Clients
  <2> QED BY <2>1, <2>2, SilentFrame, SilentStep
<1> QED BY <1>1, <1>2, <1>3

LEMMA StepFifo == Inv /\ Inv' /\ [Next]_vars => FifoStep
<1> SUFFICES ASSUME Inv, Inv', [Next]_vars PROVE FifoStep
  OBVIOUS
<1>1. CASE UNCHANGED vars
  <2>1. UNCHANGED <<chain, val, sent, expected, pc>>
    BY <1>1 DEF vars, listVars, linkVars, heapVars, readVars
  <2> QED BY <2>1, SilentFrame, SilentStep
<1> QED BY <1>1, WriterFifo, ReaderFifo, OtherFifo DEF Next

(* The queue with semaphores is a bounded first-in first-out queue.        *)
THEOREM SemQueueImplements == Spec => Implements
<1>1. Init => FifoP!Init
  BY InitSemInv, InitFifo DEF Init, Inv, HeapInv, ListInv
<1>2. Inv /\ Inv' /\ [Next]_vars => [FifoP!Next]_(FifoP!fifoVars)
  BY StepFifo DEF FifoStep
<1>3. Spec => FifoP!Spec
  BY <1>1, <1>2, Invariant, PTL DEF Spec, FifoP!Spec
<1> QED BY <1>3, FifoImplements
=============================================================================

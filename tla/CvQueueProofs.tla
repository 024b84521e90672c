--------------------------- MODULE CvQueueProofs ---------------------------
(***************************************************************************)
(* For any number of clients, any capacity and any heap: the queue of      *)
(* queue_cv.c keeps the list, the heap and the counters in order, is a     *)
(* bounded FIFO, and loses no wakeup.                                      *)
(***************************************************************************)
EXTENDS CvQueue, GuardedListProofs, FiniteSetTheorems

USE DEF MonitorPlaces, MainPlaces, Places, Critical

\* signal, unlock and return: one of those that wait, if any, is woken
LEMMA SignalReturns ==
  ASSUME Inv, NEW t \in Clients, NEW from \in Critical,
         NEW waiting, waiting = not_empty \/ waiting = not_full,
         SignalUnlockReturn(t, from, waiting)
  PROVE  /\ Returns(t, from)
         /\ \A u \in Clients \ (waiting \cup {t}) : pc'[u] = pc[u]
         /\ waiting # {} => \E u \in waiting :
               pc'[u] = "relock" /\ \A v \in waiting \ {u} : pc'[v] = pc[v]
<1>0. /\ pc \in [Threads -> Places] /\ pc[t] = from /\ lock' = NULL
      /\ \A u \in Clients : u \in Threads
      /\ \A u \in waiting : u \in Clients /\ pc[u] = "wait" /\ u # t
  BY DEF Inv, LockInv, SignalUnlockReturn, Unlock, Threads, Clients, not_empty, not_full
<1>1. CASE waiting = {} /\ pc' = [pc EXCEPT ![t] = "idle"]
  BY <1>0, <1>1 DEF Returns
<1>2. ASSUME NEW u \in waiting, pc' = [pc EXCEPT ![t] = "idle", ![u] = "relock"]
      PROVE  /\ Returns(t, from)
             /\ \A v \in Clients \ (waiting \cup {t}) : pc'[v] = pc[v]
             /\ pc'[u] = "relock" /\ \A v \in waiting \ {u} : pc'[v] = pc[v]
  BY <1>0, <1>2 DEF Returns, Woken
<1> QED BY <1>1, <1>2 DEF SignalUnlockReturn

(* What the steps of CvQueue are.                                          *)
LEMMA TakesLock ==
  ASSUME NEW t \in Clients, AddLock(t) \/ AddRelock(t) \/ GetLock(t) \/ GetRelock(t)
  PROVE  \E from \in {"idle", "relock"}, to \in {"add", "get"} : Moves(t, from, to)
BY DEF AddLock, AddRelock, GetLock, GetRelock, Moves, LockMoves, Lock

LEMMA WriterKinds ==
  ASSUME Inv, NEW w \in Writers, WriterStep(w)
  PROVE  \/ AddWait(w) /\ Moves(w, "add", "wait")
         \/ ((Malloc(w) /\ count # max_count) \/ LinkStep(w)) /\ UNCHANGED lock
         \/ Abort /\ UNCHANGED lock
         \/ /\ CountAdded(w) /\ Returns(w, "added")
            /\ SignalUnlockReturn(w, "added", not_empty)
<1>0. w \in Clients /\ w \in Threads /\ LockInv
  BY DEF Threads, Clients, Inv
<1>1. CASE AddWait(w)
  <2>1. JustGoto(w, "add", "wait") /\ lock' = NULL
    BY <1>1 DEF AddWait, Wait, Unlock
  <2> QED BY <1>0, <1>1, <2>1, InsideMoves DEF Moves, JustGoto, Goto
<1>2. CASE AddReturn(w)
  BY <1>0, <1>2, SignalReturns DEF AddReturn
<1> QED BY <1>1, <1>2 DEF WriterStep, AddMalloc, AddAbort

\* count # 0: the reader finds a node in q->first
LEMMA SomethingToUnlink ==
  ASSUME Inv, NEW r \in Readers, pc[r] = "get", count # 0
  PROVE  chain # <<>>
<1>1. /\ r \in Threads /\ r \notin Writers /\ LockInv /\ HeapInv /\ CountsOK
  BY ThreadAssumption DEF Threads, Clients, Inv, CountInv
<1>2. Adding = {} /\ Getting = {}
  BY <1>1, SoloInside, Between DEF Inside
<1>3. Len(chain) # 0
  BY <1>1, <1>2, CountTypes DEF CountsOK
<1> QED BY <1>3, EmptySeq

LEMMA ReaderKinds ==
  ASSUME Inv, NEW r \in Readers, ReaderStep(r)
  PROVE  \/ GetWait(r) /\ Moves(r, "get", "wait")
         \/ ((Unlink(r) /\ chain # <<>>) \/ FreeUnlinked(r)) /\ UNCHANGED lock
         \/ /\ CountGot /\ Returns(r, "got")
            /\ SignalUnlockReturn(r, "got", not_full)
<1>0. r \in Clients /\ r \in Threads /\ LockInv
  BY DEF Threads, Clients, Inv
<1>1. CASE GetWait(r)
  <2>1. JustGoto(r, "get", "wait") /\ lock' = NULL
    BY <1>1 DEF GetWait, Wait, Unlock
  <2> QED BY <1>0, <1>1, <2>1, InsideMoves DEF Moves, JustGoto, Goto
<1>2. CASE GetUnlink(r)
  <2>1. pc[r] = "get" /\ count # 0
    BY <1>2 DEF GetUnlink, Unlink, Goto
  <2> QED BY <1>2, <2>1, SomethingToUnlink DEF GetUnlink
<1>3. CASE GetReturn(r)
  BY <1>0, <1>3, SignalReturns DEF GetReturn
<1> QED BY <1>1, <1>2, <1>3 DEF ReaderStep, GetFree

LEMMA WakesForNothing ==
  ASSUME NEW t \in Clients, SpuriousWakeup(t)
  PROVE  Moves(t, "wait", "relock")
BY DEF SpuriousWakeup, Moves, LockMoves

LEMMA StepInv == Inv /\ [Next]_vars => Inv'
<1> SUFFICES ASSUME Inv, [Next]_vars PROVE Inv'
  OBVIOUS
<1> USE DEF Calm
<1>1. CASE UNCHANGED vars
  BY <1>1, StutterInv DEF vars
<1>2. ASSUME NEW w \in Writers, AddLock(w) \/ AddRelock(w) PROVE Inv'
  BY <1>2, TakesLock, MoveInv DEF Clients
<1>3. ASSUME NEW w \in Writers, WriterStep(w) PROVE Inv'
  BY <1>3, WriterKinds, MoveInv, WriterListInv, AbortInv, AddReturnInv DEF Clients
<1>4. ASSUME NEW r \in Readers, GetLock(r) \/ GetRelock(r) PROVE Inv'
  BY <1>4, TakesLock, MoveInv DEF Clients
<1>5. ASSUME NEW r \in Readers, ReaderStep(r) PROVE Inv'
  BY <1>5, ReaderKinds, MoveInv, ReaderListInv, GetReturnInv DEF Clients
<1>6. ASSUME NEW t \in Clients, SpuriousWakeup(t) PROVE Inv'
  BY <1>6, WakesForNothing, MoveInv
<1> QED BY <1>1, <1>2, <1>3, <1>4, <1>5, <1>6, OtherInv DEF Next

(* The three layers of GuardedListProofs hold throughout.                  *)
THEOREM Invariant == Spec => []Inv
<1>1. Init => Inv
  BY InitInv DEF Init
<1> QED BY <1>1, StepInv, PTL DEF Spec

LEMMA StepFifo == Inv /\ Inv' /\ [Next]_vars => FifoStep
<1> SUFFICES ASSUME Inv, Inv', [Next]_vars PROVE FifoStep
  OBVIOUS
<1> USE DEF Calm
<1>1. CASE UNCHANGED vars
  BY <1>1, StutterFifo DEF vars
<1>2. ASSUME NEW w \in Writers, AddLock(w) \/ AddRelock(w) PROVE FifoStep
  BY <1>2, TakesLock, MoveFifo DEF Clients
<1>3. ASSUME NEW w \in Writers, WriterStep(w) PROVE FifoStep
  BY <1>3, WriterKinds, MoveFifo, WriterListFifo, AbortFifo, AddReturnFifo DEF Clients
<1>4. ASSUME NEW r \in Readers, GetLock(r) \/ GetRelock(r) PROVE FifoStep
  BY <1>4, TakesLock, MoveFifo DEF Clients
<1>5. ASSUME NEW r \in Readers, ReaderStep(r) PROVE FifoStep
  BY <1>5, ReaderKinds, MoveFifo, ReaderListFifo, GetReturnFifo DEF Clients
<1>6. ASSUME NEW t \in Clients, SpuriousWakeup(t) PROVE FifoStep
  BY <1>6, WakesForNothing, MoveFifo
<1> QED BY <1>1, <1>2, <1>3, <1>4, <1>5, <1>6, OtherFifo DEF Next

-----------------------------------------------------------------------------
(* No lost wakeup.  Each clause compares a number of values with a number  *)
(* of threads; a step can change both, by one.                             *)
LEMMA Finite ==
  /\ IsFiniteSet(Reaching) /\ Cardinality(Reaching) \in Nat
  /\ IsFiniteSet(Filling) /\ Cardinality(Filling) \in Nat
  /\ IsFiniteSet(Reaching') /\ Cardinality(Reaching') \in Nat
  /\ IsFiniteSet(Filling') /\ Cardinality(Filling') \in Nat
<1>1. /\ Reaching \in SUBSET Readers /\ Reaching' \in SUBSET Readers
      /\ Filling \in SUBSET Writers /\ Filling' \in SUBSET Writers
  BY DEF Reaching, Filling
<1> QED BY <1>1, FiniteAssumption, FS_Subset, FS_CardinalityType

\* a step that puts nobody to sleep, takes nobody off the way and counts nothing
LEMMA NobodySleeps ==
  ASSUME Inv, NoLostWakeup, UNCHANGED count,
         not_empty' \subseteq not_empty, Reaching \subseteq Reaching',
         not_full' \subseteq not_full, Filling \subseteq Filling'
  PROVE  NoLostWakeup'
<1>1. Cardinality(Reaching) =< Cardinality(Reaching')
  BY Finite, FS_Subset
<1>2. Cardinality(Filling) =< Cardinality(Filling')
  BY Finite, FS_Subset
<1>3. count \in Nat /\ max_count \in Nat
  BY CountTypes DEF Inv
<1> QED BY <1>1, <1>2, <1>3, Finite DEF NoLostWakeup

LEMMA AwakeMove ==
  ASSUME Inv, NoLostWakeup, UNCHANGED count,
         NEW t \in Threads, NEW from, NEW to, Goto(t, from, to), to # "wait",
         from \in {"relock", "get", "free", "got", "add", "link", "head", "tail", "added"} =>
           to \in {"relock", "get", "free", "got", "add", "link", "head", "tail", "added"},
         t \in Readers => to \notin {"add", "link", "head", "tail", "added"},
         t \in Writers => to \notin {"get", "free", "got"}
  PROVE  NoLostWakeup'
<1>1. /\ pc[t] = from /\ pc'[t] = to
      /\ \A u \in Clients \ {t} : pc'[u] = pc[u]
      /\ Writers \cap Readers = {}
  BY ThreadAssumption DEF Inv, LockInv, Goto, Threads
<1>2. not_empty' \subseteq not_empty /\ Reaching \subseteq Reaching'
  BY <1>1 DEF not_empty, Reaching, Clients
<1>3. not_full' \subseteq not_full /\ Filling \subseteq Filling'
  BY <1>1 DEF not_full, Filling, Clients
<1> QED BY <1>2, <1>3, NobodySleeps

LEMMA StayPut ==
  ASSUME Inv, NoLostWakeup, UNCHANGED <<count, pc>>
  PROVE  NoLostWakeup'
BY NobodySleeps DEF not_empty, not_full, Reaching, Filling

\* one side of a return: as many threads set off as values are added
LEMMA OneMore ==
  ASSUME NEW Asleep, NEW Awake, NEW Asleep1, NEW Awake1, NEW n \in Int,
         IsFiniteSet(Awake), Asleep # {} => n =< Cardinality(Awake),
         \/ Asleep1 = {}
         \/ \E u : u \in Asleep /\ u \notin Awake /\ Awake1 = Awake \cup {u}
  PROVE  Asleep1 # {} => n + 1 =< Cardinality(Awake1)
<1> SUFFICES ASSUME NEW u, u \in Asleep, u \notin Awake, Awake1 = Awake \cup {u}
             PROVE  n + 1 =< Cardinality(Awake1)
  OBVIOUS
<1>1. Cardinality(Awake1) = Cardinality(Awake) + 1
  BY FS_AddElement
<1>2. Cardinality(Awake) \in Nat
  BY FS_CardinalityType
<1> QED BY <1>1, <1>2

\* ... and the other: as many have done as values are gone
LEMMA OneLess ==
  ASSUME NEW Asleep, NEW Awake, NEW n \in Int, NEW t \in Awake,
         IsFiniteSet(Awake), Asleep # {} => n =< Cardinality(Awake)
  PROVE  Asleep # {} => n - 1 =< Cardinality(Awake \ {t})
<1>1. Cardinality(Awake \ {t}) = Cardinality(Awake) - 1
  BY FS_RemoveElement
<1>2. Cardinality(Awake) \in Nat
  BY FS_CardinalityType
<1> QED BY <1>1, <1>2

LEMMA AddReturnWakes ==
  ASSUME Inv, NoLostWakeup, NEW w \in Writers, CountAdded(w), Returns(w, "added"),
         SignalUnlockReturn(w, "added", not_empty)
  PROVE  NoLostWakeup'
<1>0. /\ w \in Clients /\ Writers \cap Readers = {} /\ count' = count + 1
      /\ count \in Nat /\ max_count \in Nat
      /\ pc[w] = "added" /\ pc'[w] = "idle"
  BY CountTypes, ThreadAssumption DEF Clients, CountAdded, Inv, Returns
<1>1. /\ \A u \in Clients \ (not_empty \cup {w}) : pc'[u] = pc[u]
      /\ not_empty # {} => \E u \in not_empty :
            pc'[u] = "relock" /\ \A v \in not_empty \ {u} : pc'[v] = pc[v]
  BY <1>0, SignalReturns
<1>2. not_empty' # {} => count + 1 =< Cardinality(Reaching')
  <2>1. \/ not_empty' = {}
        \/ \E u : u \in not_empty /\ u \notin Reaching /\ Reaching' = Reaching \cup {u}
    <3>1. CASE not_empty = {}
      BY <1>0, <1>1, <3>1 DEF not_empty, Clients
    <3>2. CASE not_empty # {}
      <4>1. PICK u \in not_empty :
              pc'[u] = "relock" /\ \A v \in not_empty \ {u} : pc'[v] = pc[v]
        BY <1>1, <3>2
      <4>2. u \in Readers /\ pc[u] = "wait" /\ u \notin Reaching
        BY DEF not_empty, Reaching
      <4>3. \A v \in Readers \ {u} : pc'[v] = pc[v]
        BY <1>0, <1>1, <4>1 DEF Clients
      <4>4. Reaching' = Reaching \cup {u}
        BY <4>1, <4>2, <4>3 DEF Reaching
      <4> QED BY <4>2, <4>4
    <3> QED BY <3>1, <3>2
  <2>2. count \in Int /\ IsFiniteSet(Reaching) /\ (not_empty # {} => count =< Cardinality(Reaching))
    BY <1>0, Finite DEF NoLostWakeup
  <2> QED BY <2>1, <2>2, OneMore
<1>3. not_full' # {} => (max_count - count) - 1 =< Cardinality(Filling')
  <2>1. \A u \in Writers \ {w} : pc'[u] = pc[u]
    BY <1>0, <1>1 DEF Clients, not_empty
  <2>2. not_full' = not_full /\ w \in Filling /\ Filling' = Filling \ {w}
    BY <1>0, <2>1 DEF not_full, Filling
  <2>3. /\ max_count - count \in Int /\ IsFiniteSet(Filling)
        /\ not_full # {} => max_count - count =< Cardinality(Filling)
    BY <1>0, Finite DEF NoLostWakeup
  <2>4. not_full # {} => (max_count - count) - 1 =< Cardinality(Filling \ {w})
    BY <2>2, <2>3, OneLess
  <2> QED BY <2>2, <2>4
<1> QED BY <1>0, <1>2, <1>3, Finite DEF NoLostWakeup

LEMMA GetReturnWakes ==
  ASSUME Inv, NoLostWakeup, NEW r \in Readers, CountGot, Returns(r, "got"),
         SignalUnlockReturn(r, "got", not_full)
  PROVE  NoLostWakeup'
<1>0. /\ r \in Clients /\ Writers \cap Readers = {} /\ count' = count - 1
      /\ count \in Nat /\ max_count \in Nat
      /\ pc[r] = "got" /\ pc'[r] = "idle"
  BY CountTypes, ThreadAssumption DEF Clients, CountGot, Inv, Returns
<1>1. /\ \A u \in Clients \ (not_full \cup {r}) : pc'[u] = pc[u]
      /\ not_full # {} => \E u \in not_full :
            pc'[u] = "relock" /\ \A v \in not_full \ {u} : pc'[v] = pc[v]
  BY <1>0, SignalReturns
<1>2. not_full' # {} => (max_count - count) + 1 =< Cardinality(Filling')
  <2>1. \/ not_full' = {}
        \/ \E u : u \in not_full /\ u \notin Filling /\ Filling' = Filling \cup {u}
    <3>1. CASE not_full = {}
      BY <1>0, <1>1, <3>1 DEF not_full, Clients
    <3>2. CASE not_full # {}
      <4>1. PICK u \in not_full :
              pc'[u] = "relock" /\ \A v \in not_full \ {u} : pc'[v] = pc[v]
        BY <1>1, <3>2
      <4>2. u \in Writers /\ pc[u] = "wait" /\ u \notin Filling
        BY DEF not_full, Filling
      <4>3. \A v \in Writers \ {u} : pc'[v] = pc[v]
        BY <1>0, <1>1, <4>1 DEF Clients
      <4>4. Filling' = Filling \cup {u}
        BY <4>1, <4>2, <4>3 DEF Filling
      <4> QED BY <4>2, <4>4
    <3> QED BY <3>1, <3>2
  <2>2. /\ max_count - count \in Int /\ IsFiniteSet(Filling)
        /\ not_full # {} => max_count - count =< Cardinality(Filling)
    BY <1>0, Finite DEF NoLostWakeup
  <2> QED BY <2>1, <2>2, OneMore
<1>3. not_empty' # {} => count - 1 =< Cardinality(Reaching')
  <2>1. \A u \in Readers \ {r} : pc'[u] = pc[u]
    BY <1>0, <1>1 DEF Clients, not_full
  <2>2. not_empty' = not_empty /\ r \in Reaching /\ Reaching' = Reaching \ {r}
    BY <1>0, <2>1 DEF not_empty, Reaching
  <2>3. count \in Int /\ IsFiniteSet(Reaching) /\ (not_empty # {} => count =< Cardinality(Reaching))
    BY <1>0, Finite DEF NoLostWakeup
  <2>4. not_empty # {} => count - 1 =< Cardinality(Reaching \ {r})
    BY <2>2, <2>3, OneLess
  <2> QED BY <2>2, <2>4
<1> QED BY <1>0, <1>2, <1>3, Finite DEF NoLostWakeup

\* a thread goes to sleep only when its side of the promise is empty
LEMMA WaitIsSafe ==
  ASSUME Inv, NoLostWakeup,
         (\E w \in Writers : AddWait(w)) \/ (\E r \in Readers : GetWait(r))
  PROVE  NoLostWakeup'
<1>0. count \in Nat /\ max_count \in Nat /\ pc \in [Threads -> Places]
  BY CountTypes DEF Inv, LockInv
<1>1. CASE \E w \in Writers : AddWait(w)
  <2>1. PICK w \in Writers : Goto(w, "add", "wait") /\ count = max_count
    BY <1>1 DEF AddWait, Wait, JustGoto
  <2>2. UNCHANGED count
    BY <1>1 DEF AddWait, Wait, JustGoto, memVars, statVars
  <2>3. \A r \in Readers : pc'[r] = pc[r]
    BY <1>0, <2>1, ThreadAssumption DEF Goto, Threads, Clients
  <2>4. not_empty' = not_empty /\ Reaching' = Reaching
    BY <2>3 DEF not_empty, Reaching
  <2> QED BY <1>0, <2>1, <2>2, <2>4, Finite DEF NoLostWakeup
<1>2. CASE \E r \in Readers : GetWait(r)
  <2>1. PICK r \in Readers : Goto(r, "get", "wait") /\ count = 0
    BY <1>2 DEF GetWait, Wait, JustGoto
  <2>2. UNCHANGED count
    BY <1>2 DEF GetWait, Wait, JustGoto, memVars, statVars
  <2>3. \A w \in Writers : pc'[w] = pc[w]
    BY <1>0, <2>1, ThreadAssumption DEF Goto, Threads, Clients
  <2>4. not_full' = not_full /\ Filling' = Filling
    BY <2>3 DEF not_full, Filling
  <2> QED BY <1>0, <2>1, <2>2, <2>4, Finite DEF NoLostWakeup
<1> QED BY <1>1, <1>2

LEMMA StepWakes ==
  ASSUME Inv, NoLostWakeup, [Next]_vars
  PROVE  NoLostWakeup'
<1>0. /\ Monitor \in Threads /\ Main \in Threads /\ \A t \in Clients : t \in Threads
      /\ \A w \in Writers : w \in Threads /\ w \notin Readers
      /\ \A r \in Readers : r \in Threads /\ r \notin Writers
      /\ Monitor \notin Readers \cup Writers /\ Main \notin Readers \cup Writers
  BY ThreadAssumption DEF Threads, Clients
<1>1. CASE UNCHANGED vars
  BY <1>1, StayPut DEF vars, listVars, statVars
<1>2. ASSUME NEW w \in Writers, AddLock(w) \/ AddRelock(w) PROVE NoLostWakeup'
  <2>1. \E from \in {"idle", "relock"} : Goto(w, from, "add")
    BY <1>2 DEF AddLock, AddRelock, JustGoto
  <2>2. UNCHANGED count
    BY <1>2 DEF AddLock, AddRelock, JustGoto, memVars, statVars
  <2> QED BY <2>1, <2>2, <1>0, AwakeMove
<1>3. ASSUME NEW w \in Writers, Malloc(w) \/ LinkStep(w) PROVE NoLostWakeup'
  <2>1. \E from \in {"add", "link", "head", "tail"}, to \in {"link", "head", "tail", "added"} :
           Goto(w, from, to)
    BY <1>3 DEF Malloc, LinkStep, LinkEmpty, SetFirst, LinkBehind, SetLast
  <2>2. UNCHANGED count
    BY <1>3 DEF Malloc, LinkStep, LinkEmpty, SetFirst, LinkBehind, SetLast, statVars
  <2> QED BY <2>1, <2>2, <1>0, AwakeMove
<1>4. CASE Abort
  BY <1>4, StayPut DEF Abort, statVars
<1>5. ASSUME NEW w \in Writers, WriterStep(w) PROVE NoLostWakeup'
  BY <1>3, <1>4, <1>5, WriterKinds, WaitIsSafe, AddReturnWakes
<1>6. ASSUME NEW r \in Readers, GetLock(r) \/ GetRelock(r) PROVE NoLostWakeup'
  <2>1. \E from \in {"idle", "relock"} : Goto(r, from, "get")
    BY <1>6 DEF GetLock, GetRelock, JustGoto
  <2>2. UNCHANGED count
    BY <1>6 DEF GetLock, GetRelock, JustGoto, memVars, statVars
  <2> QED BY <2>1, <2>2, <1>0, AwakeMove
<1>7. ASSUME NEW r \in Readers, Unlink(r) \/ FreeUnlinked(r) PROVE NoLostWakeup'
  <2>1. \E from \in {"get", "free"}, to \in {"free", "got"} : Goto(r, from, to)
    BY <1>7 DEF Unlink, FreeUnlinked
  <2>2. UNCHANGED count
    BY <1>7 DEF Unlink, FreeUnlinked, statVars
  <2> QED BY <2>1, <2>2, <1>0, AwakeMove
<1>8. ASSUME NEW r \in Readers, ReaderStep(r) PROVE NoLostWakeup'
  BY <1>7, <1>8, ReaderKinds, WaitIsSafe, GetReturnWakes
<1>9. ASSUME NEW t \in Clients, SpuriousWakeup(t) \/ ClientStops(t) PROVE NoLostWakeup'
  <2>1. Goto(t, "wait", "relock") \/ Goto(t, "idle", "stopped")
    BY <1>9 DEF SpuriousWakeup, ClientStops, JustGoto
  <2>2. UNCHANGED count
    BY <1>9 DEF SpuriousWakeup, ClientStops, JustGoto, memVars, statVars
  <2> QED BY <2>1, <2>2, <1>0, AwakeMove
<1>10. CASE MonitorStep \/ DestroyStep
  <2>1. UNCHANGED count
    BY <1>10 DEF MonitorStep, MonitorWakes, MonitorLock, MonitorPrint,
       MonitorCancelledAsleep, MonitorCancelledPrinting, DestroyStep, DestroyCancel,
       DestroyJoin, DestroyLock, DestroyWalk, DestroyFree, DestroyReturn, DestroyDone,
       JustGoto, memVars, statVars
  <2>2. \/ UNCHANGED pc
        \/ \E t \in {Monitor, Main}, from, to \in MonitorPlaces \cup MainPlaces :
              Goto(t, from, to)
    BY <1>10 DEF MonitorStep, MonitorWakes, MonitorLock, MonitorPrint,
       MonitorCancelledAsleep, MonitorCancelledPrinting, DestroyStep, DestroyCancel,
       DestroyJoin, DestroyLock, DestroyWalk, DestroyFree, DestroyReturn, DestroyDone,
       JustGoto
  <2> QED BY <2>1, <2>2, <1>0, StayPut, AwakeMove
<1> QED BY <1>1, <1>2, <1>5, <1>6, <1>8, <1>9, <1>10 DEF Next

(* One signal for each add and each get is enough (queue_cv.c:83, 105): no *)
(* reader sleeps while a value lies in the queue that nobody is on the way *)
(* to, and no writer while there is a free place nobody is about to fill.  *)
THEOREM NoWakeupLost == Spec => []NoLostWakeup
<1>1. Init => NoLostWakeup
  <2> SUFFICES ASSUME Init PROVE NoLostWakeup
    OBVIOUS
  <2>1. \A t \in Clients : pc[t] = "idle"
    BY ThreadAssumption DEF Init, GuardedInit, ListInit, Threads
  <2>2. not_empty = {} /\ not_full = {}
    BY <2>1 DEF not_empty, not_full, Clients
  <2> QED BY <2>2 DEF NoLostWakeup
<1>2. Inv /\ NoLostWakeup /\ [Next]_vars => NoLostWakeup'
  BY StepWakes
<1> QED BY <1>1, <1>2, Invariant, PTL DEF Spec

-----------------------------------------------------------------------------
(* Type correctness: each variable keeps its type, and each thread stays   *)
(* in its own code.                                                        *)
THEOREM TypeCorrect == Spec => []TypeOK
<1> USE DEF WriterPlaces, ReaderPlaces
<1>1. Init => PlacesOK
  BY ThreadAssumption DEF Init, GuardedInit, ListInit, PlacesOK, Threads, Clients
<1>2. Inv /\ Inv' /\ PlacesOK /\ [Next]_vars => PlacesOK'
  <2> SUFFICES ASSUME Inv, Inv', PlacesOK, [Next]_vars PROVE PlacesOK'
    OBVIOUS
  <2>0. /\ pc \in [Threads -> Places] /\ pc'[Monitor] \in MonitorPlaces
        /\ pc'[Main] \in MainPlaces /\ Writers \cap Readers = {}
        /\ Monitor \notin Clients /\ Main \notin Clients
    BY ThreadAssumption DEF Inv, LockInv
  <2>1. CASE UNCHANGED vars
    BY <2>1 DEF vars, listVars, PlacesOK
  <2>2. ASSUME NEW t \in Clients, NEW from, NEW to, Goto(t, from, to),
               t \in Writers => to \in WriterPlaces, t \in Readers => to \in ReaderPlaces
        PROVE  PlacesOK'
    BY <2>0, <2>2 DEF Goto, PlacesOK, Threads, Clients
  <2>3. ASSUME NEW t \in Clients, NEW from \in Critical, NEW waiting,
               waiting = not_empty \/ waiting = not_full,
               SignalUnlockReturn(t, from, waiting)
        PROVE  PlacesOK'
    <3>1. \A u \in Clients : pc'[u] \in {pc[u], "idle", "relock"}
      BY <2>0, <2>3 DEF SignalUnlockReturn, Threads
    <3> QED BY <2>0, <3>1 DEF PlacesOK, Clients
  <2>4. ASSUME NEW w \in Writers, AddLock(w) \/ AddRelock(w) \/ WriterStep(w) PROVE PlacesOK'
    <3>1. CASE AddReturn(w)
      BY <2>3, <3>1 DEF AddReturn, Clients
    <3>2. CASE ~AddReturn(w)
      <4>1. UNCHANGED pc \/ \E from, to \in WriterPlaces : Goto(w, from, to)
        BY <2>4, <3>2 DEF WriterStep, AddLock, AddRelock, AddWait, Wait, AddMalloc, Malloc,
           AddAbort, Abort, LinkStep, LinkEmpty, SetFirst, LinkBehind, SetLast, JustGoto
      <4> QED BY <2>0, <2>2, <4>1 DEF PlacesOK, Clients
    <3> QED BY <3>1, <3>2
  <2>5. ASSUME NEW r \in Readers, GetLock(r) \/ GetRelock(r) \/ ReaderStep(r) PROVE PlacesOK'
    <3>1. CASE GetReturn(r)
      BY <2>3, <3>1 DEF GetReturn, Clients
    <3>2. CASE ~GetReturn(r)
      <4>1. \E from, to \in ReaderPlaces : Goto(r, from, to)
        BY <2>5, <3>2 DEF ReaderStep, GetLock, GetRelock, GetWait, Wait, GetUnlink, Unlink,
           GetFree, FreeUnlinked, JustGoto
      <4> QED BY <2>0, <2>2, <4>1 DEF PlacesOK, Clients
    <3> QED BY <3>1, <3>2
  <2>6. CASE \E t \in Clients : SpuriousWakeup(t) \/ ClientStops(t)
    BY <2>2, <2>6 DEF SpuriousWakeup, ClientStops, JustGoto
  <2>7. CASE MonitorStep \/ DestroyStep
    <3>1. UNCHANGED pc \/ \E t \in {Monitor, Main}, from, to \in Places : Goto(t, from, to)
      BY <2>7 DEF MonitorStep, MonitorWakes, MonitorLock, MonitorPrint,
         MonitorCancelledAsleep, MonitorCancelledPrinting, DestroyStep, DestroyCancel,
         DestroyJoin, DestroyLock, DestroyWalk, DestroyFree, DestroyReturn, DestroyDone,
         JustGoto
    <3> QED BY <2>0, <3>1 DEF Goto, PlacesOK, Threads, Clients
  <2> QED BY <2>1, <2>4, <2>5, <2>6, <2>7 DEF Next
<1>3. Inv /\ PlacesOK => TypeOK
  BY DEF Inv, LockInv, HeapInv, ListInv, TypeOK
<1> QED BY <1>1, <1>2, <1>3, Invariant, PTL DEF Spec

(* No leak, no use after free, and queue_destroy frees every node once.    *)
THEOREM HeapHolds == Spec => []HeapOK
<1>1. Inv => HeapOK
  BY DEF Inv, HeapInv
<1> QED BY <1>1, Invariant, PTL

(* No count is lost and the capacity is kept, whoever overtakes a thread   *)
(* that was woken: that is what the while loops of queue_cv.c are for.     *)
THEOREM CountsHold == Spec => []CountsOK
<1>1. Inv => CountsOK
  BY DEF Inv, CountInv
<1> QED BY <1>1, Invariant, PTL

(* The queue with condition variables is a bounded first-in first-out      *)
(* queue.                                                                  *)
THEOREM CvQueueImplements == Spec => Implements
<1>1. Init => FifoP!Init
  BY InitFifoOK DEF Init
<1>2. Inv /\ Inv' /\ [Next]_vars => [FifoP!Next]_(FifoP!fifoVars)
  BY StepFifo DEF FifoStep
<1>3. Spec => FifoP!Spec
  BY <1>1, <1>2, Invariant, PTL DEF Spec, FifoP!Spec
<1> QED BY <1>3, FifoImplements
=============================================================================

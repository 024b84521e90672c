-------------------------- MODULE LockQueueProofs --------------------------
(***************************************************************************)
(* For any number of clients, any capacity and any heap: the lock of       *)
(* queue_mutex.c and queue_spin.c excludes, the list, the heap and the     *)
(* counters stay in order, and the queue is a bounded FIFO.  Each step is  *)
(* of one of the kinds of GuardedListProofs.                               *)
(***************************************************************************)
EXTENDS LockQueue, GuardedListProofs

USE DEF MonitorPlaces, MainPlaces, Places, Critical

\* return from queue_get as the kind of step CountGot: its two tests succeed
LEMMA GetReturnCounts ==
  ASSUME Inv, NEW r \in Readers, GetReturn(r)
  PROVE  CountGot
<1>1. pc[r] = "got"
  BY DEF GetReturn, Goto
<1>2. count > 0 /\ get_count < add_count
  BY <1>1, GotSomething
<1> QED BY <1>2 DEF GetReturn, CountGot

\* unlock and return wakes nobody
LEMMA ReturnsAlone ==
  ASSUME Inv, NEW t \in Clients, NEW from, Goto(t, from, "idle"), Unlock
  PROVE  Returns(t, from)
BY DEF Inv, LockInv, Goto, Returns, Unlock, Threads

(* What the steps of LockQueue are.                                        *)
LEMMA WriterKinds ==
  ASSUME Inv, NEW w \in Writers, WriterStep(w)
  PROVE  \/ \E from, to \in Calm : Moves(w, from, to)
         \/ ((Malloc(w) /\ count # max_count) \/ LinkStep(w)) /\ UNCHANGED lock
         \/ Abort /\ UNCHANGED lock
         \/ CountAdded(w) /\ Returns(w, "added")
<1>0. w \in Clients /\ w \in Threads /\ LockInv
  BY DEF Threads, Clients, Inv
<1>1. CASE AddLock(w)
  <2>1. Moves(w, "idle", "add")
    BY <1>1 DEF AddLock, Moves, LockMoves, Lock
  <2> QED BY <2>1 DEF Calm
<1>2. CASE AddFull(w) \/ AddNoMemory(w)
  <2>1. PICK to \in {"idle", "abort"} : JustGoto(w, "add", to) /\ lock' = NULL
    BY <1>2 DEF AddFull, AddNoMemory, Unlock
  <2>2. Moves(w, "add", to)
    BY <2>1, <1>0, InsideMoves DEF Moves, JustGoto, Goto
  <2> QED BY <2>2 DEF Calm
<1>3. CASE AddReturn(w)
  BY <1>0, <1>3, ReturnsAlone DEF AddReturn
<1> QED BY <1>1, <1>2, <1>3 DEF WriterStep, AddMalloc, AddAbort

LEMMA ReaderKinds ==
  ASSUME Inv, NEW r \in Readers, ReaderStep(r)
  PROVE  \/ \E from, to \in Calm : Moves(r, from, to)
         \/ ((Unlink(r) /\ chain # <<>>) \/ FreeUnlinked(r)) /\ UNCHANGED lock
         \/ CountGot /\ Returns(r, "got")
<1>0. r \in Clients /\ r \in Threads /\ LockInv /\ Spelled
  BY DEF Threads, Clients, Inv, HeapInv, ListInv
<1>1. CASE GetLock(r)
  <2>1. Moves(r, "idle", "get")
    BY <1>1 DEF GetLock, Moves, LockMoves, Lock
  <2> QED BY <2>1 DEF Calm
<1>2. CASE GetEmpty(r)
  <2>1. Moves(r, "get", "idle")
    BY <1>0, <1>2, InsideMoves DEF GetEmpty, Moves, JustGoto, Goto, Unlock
  <2> QED BY <2>1 DEF Calm
<1>3. CASE GetUnlink(r)
  BY <1>0, <1>3 DEF GetUnlink, Spelled
<1>4. CASE GetReturn(r)
  BY <1>0, <1>4, GetReturnCounts, ReturnsAlone DEF GetReturn
<1> QED BY <1>1, <1>2, <1>3, <1>4 DEF ReaderStep, GetFree

LEMMA StepInv == Inv /\ [Next]_vars => Inv'
<1> SUFFICES ASSUME Inv, [Next]_vars PROVE Inv'
  OBVIOUS
<1>1. CASE UNCHANGED vars
  BY <1>1, StutterInv DEF vars
<1>2. ASSUME NEW w \in Writers, WriterStep(w) PROVE Inv'
  BY <1>2, WriterKinds, MoveInv, WriterListInv, AbortInv, AddReturnInv DEF Clients
<1>3. ASSUME NEW r \in Readers, ReaderStep(r) PROVE Inv'
  BY <1>3, ReaderKinds, MoveInv, ReaderListInv, GetReturnInv DEF Clients
<1> QED BY <1>1, <1>2, <1>3, OtherInv DEF Next

(* The three layers of GuardedListProofs hold throughout.                  *)
THEOREM Invariant == Spec => []Inv
<1>1. Init => Inv
  BY InitInv DEF Init
<1> QED BY <1>1, StepInv, PTL DEF Spec

LEMMA StepFifo == Inv /\ Inv' /\ [Next]_vars => FifoStep
<1> SUFFICES ASSUME Inv, Inv', [Next]_vars PROVE FifoStep
  OBVIOUS
<1>1. CASE UNCHANGED vars
  BY <1>1, StutterFifo DEF vars
<1>2. ASSUME NEW w \in Writers, WriterStep(w) PROVE FifoStep
  BY <1>2, WriterKinds, MoveFifo, WriterListFifo, AbortFifo, AddReturnFifo DEF Clients
<1>3. ASSUME NEW r \in Readers, ReaderStep(r) PROVE FifoStep
  BY <1>3, ReaderKinds, MoveFifo, ReaderListFifo, GetReturnFifo DEF Clients
<1> QED BY <1>1, <1>2, <1>3, OtherFifo DEF Next

-----------------------------------------------------------------------------
(* At most one thread is between lock and unlock (queue_mutex.c:66-122).   *)
THEOREM MutualExclusion == Spec => []Mutex
<1>1. Inv => Mutex
  BY DEF Inv, LockInv
<1> QED BY <1>1, Invariant, PTL

(* Type correctness: each variable keeps its type, and each thread stays   *)
(* in its own code.                                                        *)
THEOREM TypeCorrect == Spec => []TypeOK
<1> USE DEF WriterPlaces, ReaderPlaces
<1>1. Init => PlacesOK
  BY ThreadAssumption DEF Init, GuardedInit, ListInit, PlacesOK, Threads, Clients
<1>2. Inv /\ Inv' /\ PlacesOK /\ [Next]_vars => PlacesOK'
  <2> SUFFICES ASSUME Inv, Inv', PlacesOK, [Next]_vars PROVE PlacesOK'
    OBVIOUS
  <2>0. /\ pc \in [Threads -> Places] /\ pc'[Monitor] \in MonitorPlaces
        /\ pc'[Main] \in MainPlaces /\ Writers \cap Readers = {}
        /\ Monitor \notin Clients /\ Main \notin Clients
    BY ThreadAssumption DEF Inv, LockInv
  <2>1. CASE UNCHANGED vars
    BY <2>1 DEF vars, listVars, PlacesOK
  <2>2. ASSUME NEW w \in Writers, WriterStep(w) PROVE PlacesOK'
    <3>1. UNCHANGED pc \/ \E from, to \in WriterPlaces : Goto(w, from, to)
      BY <2>2 DEF WriterStep, AddLock, AddFull, AddMalloc, Malloc, AddNoMemory, AddAbort,
         Abort, LinkStep, LinkEmpty, SetFirst, LinkBehind, SetLast, AddReturn, JustGoto
    <3> QED BY <2>0, <3>1 DEF Goto, PlacesOK, Threads, Clients
  <2>3. ASSUME NEW r \in Readers, ReaderStep(r) PROVE PlacesOK'
    <3>1. \E from, to \in ReaderPlaces : Goto(r, from, to)
      BY <2>3 DEF ReaderStep, GetLock, GetEmpty, GetUnlink, Unlink, GetFree, FreeUnlinked,
         GetReturn, JustGoto
    <3> QED BY <2>0, <3>1 DEF Goto, PlacesOK, Threads, Clients
  <2>4. CASE \E t \in Clients : ClientStops(t)
    BY <2>0, <2>4 DEF ClientStops, JustGoto, Goto, PlacesOK, Threads, Clients
  <2>5. CASE MonitorStep \/ DestroyStep
    <3>1. UNCHANGED pc \/ \E t \in {Monitor, Main}, from, to \in Places : Goto(t, from, to)
      BY <2>5 DEF MonitorStep, MonitorWakes, MonitorLock, MonitorPrint,
         MonitorCancelledAsleep, MonitorCancelledPrinting, DestroyStep, DestroyCancel,
         DestroyJoin, DestroyLock, DestroyWalk, DestroyFree, DestroyReturn, DestroyDone,
         JustGoto
    <3> QED BY <2>0, <3>1 DEF Goto, PlacesOK, Threads, Clients
  <2> QED BY <2>1, <2>2, <2>3, <2>4, <2>5 DEF Next
<1>3. Inv /\ PlacesOK => TypeOK
  BY DEF Inv, LockInv, HeapInv, ListInv, TypeOK
<1> QED BY <1>1, <1>2, <1>3, Invariant, PTL DEF Spec

(* Whatever adds and gets interleave, first, last and the next pointers    *)
(* describe one list (queue_mutex.c:63-64, 79-81).                         *)
THEOREM ListShapeHolds == Spec => []ListShape
<1>1. Inv => ListShape
  BY DEF Inv, HeapInv, ListInv, ListShape
<1> QED BY <1>1, Invariant, PTL

(* No leak, no use after free, and queue_destroy frees every node once.    *)
THEOREM HeapHolds == Spec => []HeapOK
<1>1. Inv => HeapOK
  BY DEF Inv, HeapInv
<1> QED BY <1>1, Invariant, PTL

(* The assert of queue_add holds, and no count is lost.                    *)
THEOREM CountsHold == Spec => []CountsOK
<1>1. Inv => CountsOK
  BY DEF Inv, CountInv
<1> QED BY <1>1, Invariant, PTL

(* What the monitor prints adds up.                                        *)
THEOREM StatsHold == Spec => []StatsBalanced
<1>1. Inv => StatsBalanced
  BY InvStats
<1> QED BY <1>1, Invariant, PTL

(* The queue guarded by one lock is a bounded first-in first-out queue:    *)
(* queue_add puts at the end or returns 0, queue_get takes from the front. *)
THEOREM LockQueueImplements == Spec => Implements
<1>1. Init => FifoP!Init
  BY InitFifoOK DEF Init
<1>2. Inv /\ Inv' /\ [Next]_vars => [FifoP!Next]_(FifoP!fifoVars)
  BY StepFifo DEF FifoStep
<1>3. Spec => FifoP!Spec
  BY <1>1, <1>2, Invariant, PTL DEF Spec, FifoP!Spec
<1> QED BY <1>3, FifoImplements

(* reader() never prints its ERROR line (queue-threads.c): what the        *)
(* abstract queue promises of the head of its sequence, Unlink finds in    *)
(* q->first.                                                               *)
THEOREM NoError == Spec => []NoSequenceError
<1>1. Init => FifoP!Init /\ NoSequenceError
  BY InitFifoOK DEF Init, GuardedInit, ListInit, NoSequenceError
<1>2. Inv /\ Inv' /\ [Next]_vars => [FifoP!Next]_(FifoP!fifoVars)
  BY StepFifo DEF FifoStep
<1>3. Spec => []FifoP!InOrder
  <2>1. Spec => FifoP!Spec
    BY <1>1, <1>2, Invariant, PTL DEF Spec, FifoP!Spec
  <2> QED BY <2>1, FifoP!FifoOrder, PTL
<1>4. Inv /\ Inv' /\ FifoP!InOrder /\ NoSequenceError /\ [Next]_vars => NoSequenceError'
  BY StepFifo DEF FifoStep, NoSequenceError
<1> QED BY <1>1, <1>3, <1>4, Invariant, PTL DEF Spec
=============================================================================

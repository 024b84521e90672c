------------------------- MODULE GuardedListProofs -------------------------
(***************************************************************************)
(* What one lock around the list gives, whatever its clients wait for: the *)
(* invariant Inv, and for each kind of step of LockQueue and CvQueue one   *)
(* lemma that it keeps Inv and one that it is a step of the bounded FIFO.  *)
(***************************************************************************)
EXTENDS GuardedList, QueueListProofs

USE DEF MonitorPlaces, MainPlaces, Places, Critical

-----------------------------------------------------------------------------
(* First layer: who is where, and who holds the lock.                      *)
LockInv == /\ pc \in [Threads -> Places]
           /\ pc[Monitor] \in MonitorPlaces /\ pc[Main] \in MainPlaces
           /\ lock \in Threads \cup {NULL}
           /\ Mutex
           /\ Quiet

LEMMA InitLockInv == GuardedInit => LockInv
BY ThreadAssumption
   DEF GuardedInit, ListInit, LockInv, Mutex, Inside, Quiet, Threads, Clients

(* When a thread moves: into the critical section only with the lock, which *)
(* was free or its own; out of it, or outside it, with the lock left alone  *)
(* or given back.                                                           *)
LockMoves(t, to) == IF to \in Critical THEN lock' = t /\ lock \in {NULL, t}
                                       ELSE lock' = lock \/ (lock = t /\ lock' = NULL)

LEMMA MoveOK ==
  ASSUME LockInv, NEW t \in Threads, NEW from, NEW to \in Places, Goto(t, from, to),
         LockMoves(t, to), Quiet',
         t = Monitor => to \in MonitorPlaces, t = Main => to \in MainPlaces
  PROVE  LockInv'
<1>1. /\ pc' \in [Threads -> Places]
      /\ pc'[t] = to
      /\ \A u \in Threads \ {t} : pc'[u] = pc[u]
  BY DEF LockInv, Goto
<1>2. Mutex'
  <2> SUFFICES ASSUME NEW u \in Threads, pc'[u] \in Critical
               PROVE  lock' = u
    BY DEF Mutex, Inside
  <2>1. CASE u = t
    BY <2>1, <1>1 DEF LockMoves
  <2>2. CASE u # t
    <3>1. lock = u
      BY <2>2, <1>1 DEF LockInv, Mutex, Inside
    <3> QED BY <3>1, <2>2, ThreadAssumption DEF LockMoves
  <2> QED BY <2>1, <2>2
<1>3. lock' \in Threads \cup {NULL}
  BY DEF LockMoves, LockInv
<1>4. pc'[Monitor] \in MonitorPlaces /\ pc'[Main] \in MainPlaces
  BY <1>1 DEF LockInv, Threads
<1> QED BY <1>1, <1>2, <1>3, <1>4 DEF LockInv

LEMMA ClientMoveOK ==
  ASSUME LockInv, NEW t \in Clients, NEW from, NEW to \in Places, Goto(t, from, to),
         from # "stopped", LockMoves(t, to)
  PROVE  LockInv'
<1>1. t \in Threads /\ t # Monitor /\ t # Main
  BY ThreadAssumption DEF Threads
<1>2. Quiet'
  BY <1>1 DEF LockInv, Quiet, Goto, Threads
<1> QED BY <1>1, <1>2, MoveOK

\* a thread inside has the lock, and may keep it or give it back
LEMMA InsideMoves ==
  ASSUME LockInv, NEW t \in Threads, pc[t] \in Critical, NEW to,
         lock' = lock \/ (to \notin Critical /\ lock' = NULL)
  PROVE  LockMoves(t, to)
BY DEF LockInv, Mutex, Inside, LockMoves

LEMMA MonitorMoveOK ==
  ASSUME LockInv, NEW from, NEW to \in MonitorPlaces, Goto(Monitor, from, to),
         from # "dead", LockMoves(Monitor, to), cancelled' = cancelled
  PROVE  LockInv'
<1>1. Monitor \in Threads /\ Monitor \notin Clients /\ Monitor # Main
  BY ThreadAssumption DEF Threads, Clients
<1>2. Quiet'
  BY <1>1 DEF LockInv, Quiet, Goto, Threads, Clients
<1> QED BY <1>1, <1>2, MoveOK

LEMMA MainMoveOK ==
  ASSUME LockInv, NEW from, NEW to \in MainPlaces, Goto(Main, from, to),
         LockMoves(Main, to), Quiet'
  PROVE  LockInv'
<1>1. Main \in Threads /\ Monitor # Main
  BY ThreadAssumption DEF Threads
<1> QED BY <1>1, MoveOK

LEMMA MonitorLockInv ==
  ASSUME LockInv, MonitorStep
  PROVE  LockInv'
<1>1. CASE MonitorWakes /\ UNCHANGED lock
  <2>1. Goto(Monitor, "sleep", "stats") /\ UNCHANGED lock /\ cancelled' = cancelled
    BY <1>1 DEF MonitorWakes, JustGoto, memVars, runVars
  <2>3. LockMoves(Monitor, "stats")
    BY <2>1 DEF LockMoves
  <2> QED BY <2>1, <2>3, MonitorMoveOK
<1>2. CASE MonitorLock
  <2>1. Goto(Monitor, "stats", "print") /\ lock = NULL /\ lock' = Monitor /\ cancelled' = cancelled
    BY <1>2 DEF MonitorLock, JustGoto, Lock, memVars, runVars
  <2> QED BY <2>1, MonitorMoveOK DEF LockMoves
<1>3. CASE MonitorPrint
  <2>1. Goto(Monitor, "print", "sleep") /\ lock' = NULL /\ cancelled' = cancelled
    BY <1>3 DEF MonitorPrint, JustGoto, Unlock, memVars, runVars
  <2>2. lock = Monitor
    BY <2>1 DEF LockInv, Mutex, Inside, Goto, Threads, Clients
  <2> QED BY <2>1, <2>2, MonitorMoveOK DEF LockMoves
<1>4. CASE MonitorCancelledAsleep /\ UNCHANGED lock
  <2>1. Goto(Monitor, "sleep", "dead") /\ UNCHANGED lock /\ cancelled' = cancelled
    BY <1>4 DEF MonitorCancelledAsleep, JustGoto, memVars, runVars
  <2>3. LockMoves(Monitor, "dead")
    BY <2>1 DEF LockMoves
  <2> QED BY <2>1, <2>3, MonitorMoveOK
<1>5. CASE MonitorCancelledPrinting
  <2>1. Goto(Monitor, "print", "dead") /\ UNCHANGED lock /\ cancelled' = cancelled
    BY <1>5 DEF MonitorCancelledPrinting, JustGoto, memVars, runVars
  <2>3. LockMoves(Monitor, "dead")
    BY <2>1 DEF LockMoves
  <2> QED BY <2>1, <2>3, MonitorMoveOK
<1> QED BY <1>1, <1>2, <1>3, <1>4, <1>5 DEF MonitorStep

LEMMA DestroyLockInv ==
  ASSUME LockInv, DestroyStep
  PROVE  LockInv'
<1>0. Main \notin Clients /\ Monitor # Main
  BY ThreadAssumption
<1>1. CASE DestroyCancel /\ UNCHANGED lock
  <2>1. Goto(Main, "run", "join") /\ UNCHANGED lock
    BY <1>1 DEF DestroyCancel
  <2>2. Quiet'
    BY <1>0, <1>1, <2>1 DEF DestroyCancel, Quiet, LockInv, Goto, Threads, Clients
  <2>3. LockMoves(Main, "join")
    BY <2>1 DEF LockMoves
  <2> QED BY <2>1, <2>2, <2>3, MainMoveOK
<1>2. CASE DestroyJoin /\ UNCHANGED lock
  <2>1. Goto(Main, "join", "joined") /\ UNCHANGED <<lock, cancelled>>
    BY <1>2 DEF DestroyJoin, JustGoto, memVars, runVars
  <2>2. Quiet'
    BY <1>0, <1>2, <2>1 DEF DestroyJoin, Quiet, LockInv, Goto, Threads, Clients
  <2>3. LockMoves(Main, "joined")
    BY <2>1 DEF LockMoves
  <2> QED BY <2>1, <2>2, <2>3, MainMoveOK
<1>3. CASE DestroyLock
  <2>1. Goto(Main, "joined", "walk") /\ lock = NULL /\ lock' = Main /\ UNCHANGED cancelled
    BY <1>3 DEF DestroyLock, DestroyWalk, Lock, runVars
  <2>2. Quiet'
    BY <1>0, <2>1 DEF Quiet, LockInv, Goto, Threads, Clients
  <2> QED BY <2>1, <2>2, MainMoveOK DEF LockMoves
<1>4. CASE DestroyFree /\ UNCHANGED lock
  BY <1>4 DEF DestroyFree, runVars, LockInv, Mutex, Inside, Quiet
<1>5. CASE DestroyReturn
  <2>1. Goto(Main, "walk", "returned") /\ lock' = NULL /\ UNCHANGED cancelled
    BY <1>5 DEF DestroyReturn, DestroyDone, JustGoto, Unlock, memVars, runVars
  <2>2. Quiet' /\ lock = Main
    BY <1>0, <2>1 DEF Quiet, LockInv, Mutex, Inside, Goto, Threads, Clients
  <2> QED BY <2>1, <2>2, MainMoveOK DEF LockMoves
<1> QED BY <1>1, <1>2, <1>3, <1>4, <1>5 DEF DestroyStep

-----------------------------------------------------------------------------
\* between lock and unlock a thread is alone
LEMMA SoloInside ==
  ASSUME LockInv, NEW t \in Threads, Inside(t)
  PROVE  Solo(t) /\ lock = t
BY DEF LockInv, Mutex, Solo

LEMMA LockAtWork == LockInv => AtWork
BY DEF LockInv, AtWork

-----------------------------------------------------------------------------
(* Second layer: the list and the heap (HeapInv of QueueListProofs).       *)
(* Third layer: the counters.                                              *)
CountInv == CountsOK /\ Room

Inv == LockInv /\ HeapInv /\ CountInv

\* a step that touches neither the counters nor the list
LEMMA CountFrameOK ==
  ASSUME LockInv, CountInv, NEW t \in Threads, NEW from, NEW to, Goto(t, from, to),
         UNCHANGED <<count, add_count, get_count, chain>>,
         {from, to} \cap {"tail", "added", "free", "got"} = {},
         to \in {"link", "head"} => count < max_count
  PROVE  CountInv'
<1>0. /\ pc[t] = from
      /\ \A u \in Clients : pc'[u] = IF u = t THEN to ELSE pc[u]
  BY DEF Goto, LockInv, Threads
<1>a. /\ from \notin {"tail", "added", "free", "got"}
      /\ to \notin {"tail", "added", "free", "got"}
  OBVIOUS
<1>1. Adding' = Adding /\ Getting' = Getting
  BY <1>0, <1>a DEF Adding, Getting, Clients
<1>2. CountsOK'
  BY <1>1 DEF CountInv, CountsOK
<1>3. Room'
  <2>1. Room
    BY DEF CountInv
  <2> QED BY <1>0, <1>a, <2>1 DEF Room, Clients
<1> QED BY <1>2, <1>3 DEF CountInv

\* a client inside is alone, between the same places before and after
LEMMA InsideFacts ==
  ASSUME Inv, NEW t \in Clients, NEW from \in Critical, NEW to, Goto(t, from, to)
  PROVE  /\ Solo(t) /\ Solo(t)' /\ pc[t] = from /\ pc'[t] = to /\ t \in Threads
         /\ Adding = IF t \in Writers /\ from \in {"tail", "added"} THEN {t} ELSE {}
         /\ Getting = IF t \in Readers /\ from \in {"free", "got"} THEN {t} ELSE {}
         /\ Adding' = IF t \in Writers /\ to \in {"tail", "added"} THEN {t} ELSE {}
         /\ Getting' = IF t \in Readers /\ to \in {"free", "got"} THEN {t} ELSE {}
<1>1. t \in Threads /\ LockInv /\ ListTypeOK
  BY DEF Threads, Inv, HeapInv, ListInv
<1>2. Solo(t)
  BY <1>1, SoloInside DEF Inside, Goto
<1> QED BY <1>1, <1>2, SoloFacts

(* The steps on the list: linking a node makes the list longer than count, *)
(* unlinking one shorter, until the thread has counted.                    *)
LEMMA WriterListCount ==
  ASSUME Inv, NEW w \in Writers, (Malloc(w) /\ count # max_count) \/ LinkStep(w)
  PROVE  CountInv'
<1>0. /\ w \in Clients /\ w \in Threads /\ w \notin Readers
      /\ LockInv /\ HeapInv /\ CountInv /\ CountsOK /\ Room
      /\ count \in Nat /\ add_count \in Nat /\ get_count \in Nat
      /\ Len(chain) \in Nat /\ max_count \in Nat
  BY CountTypes, ThreadAssumption DEF Threads, Clients, CountInv, Inv
<1>1. CASE Malloc(w) /\ count # max_count
  <2>1. /\ Goto(w, "add", "link") /\ count # max_count
        /\ UNCHANGED <<count, add_count, get_count, chain>>
    BY <1>1 DEF Malloc, statVars, linkVars
  <2>2. count < max_count
    BY <2>1, <1>0 DEF CountsOK
  <2> QED BY <2>1, <2>2, <1>0, CountFrameOK
<1>2. CASE LinkEmpty(w)
  <2>1. Goto(w, "link", "head") /\ UNCHANGED <<count, add_count, get_count, chain>>
    BY <1>2 DEF LinkEmpty, statVars
  <2>2. count < max_count
    BY <2>1, <1>0 DEF Room, Goto
  <2> QED BY <2>1, <2>2, <1>0, CountFrameOK
<1>3. CASE SetFirst(w) \/ LinkBehind(w)
  <2>1. PICK from \in {"link", "head"}, to \in {"tail", "added"} : Goto(w, from, to)
    BY <1>3 DEF SetFirst, LinkBehind
  <2>2. /\ UNCHANGED <<count, add_count, get_count>>
        /\ chain' = Append(chain, node[w])
    BY <1>3 DEF SetFirst, LinkBehind, statVars
  <2>3. /\ Adding = {} /\ Getting = {} /\ Adding' = {w} /\ Getting' = {}
        /\ pc[w] = from /\ pc'[w] = to
    BY <2>1, <1>0, InsideFacts
  <2>4. Len(chain') = Len(chain) + 1
    <3>1. node[w] \in Node /\ ListTypeOK
      BY <2>1, <2>3, <1>0 DEF HeapInv, ListInv, ListTypeOK, OwnNodes, Fresh
    <3> QED BY <3>1, <2>2, AppendFacts
  <2>5. CountsOK'
    BY <2>2, <2>3, <2>4, <1>0 DEF CountsOK
  <2>6. Room'
    BY <2>1, <2>2, <1>0 DEF Room, Goto, LockInv
  <2> QED BY <2>5, <2>6 DEF CountInv
<1>4. CASE SetLast(w)
  <2>1. Goto(w, "tail", "added") /\ UNCHANGED <<count, add_count, get_count, chain>>
    BY <1>4 DEF SetLast, statVars
  <2>2. Adding' = Adding /\ Getting' = Getting
    BY <2>1, <1>0, InsideFacts
  <2>3. CountsOK'
    BY <2>1, <2>2, <1>0 DEF CountsOK
  <2>4. Room'
    BY <2>1, <1>0 DEF Room, Goto, LockInv
  <2> QED BY <2>3, <2>4 DEF CountInv
<1> QED BY <1>1, <1>2, <1>3, <1>4 DEF LinkStep

LEMMA ReaderListCount ==
  ASSUME Inv, NEW r \in Readers, (Unlink(r) /\ chain # <<>>) \/ FreeUnlinked(r)
  PROVE  CountInv'
<1>0. /\ r \in Clients /\ r \in Threads /\ r \notin Writers
      /\ LockInv /\ HeapInv /\ CountInv /\ CountsOK /\ Room
      /\ count \in Nat /\ add_count \in Nat /\ get_count \in Nat
      /\ Len(chain) \in Nat /\ max_count \in Nat
  BY CountTypes, ThreadAssumption DEF Threads, Clients, CountInv, Inv
<1>1. CASE Unlink(r) /\ chain # <<>>
  <2>1. /\ Goto(r, "get", "free") /\ UNCHANGED <<count, add_count, get_count>>
        /\ chain' = Tail(chain)
    BY <1>1 DEF Unlink, statVars
  <2>2. Adding = {} /\ Getting = {} /\ Adding' = {} /\ Getting' = {r}
    BY <2>1, <1>0, InsideFacts
  <2>3. Len(chain') = Len(chain) - 1
    <3>1. ListTypeOK /\ ChainOK
      BY <1>0 DEF HeapInv, ListInv
    <3> QED BY <1>1, <3>1, <2>1, TailFacts
  <2>4. CountsOK'
    BY <2>1, <2>2, <2>3, <1>0 DEF CountsOK
  <2>5. Room'
    BY <2>1, <1>0 DEF Room, Goto, LockInv
  <2> QED BY <2>4, <2>5 DEF CountInv
<1>2. CASE FreeUnlinked(r)
  <2>1. Goto(r, "free", "got") /\ UNCHANGED <<count, add_count, get_count, chain>>
    BY <1>2 DEF FreeUnlinked, statVars
  <2>2. Adding' = Adding /\ Getting' = Getting
    BY <2>1, <1>0, InsideFacts
  <2>3. CountsOK'
    BY <2>1, <2>2, <1>0 DEF CountsOK
  <2>4. Room'
    BY <2>1, <1>0 DEF Room, Goto, LockInv
  <2> QED BY <2>3, <2>4 DEF CountInv
<1> QED BY <1>1, <1>2

(* The monitor and queue_destroy touch no counter.                         *)
LEMMA OtherCountInv ==
  ASSUME LockInv, CountInv, MonitorStep \/ DestroyStep
  PROVE  CountInv'
<1>1. Main \in Threads /\ Monitor \in Threads
  BY DEF Threads
<1>2. CASE DestroyFree
  <2>1. UNCHANGED <<count, add_count, get_count, chain, pc>>
    BY <1>2 DEF DestroyFree, statVars, linkVars
  <2> QED BY <2>1 DEF CountInv, CountsOK, Room, Adding, Getting
<1>3. CASE ~DestroyFree
  <2>1. PICK t \in Threads,
             from \in MonitorPlaces \cup MainPlaces,
             to \in MonitorPlaces \cup MainPlaces : 
          /\ Goto(t, from, to)
          /\ UNCHANGED <<count, add_count, get_count, chain>>
    <3>1. CASE MonitorStep
      BY <3>1, <1>1 DEF MonitorStep, MonitorWakes, MonitorLock, MonitorPrint,
         MonitorCancelledAsleep, MonitorCancelledPrinting, JustGoto, memVars,
         statVars, linkVars
    <3>2. CASE DestroyStep
      BY <3>2, <1>1, <1>3 DEF DestroyStep, DestroyCancel, DestroyJoin, DestroyLock,
         DestroyWalk, DestroyReturn, DestroyDone, JustGoto, memVars, statVars, linkVars
    <3> QED BY <3>1, <3>2
  <2> QED BY <2>1, CountFrameOK
<1> QED BY <1>2, <1>3

LEMMA InitCountInv == GuardedInit => CountInv
<1> SUFFICES ASSUME GuardedInit PROVE CountInv
  OBVIOUS
<1>1. /\ \A t \in Threads : pc[t] \in {"sleep", "run", "idle"}
      /\ chain = <<>> /\ count = 0 /\ add_count = 0 /\ get_count = 0
  BY DEF GuardedInit, ListInit, Threads
<1>2. Adding = {} /\ Getting = {}
  BY <1>1 DEF Adding, Getting, Threads, Clients
<1>3. Len(chain) = 0
  BY <1>1, EmptySeq
<1>4. CountsOK
  BY <1>1, <1>2, <1>3, BoundAssumption DEF CountsOK
<1>5. Room
  BY <1>1 DEF Room, Threads, Clients
<1> QED BY <1>4, <1>5 DEF CountInv

-----------------------------------------------------------------------------
(* The kinds of step, and that each keeps the three layers.                *)

\* places where a client has changed nothing, in or out of the lock
Calm == {"idle", "add", "get", "wait", "relock", "abort", "stopped"}

Moves(t, from, to) == JustGoto(t, from, to) /\ from # "stopped" /\ LockMoves(t, to)

LEMMA MoveInv ==
  ASSUME Inv, NEW t \in Clients, NEW from \in Calm, NEW to \in Calm, Moves(t, from, to)
  PROVE  Inv'
<1>0. /\ LockInv /\ HeapInv /\ CountInv /\ t \in Threads
      /\ JustGoto(t, from, to) /\ Goto(t, from, to)
      /\ UNCHANGED <<count, add_count, get_count, chain>>
  BY DEF Inv, Moves, JustGoto, memVars, linkVars, statVars, Threads
<1>1. LockInv'
  BY <1>0, ClientMoveOK DEF Moves, Calm
<1>2. HeapInv'
  BY <1>0, LockAtWork, ClientGotoOK DEF Moves, Calm, Pointing
<1>3. CountInv'
  <2>1. {from, to} \cap {"tail", "added", "free", "got"} = {} /\ to \notin {"link", "head"}
    BY DEF Calm
  <2> QED BY <1>0, <2>1, CountFrameOK
<1> QED BY <1>1, <1>2, <1>3 DEF Inv

LEMMA WriterListInv ==
  ASSUME Inv, NEW w \in Writers, (Malloc(w) /\ count # max_count) \/ LinkStep(w),
         UNCHANGED lock
  PROVE  Inv'
<1>0. LockInv /\ HeapInv /\ w \in Clients /\ w \in Threads
  BY DEF Inv, Threads, Clients
<1>1. PICK from \in {"add", "link", "head", "tail"},
           to \in {"link", "head", "tail", "added"} : Goto(w, from, to)
  BY DEF Malloc, LinkStep, LinkEmpty, SetFirst, LinkBehind, SetLast
<1>2. LockMoves(w, to)
  BY <1>0, <1>1, InsideMoves DEF Goto
<1>3. LockInv'
  BY <1>0, <1>1, <1>2, ClientMoveOK
<1>4. Solo(w)
  BY <1>0, <1>1, SoloInside DEF Inside, Goto
<1> QED BY <1>0, <1>3, <1>4, LockAtWork, WriterListHeap, WriterListCount DEF Inv

LEMMA ReaderListInv ==
  ASSUME Inv, NEW r \in Readers, (Unlink(r) /\ chain # <<>>) \/ FreeUnlinked(r),
         UNCHANGED lock
  PROVE  Inv'
<1>0. LockInv /\ HeapInv /\ r \in Clients /\ r \in Threads
  BY DEF Inv, Threads, Clients
<1>1. PICK from \in {"get", "free"}, to \in {"free", "got"} : Goto(r, from, to)
  BY DEF Unlink, FreeUnlinked
<1>2. LockMoves(r, to)
  BY <1>0, <1>1, InsideMoves DEF Goto
<1>3. LockInv'
  BY <1>0, <1>1, <1>2, ClientMoveOK
<1>4. Solo(r)
  BY <1>0, <1>1, SoloInside DEF Inside, Goto
<1> QED BY <1>0, <1>3, <1>4, LockAtWork, ReaderListHeap, ReaderListCount DEF Inv

\* t returns and gives the lock back; clients that wait may have been woken
Woken(u) == u \in Clients /\ pc[u] = "wait" /\ pc'[u] = "relock"
Returns(t, from) == /\ pc' \in [Threads -> Places]
                    /\ pc[t] = from /\ pc'[t] = "idle"
                    /\ \A u \in Threads \ {t} : pc'[u] = pc[u] \/ Woken(u)
                    /\ lock' = NULL

LEMMA ReturnLockInv ==
  ASSUME LockInv, NEW t \in Clients, NEW from \in {"added", "got"}, Returns(t, from),
         UNCHANGED cancelled
  PROVE  LockInv'
<1>0. /\ t \in Threads /\ Monitor \notin Clients /\ Main \notin Clients
      /\ Monitor \in Threads /\ Main \in Threads
  BY ThreadAssumption DEF Threads
<1>1. lock = t
  BY <1>0 DEF Returns, LockInv, Mutex, Inside
<1>2. Mutex'
  BY <1>0, <1>1 DEF Returns, Woken, LockInv, Mutex, Inside
<1>3. pc'[Monitor] = pc[Monitor] /\ pc'[Main] = pc[Main]
  BY <1>0 DEF Returns, Woken
<1>4. Quiet'
  BY <1>0, <1>3 DEF Returns, LockInv, Quiet
<1> QED BY <1>2, <1>3, <1>4 DEF Returns, LockInv

\* what the other layers see of a return
LEMMA ReturnFacts ==
  ASSUME Inv, NEW t \in Clients, NEW from \in {"added", "got"}, Returns(t, from)
  PROVE  /\ t \in Threads /\ Solo(t) /\ pc'[Main] = pc[Main] /\ pc[Main] = "run"
         /\ \A u \in Threads : pc[u] \in Pointing \/ pc'[u] \in Pointing =>
                                  pc'[u] = pc[u] /\ u # t
         /\ Adding = IF t \in Writers /\ from = "added" THEN {t} ELSE {}
         /\ Getting = IF t \in Readers /\ from = "got" THEN {t} ELSE {}
         /\ Adding' = {} /\ Getting' = {}
         /\ \A w \in Writers : pc'[w] \notin {"link", "head", "tail", "added"}
<1>0. LockInv /\ t \in Threads /\ Main \notin Clients /\ Main \in Threads
  BY ThreadAssumption DEF Inv, Threads
<1>1. Solo(t)
  BY <1>0, SoloInside DEF Inside, Returns
<1>2. \A u \in Threads : pc'[u] \notin Critical
  BY <1>0, <1>1 DEF Solo, Inside, Returns, Woken
<1>3. pc'[Main] = pc[Main] /\ pc[Main] = "run"
  BY <1>0 DEF Returns, Woken, LockInv, Quiet
<1>4. \A u \in Threads : pc[u] \in Pointing \/ pc'[u] \in Pointing =>
                            pc'[u] = pc[u] /\ u # t
  BY <1>0 DEF Returns, Woken, Pointing
<1>5. /\ Adding = IF t \in Writers /\ from = "added" THEN {t} ELSE {}
      /\ Getting = IF t \in Readers /\ from = "got" THEN {t} ELSE {}
  BY <1>0, <1>1, Between DEF Returns
<1>6. \A u \in Clients : u \in Threads
  BY DEF Threads
<1>7. Adding' = {} /\ Getting' = {}
  BY <1>2, <1>6 DEF Adding, Getting, Clients
<1> QED BY <1>0, <1>1, <1>2, <1>3, <1>4, <1>5, <1>6, <1>7 DEF Clients

LEMMA ReturnHeapInv ==
  ASSUME Inv, NEW t \in Clients, NEW from \in {"added", "got"}, Returns(t, from),
         UNCHANGED <<first, last, chain, next, val, heap>>,
         ListTypeOK', \A u \in Threads \ {t} : node'[u] = node[u],
         \A u \in Writers \ {t} : sent'[u] = sent[u]
  PROVE  HeapInv'
<1>1. ListInv /\ HeapOK
  BY DEF Inv, HeapInv
<1>2. /\ \A u \in Threads : pc[u] \in Pointing \/ pc'[u] \in Pointing =>
                              pc'[u] = pc[u] /\ node'[u] = node[u]
      /\ \A u \in Writers : pc[u] \in Pointing => sent'[u] = sent[u]
  BY ReturnFacts DEF Threads, Clients
<1>3. ListInv' /\ (HeapRun => HeapRun')
  BY <1>1, <1>2, FrameOK
<1>4. Main # t /\ Main \in Threads /\ pc'[Main] = pc[Main]
  BY ReturnFacts, ThreadAssumption DEF Threads
<1>5. HeapOK'
  BY <1>1, <1>3, <1>4, HeapFrameOK
<1> QED BY <1>3, <1>5 DEF HeapInv

\* q->count++; q->add_count++
LEMMA AddReturnInv ==
  ASSUME Inv, NEW w \in Writers, CountAdded(w), Returns(w, "added")
  PROVE  Inv'
<1>0. /\ w \in Clients /\ w \in Threads /\ w \notin Readers
      /\ LockInv /\ ListTypeOK /\ CountsOK /\ Room /\ HeapInv
  BY ThreadAssumption DEF Threads, Clients, Inv, HeapInv, ListInv, CountInv
<1>1. /\ UNCHANGED <<first, last, chain, next, val, heap, get_count>>
      /\ UNCHANGED <<expected, errors, cancelled, alive>>
      /\ count' = count + 1 /\ add_count' = add_count + 1
      /\ sent' = [sent EXCEPT ![w] = sent[w] + 1]
      /\ node' = [node EXCEPT ![w] = NULL]
  BY DEF CountAdded, linkVars, heapVars, readVars, runVars
<1>2. ListTypeOK'
  <2>1. count' \in Nat /\ add_count' \in Nat /\ get_count' \in Nat
    BY <1>0, <1>1 DEF ListTypeOK
  <2>2. sent' \in [Writers -> Nat] /\ node' \in [Threads -> Node \cup {NULL}]
    BY <1>0, <1>1 DEF ListTypeOK
  <2>3. pc' \in [Threads -> Places]
    BY DEF Returns
  <2> QED BY <2>1, <2>2, <2>3, <1>0, <1>1 DEF ListTypeOK
<1>3. LockInv'
  BY <1>0, <1>1, ReturnLockInv
<1>4. HeapInv'
  <2>1. /\ \A u \in Threads \ {w} : node'[u] = node[u]
        /\ \A u \in Writers \ {w} : sent'[u] = sent[u]
    BY <1>0, <1>1 DEF ListTypeOK
  <2> QED BY <1>0, <1>1, <1>2, <2>1, ReturnHeapInv
<1>5. CountInv'
  <2>1. /\ Adding = {w} /\ Getting = {} /\ Adding' = {} /\ Getting' = {}
        /\ \A u \in Writers : pc'[u] \notin {"link", "head", "tail", "added"}
    BY <1>0, ReturnFacts
  <2>2. count < max_count
    BY <1>0 DEF Returns, Room
  <2>3. CountsOK'
    BY <2>1, <2>2, <1>0, <1>1, CountTypes DEF CountsOK
  <2>4. Room'
    BY <2>1 DEF Room
  <2> QED BY <2>3, <2>4 DEF CountInv
<1> QED BY <1>3, <1>4, <1>5 DEF Inv

\* before queue_get counts, there is a value to count
LEMMA GotSomething ==
  ASSUME Inv, NEW r \in Readers, pc[r] = "got"
  PROVE  count > 0 /\ get_count < add_count /\ count \in Nat /\ get_count \in Nat
<1>0. /\ r \in Threads /\ r \notin Writers /\ LockInv /\ HeapInv /\ CountsOK
  BY ThreadAssumption DEF Threads, Clients, Inv, CountInv
<1>1. Solo(r)
  BY <1>0, SoloInside DEF Inside
<1>2. Adding = {} /\ Getting = {r}
  BY <1>0, <1>1, Between
<1> QED BY <1>0, <1>2, CountTypes DEF CountsOK

\* q->count--; q->get_count++
LEMMA GetReturnInv ==
  ASSUME Inv, NEW r \in Readers, CountGot, Returns(r, "got")
  PROVE  Inv'
<1>0. /\ r \in Clients /\ r \in Threads /\ r \notin Writers
      /\ LockInv /\ ListTypeOK /\ CountsOK /\ Room /\ HeapInv
      /\ count > 0 /\ count \in Nat /\ get_count \in Nat
  BY GotSomething, ThreadAssumption
     DEF Threads, Clients, Inv, HeapInv, ListInv, CountInv, Returns
<1>1. /\ UNCHANGED <<first, last, chain, next, val, heap, add_count>>
      /\ UNCHANGED <<node, sent, expected, errors, cancelled, alive>>
      /\ count' = count - 1 /\ get_count' = get_count + 1
  BY DEF CountGot, linkVars, heapVars, readVars, runVars
<1>2. ListTypeOK'
  <2>1. count' \in Nat /\ get_count' \in Nat
    BY <1>0, <1>1
  <2>2. pc' \in [Threads -> Places]
    BY DEF Returns
  <2> QED BY <2>1, <2>2, <1>0, <1>1 DEF ListTypeOK
<1>3. LockInv'
  BY <1>0, <1>1, ReturnLockInv
<1>4. HeapInv'
  BY <1>0, <1>1, <1>2, ReturnHeapInv
<1>5. CountInv'
  <2>1. /\ Adding = {} /\ Getting = {r} /\ Adding' = {} /\ Getting' = {}
        /\ \A u \in Writers : pc'[u] \notin {"link", "head", "tail", "added"}
    BY <1>0, ReturnFacts
  <2>2. CountsOK'
    BY <2>1, <1>0, <1>1, CountTypes DEF CountsOK
  <2>3. Room'
    BY <2>1 DEF Room
  <2> QED BY <2>2, <2>3 DEF CountInv
<1> QED BY <1>3, <1>4, <1>5 DEF Inv

LEMMA AbortInv ==
  ASSUME Inv, Abort, UNCHANGED lock
  PROVE  Inv'
<1>1. UNCHANGED <<pc, cancelled, count, add_count, get_count, chain>>
  BY DEF Abort, statVars, linkVars
<1>2. LockInv'
  BY <1>1 DEF Inv, LockInv, Mutex, Inside, Quiet
<1>3. CountInv'
  BY <1>1 DEF Inv, CountInv, CountsOK, Room, Adding, Getting
<1> QED BY <1>2, <1>3, AbortHeapInv DEF Inv

LEMMA OtherInv ==
  ASSUME Inv,
         \/ \E t \in Clients : ClientStops(t) /\ UNCHANGED lock
         \/ MonitorStep
         \/ DestroyStep
  PROVE  Inv'
<1>1. CASE \E t \in Clients : ClientStops(t) /\ UNCHANGED lock
  <2>1. PICK t \in Clients : Moves(t, "idle", "stopped")
    BY <1>1 DEF ClientStops, Moves, LockMoves
  <2> QED BY <2>1, MoveInv DEF Calm
<1>2. CASE MonitorStep \/ DestroyStep
  <2>1. LockInv' /\ CountInv'
    BY <1>2, MonitorLockInv, DestroyLockInv, OtherCountInv DEF Inv
  <2>2. CASE MonitorStep
    <3>1. \E from, to \in MonitorPlaces : JustGoto(Monitor, from, to)
      BY <2>2 DEF MonitorStep, MonitorWakes, MonitorLock, MonitorPrint,
         MonitorCancelledAsleep, MonitorCancelledPrinting
    <3> QED BY <2>1, <3>1, LockAtWork, MonitorHeapInv DEF Inv
  <2>3. CASE DestroyStep
    BY <2>1, <2>3, LockAtWork, DestroyHeapInv DEF Inv, DestroyStep, DestroyLock, DestroyReturn
  <2> QED BY <1>2, <2>2, <2>3
<1> QED BY <1>1, <1>2

LEMMA InitInv == GuardedInit => Inv
BY InitLockInv, InitHeapInv, InitCountInv DEF Inv, GuardedInit

\* what the monitor reads under the lock adds up
LEMMA InvStats == Inv => StatsBalanced
<1> SUFFICES ASSUME Inv, pc[Monitor] = "print"
             PROVE  count = Len(chain) /\ add_count - get_count = count
  BY DEF StatsBalanced
<1>1. /\ LockInv /\ HeapInv /\ CountsOK
      /\ Monitor \in Threads /\ Monitor \notin Writers /\ Monitor \notin Readers
  BY ThreadAssumption DEF Threads, Clients, Inv, CountInv
<1>2. Solo(Monitor)
  BY <1>1, SoloInside DEF Inside
<1>3. Adding = {} /\ Getting = {}
  BY <1>1, <1>2, Between
<1> QED BY <1>1, <1>3, CountTypes DEF CountsOK

LEMMA StutterInv ==
  ASSUME Inv, UNCHANGED <<listVars, lock>>
  PROVE  Inv'
<1>1. /\ UNCHANGED <<first, last, chain, next, val, heap, count, add_count, get_count>>
      /\ UNCHANGED <<pc, node, sent, expected, errors, cancelled, alive, lock>>
  BY DEF listVars, linkVars, heapVars, statVars, readVars, runVars
<1>2. LockInv'
  BY <1>1 DEF Inv, LockInv, Mutex, Inside, Quiet
<1>3. ListTypeOK' /\ ListInv /\ HeapOK
  BY <1>1 DEF Inv, HeapInv, ListInv, ListTypeOK
<1>4. ListInv' /\ (HeapRun => HeapRun')
  BY <1>1, <1>3, FrameOK
<1>5. HeapInv'
  BY <1>1, <1>3, <1>4, HeapFrameOK DEF HeapInv
<1>6. CountInv'
  BY <1>1 DEF Inv, CountInv, CountsOK, Room, Adding, Getting
<1> QED BY <1>2, <1>5, <1>6 DEF Inv

-----------------------------------------------------------------------------
(* The kinds of step again: each is one of the bounded FIFO or unseen, and *)
(* while the FIFO is in order none prints the ERROR line.                  *)
FifoStep == /\ [FifoP!Next]_(FifoP!fifoVars)
            /\ FifoP!InOrder => errors' = errors

LEMMA UnseenStep ==
  ASSUME Silent, UNCHANGED errors
  PROVE  FifoStep
BY DEF FifoStep, Silent, FifoP!fifoVars

LEMMA MoveFifo ==
  ASSUME Inv, NEW t \in Clients, NEW from \in Calm, NEW to \in Calm, Moves(t, from, to)
  PROVE  FifoStep
<1>1. ListTypeOK /\ t \in Threads /\ JustGoto(t, from, to)
  BY DEF Inv, HeapInv, ListInv, Threads, Moves
<1>2. Silent
  BY <1>1, SilentMove DEF Calm
<1>3. UNCHANGED errors
  BY <1>1 DEF JustGoto, memVars, readVars
<1> QED BY <1>2, <1>3, UnseenStep

LEMMA WriterListFifo ==
  ASSUME Inv, Inv', NEW w \in Writers, (Malloc(w) /\ count # max_count) \/ LinkStep(w)
  PROVE  FifoStep
<1>0. /\ w \in Clients /\ w \in Threads /\ w \notin Readers /\ LockInv
      /\ ListInv /\ ListTypeOK' /\ HeapOK /\ CountsOK /\ Room
  BY ThreadAssumption DEF Inv, HeapInv, ListInv, CountInv, Threads, Clients
<1>1. UNCHANGED errors
  BY DEF Malloc, LinkStep, LinkEmpty, SetFirst, LinkBehind, SetLast, readVars
<1>2. CASE Malloc(w) \/ LinkEmpty(w) \/ SetLast(w)
  <2>1. pc[w] # "stopped"
    BY <1>2 DEF Malloc, LinkEmpty, SetLast, Goto
  <2>2. HeapRun
    BY <2>1, <1>0 DEF LockInv, Quiet, HeapOK, HeapRun
  <2> QED BY <2>2, <1>0, <1>1, <1>2, WriterIsSilent, UnseenStep
<1>3. CASE SetFirst(w) \/ LinkBehind(w)
  <2>1. PICK from \in {"link", "head"}, to \in {"tail", "added"} : Goto(w, from, to)
    BY <1>3 DEF SetFirst, LinkBehind
  <2>2. Solo(w) /\ pc[w] = from /\ Adding = {} /\ Getting = {}
    BY <2>1, <1>0, InsideFacts
  <2>3. count < max_count
    BY <2>2, <1>0 DEF Room
  <2>4. Len(chain) = count
    <3>1. HeapInv
      BY DEF Inv
    <3> QED BY <2>2, <3>1, <1>0, CountTypes DEF CountsOK
  <2>5. FifoP!Put(w)
    BY <2>2, <2>3, <2>4, <1>0, <1>3, LinkIsPut
  <2> QED BY <2>5, <1>1 DEF FifoStep, FifoP!Next
<1> QED BY <1>2, <1>3 DEF LinkStep

LEMMA ReaderListFifo ==
  ASSUME Inv, Inv', NEW r \in Readers, (Unlink(r) /\ chain # <<>>) \/ FreeUnlinked(r)
  PROVE  FifoStep
<1>0. ListInv /\ ListTypeOK'
  BY DEF Inv, HeapInv, ListInv
<1>1. CASE Unlink(r) /\ chain # <<>>
  BY <1>0, <1>1, UnlinkIsTake DEF FifoStep, FifoP!Next
<1>2. CASE FreeUnlinked(r)
  <2>1. UNCHANGED errors
    BY <1>2 DEF FreeUnlinked, readVars
  <2> QED BY <2>1, <1>0, <1>2, FreeIsSilent, UnseenStep
<1> QED BY <1>1, <1>2

LEMMA AddReturnFifo ==
  ASSUME Inv, NEW w \in Writers, CountAdded(w), Returns(w, "added")
  PROVE  FifoStep
<1>0. ListTypeOK /\ \A u \in Writers : u \in Threads
  BY DEF Inv, HeapInv, ListInv, Threads, Clients
<1>1. UNCHANGED errors
  BY DEF CountAdded, readVars
<1>2. /\ pc[w] = "added" /\ pc'[w] \notin {"tail", "added"}
      /\ \A u \in Writers \ {w} : pc'[u] \in {"tail", "added"} <=> pc[u] \in {"tail", "added"}
  BY <1>0 DEF Returns, Woken
<1> QED BY <1>0, <1>1, <1>2, CountAddedIsSilent, UnseenStep

LEMMA GetReturnFifo ==
  ASSUME Inv, NEW r \in Readers, CountGot, Returns(r, "got")
  PROVE  FifoStep
<1>0. /\ r \notin Writers /\ \A u \in Writers : u \in Threads
  BY ThreadAssumption DEF Threads, Clients
<1>1. UNCHANGED <<chain, val, sent, expected, errors>>
  BY DEF CountGot, linkVars, heapVars, readVars
<1>2. \A u \in Writers : pc'[u] \in {"tail", "added"} <=> pc[u] \in {"tail", "added"}
  BY <1>0 DEF Returns, Woken
<1> QED BY <1>1, <1>2, SilentFrame, UnseenStep

LEMMA AbortFifo ==
  ASSUME Abort
  PROVE  FifoStep
<1>1. UNCHANGED <<chain, val, sent, expected, errors, pc>>
  BY DEF Abort, linkVars, heapVars, readVars
<1> QED BY <1>1, SilentFrame, UnseenStep

LEMMA OtherFifo ==
  ASSUME Inv,
         \/ \E t \in Clients : ClientStops(t) /\ UNCHANGED lock
         \/ MonitorStep
         \/ DestroyStep
  PROVE  FifoStep
<1>0. /\ ListTypeOK /\ Main \in Threads /\ Monitor \in Threads
      /\ Main \notin Writers /\ \A u \in Writers : u \in Threads
  BY ThreadAssumption DEF Threads, Clients, Inv, HeapInv, ListInv
<1>1. CASE \E t \in Clients : ClientStops(t) /\ UNCHANGED lock
  <2>1. PICK t \in Clients : Moves(t, "idle", "stopped")
    BY <1>1 DEF ClientStops, Moves, LockMoves
  <2> QED BY <2>1, MoveFifo DEF Calm
<1>2. CASE MonitorStep
  <2>1. PICK from \in MonitorPlaces, to \in MonitorPlaces : JustGoto(Monitor, from, to)
    BY <1>2 DEF MonitorStep, MonitorWakes, MonitorLock, MonitorPrint,
       MonitorCancelledAsleep, MonitorCancelledPrinting
  <2>2. UNCHANGED errors
    BY <2>1 DEF JustGoto, memVars, readVars
  <2> QED BY <2>1, <2>2, <1>0, SilentMove, UnseenStep
<1>3. CASE DestroyStep
  <2>1. UNCHANGED <<chain, val, sent, expected, errors>>
    BY <1>3 DEF DestroyStep, DestroyCancel, DestroyJoin, DestroyLock, DestroyWalk,
       DestroyFree, DestroyReturn, DestroyDone, JustGoto, memVars, linkVars,
       heapVars, readVars
  <2>2. \A u \in Writers : pc'[u] = pc[u]
    BY <1>0, <1>3 DEF DestroyStep, DestroyCancel, DestroyJoin, DestroyLock, DestroyWalk,
       DestroyFree, DestroyReturn, DestroyDone, JustGoto, Goto, ListTypeOK
  <2> QED BY <2>1, <2>2, SilentFrame, UnseenStep
<1> QED BY <1>1, <1>2, <1>3

LEMMA StutterFifo ==
  ASSUME UNCHANGED <<listVars, lock>>
  PROVE  FifoStep
<1>1. UNCHANGED <<chain, val, sent, expected, errors, pc>>
  BY DEF listVars, linkVars, heapVars, readVars
<1> QED BY <1>1, SilentFrame, UnseenStep

LEMMA InitFifoOK == GuardedInit => FifoP!Init
<1>1. GuardedInit => ListInit /\ ListTypeOK
  BY InitInv DEF GuardedInit, Inv, HeapInv, ListInv
<1> QED BY <1>1, InitFifo
=============================================================================

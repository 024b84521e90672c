--------------------------- MODULE RacyQueueProofs ---------------------------
(***************************************************************************)
(* What the two unsynchronised versions of the queue keep, for any number  *)
(* of nodes, any max_count and any number of values: count stays in its    *)
(* bounds, the reader of task2's queue.c never touches freed memory, and   *)
(* calls that do not overlap find a queue in order.                        *)
(*                                                                         *)
(* First come the effects of every step, then three inductive invariants:  *)
(* CountInv for count, ReaderInv for the pointers the reader may follow,   *)
(* RacyOrder and FirstOrder for calls one at a time.                       *)
(***************************************************************************)
EXTENDS RacyQueue, FiniteSetTheorems, WellFoundedInduction, TLAPS

First == INSTANCE FirstQueue

-----------------------------------------------------------------------------
(* The kinds of step, field by field.                                      *)
Threads == {"writer", "reader"}

Queue(f, l, c, a, g) == [first |-> f, last |-> l, count |-> c, add_count |-> a, get_count |-> g]

RacyTypes == /\ q = Queue(q.first, q.last, q.count, q.add_count, q.get_count)
             /\ next = [n \in Node |-> next[n]] /\ val = [n \in Node |-> val[n]] /\ heap \subseteq Node
             /\ pc = [t \in Threads |-> pc[t]] /\ mine = [t \in Threads |-> mine[t]]
             /\ ptr = [t \in Threads |-> ptr[t]] /\ num = [t \in Threads |-> num[t]]

\* one thread moves on, the other stays
Moves(t, from, to) == /\ pc[t] = from /\ pc'[t] = to
                      /\ \A u \in Threads : u # t => pc'[u] = pc[u]

LEMMA RacyStart == Init => RacyTypes
BY DEF Init, RacyTypes, Queue, Threads

LEMMA GoMoves ==
  ASSUME RacyTypes, NEW t \in Threads, NEW from, NEW to, Go(t, from, to)
  PROVE  Moves(t, from, to) /\ (pc = [u \in Threads |-> pc[u]])'
BY DEF RacyTypes, Moves, Go

LEMMA Calls ==
  ASSUME RacyTypes, NEW t \in Threads, NEW to, Call(t, to)
  PROVE  RacyTypes' /\ Moves(t, "idle", to) /\ UNCHANGED <<q, nodes, locals, checks, crashed>>
BY GoMoves DEF Call, RacyTypes, Queue, nodes, locals

LEMMA Tests ==
  ASSUME RacyTypes, NEW t \in Threads, NEW from, NEW test, NEW yes, NEW no, Test(t, from, test, yes, no)
  PROVE  /\ RacyTypes' /\ UNCHANGED <<q, nodes, locals, checks, crashed, overlapped>>
         /\ test => Moves(t, from, yes)
         /\ ~test => Moves(t, from, no)
<1>1. Go(t, from, IF test THEN yes ELSE no) /\ UNCHANGED <<q, nodes, locals, checks, crashed, overlapped>>
  BY DEF Test
<1>2. Moves(t, from, IF test THEN yes ELSE no) /\ (pc = [u \in Threads |-> pc[u]])'
  BY <1>1, GoMoves
<1>3. RacyTypes'
  BY <1>1, <1>2 DEF RacyTypes, Queue, nodes, locals
<1>4. CASE test
  BY <1>1, <1>2, <1>3, <1>4, Zenon
<1>5. CASE ~test
  BY <1>1, <1>2, <1>3, <1>5, Zenon
<1> QED BY <1>4, <1>5, Zenon

LEMMA Stores ==
  ASSUME RacyTypes, NEW t \in Threads, NEW from, NEW to, NEW value,
         NEW field \in {"first", "last", "count", "get_count"}, Store(t, from, to, field, value)
  PROVE  /\ RacyTypes' /\ Moves(t, from, to) /\ UNCHANGED <<nodes, locals, checks, crashed, overlapped>>
         /\ q'.first = IF field = "first" THEN value ELSE q.first
         /\ q'.last = IF field = "last" THEN value ELSE q.last
         /\ q'.count = IF field = "count" THEN value ELSE q.count
         /\ q'.add_count = q.add_count
         /\ q'.get_count = IF field = "get_count" THEN value ELSE q.get_count
<1>1. /\ Moves(t, from, to) /\ (pc = [u \in Threads |-> pc[u]])'
      /\ UNCHANGED <<nodes, locals, checks, crashed, overlapped>>
  BY GoMoves DEF Store
<1>2. q' = [q EXCEPT ![field] = value]
  BY DEF Store
<1>3. q' = Queue(IF field = "first" THEN value ELSE q.first, IF field = "last" THEN value ELSE q.last,
                 IF field = "count" THEN value ELSE q.count, q.add_count,
                 IF field = "get_count" THEN value ELSE q.get_count)
  <2>1. CASE field = "first"
    BY <2>1, <1>2 DEF RacyTypes, Queue
  <2>2. CASE field = "last"
    BY <2>2, <1>2 DEF RacyTypes, Queue
  <2>3. CASE field = "count"
    BY <2>3, <1>2 DEF RacyTypes, Queue
  <2>4. CASE field = "get_count"
    BY <2>4, <1>2 DEF RacyTypes, Queue
  <2> QED BY <2>1, <2>2, <2>3, <2>4
<1>4. /\ q'.first = IF field = "first" THEN value ELSE q.first
      /\ q'.last = IF field = "last" THEN value ELSE q.last
      /\ q'.count = IF field = "count" THEN value ELSE q.count
      /\ q'.add_count = q.add_count
      /\ q'.get_count = IF field = "get_count" THEN value ELSE q.get_count
      /\ (q = Queue(q.first, q.last, q.count, q.add_count, q.get_count))'
  BY <1>3 DEF Queue
<1>5. RacyTypes'
  BY <1>1, <1>4 DEF RacyTypes, nodes, locals
<1> QED BY <1>1, <1>4, <1>5

LEMMA Loads ==
  ASSUME RacyTypes, NEW t \in Threads, NEW from, NEW to, NEW pointer, Load(t, from, to, pointer)
  PROVE  /\ RacyTypes' /\ Moves(t, from, to)
         /\ UNCHANGED <<q, nodes, mine, num, checks, crashed, overlapped>>
         /\ ptr'[t] = pointer /\ \A u \in Threads : u # t => ptr'[u] = ptr[u]
<1>1. Moves(t, from, to) /\ (pc = [u \in Threads |-> pc[u]])'
  BY GoMoves DEF Load
<1> QED BY <1>1 DEF Load, RacyTypes, Queue, nodes

LEMMA LoadsCount ==
  ASSUME RacyTypes, NEW t \in Threads, NEW from, NEW to, LoadCount(t, from, to)
  PROVE  /\ RacyTypes' /\ Moves(t, from, to)
         /\ UNCHANGED <<q, nodes, mine, ptr, checks, crashed, overlapped>>
         /\ num'[t] = q.count /\ \A u \in Threads : u # t => num'[u] = num[u]
<1>1. Moves(t, from, to) /\ (pc = [u \in Threads |-> pc[u]])'
  BY GoMoves DEF LoadCount
<1> QED BY <1>1 DEF LoadCount, RacyTypes, Queue, nodes

LEMMA Ends ==
  ASSUME RacyTypes, NEW t \in Threads, NEW at, End(t, at)
  PROVE  /\ RacyTypes' /\ Moves(t, at, at) /\ crashed' = at
         /\ UNCHANGED <<q, nodes, locals, checks, overlapped>>
<1>1. Moves(t, at, at) /\ (pc = [u \in Threads |-> pc[u]])'
  BY GoMoves DEF End
<1> QED BY <1>1 DEF End, RacyTypes, Queue, nodes, locals

LEMMA Mallocs ==
  ASSUME RacyTypes, AddMalloc
  PROVE  /\ RacyTypes' /\ Moves("writer", "malloc", "empty?")
         /\ UNCHANGED <<q, ptr, num, checks, crashed, overlapped>>
         /\ mine'["reader"] = mine["reader"]
         /\ LET n == mine'["writer"] IN
              /\ n \in Node \ heap /\ heap' = heap \cup {n}
              /\ val'[n] = sent /\ next'[n] = NULL
              /\ \A m \in Node : m # n => val'[m] = val[m] /\ next'[m] = next[m]
<1>1. Moves("writer", "malloc", "empty?") /\ (pc = [u \in Threads |-> pc[u]])'
  BY GoMoves DEF AddMalloc, Threads
<1>2. PICK n \in Node \ heap : /\ mine' = [mine EXCEPT !["writer"] = n]
                               /\ heap' = heap \cup {n}
                               /\ val' = [val EXCEPT ![n] = sent]
                               /\ next' = [next EXCEPT ![n] = NULL]
  BY DEF AddMalloc
<1>3. mine'["writer"] = n /\ mine'["reader"] = mine["reader"]
  BY <1>2 DEF RacyTypes, Threads
<1>4. UNCHANGED <<q, ptr, num, checks, crashed, overlapped>>
  BY DEF AddMalloc
<1>5. /\ val'[n] = sent /\ next'[n] = NULL
      /\ \A m \in Node : m # n => val'[m] = val[m] /\ next'[m] = next[m]
  BY <1>2 DEF RacyTypes
<1>6. RacyTypes'
  BY <1>1, <1>2, <1>4 DEF RacyTypes, Queue, Threads
<1> QED BY <1>1, <1>2, <1>3, <1>4, <1>5, <1>6

LEMMA Links ==
  ASSUME RacyTypes, NEW at, NEW to, LinkNew(at, to)
  PROVE  /\ RacyTypes' /\ Moves("writer", at, to)
         /\ UNCHANGED <<q, val, heap, locals, checks, crashed, overlapped>>
         /\ ptr["writer"] \in Node /\ next'[ptr["writer"]] = mine["writer"]
         /\ \A n \in Node : n # ptr["writer"] => next'[n] = next[n]
<1>1. Moves("writer", at, to) /\ (pc = [u \in Threads |-> pc[u]])'
  BY GoMoves DEF LinkNew, Threads
<1> QED BY <1>1 DEF LinkNew, RacyTypes, Queue, locals

LEMMA Returns ==
  ASSUME RacyTypes, AddReturn
  PROVE  /\ RacyTypes' /\ Moves("writer", "added", "idle")
         /\ UNCHANGED <<nodes, locals, expected, errors, crashed, overlapped>>
         /\ sent' = sent + 1
         /\ q' = Queue(q.first, q.last, q.count, q.add_count + 1, q.get_count)
<1>1. Moves("writer", "added", "idle") /\ (pc = [u \in Threads |-> pc[u]])'
  BY GoMoves DEF AddReturn, Threads
<1>2. q' = Queue(q.first, q.last, q.count, q.add_count + 1, q.get_count)
  BY DEF AddReturn, RacyTypes, Queue
<1>3. (q = Queue(q.first, q.last, q.count, q.add_count, q.get_count))'
  BY <1>2 DEF Queue
<1>4. /\ UNCHANGED <<nodes, locals, expected, errors, crashed, overlapped>>
      /\ sent' = sent + 1
  BY DEF AddReturn
<1>5. RacyTypes'
  BY <1>1, <1>3, <1>4 DEF RacyTypes, nodes, locals
<1> QED BY <1>1, <1>2, <1>4, <1>5

LEMMA Frees ==
  ASSUME RacyTypes, NEW to, GetFree(to)
  PROVE  /\ RacyTypes' /\ Moves("reader", "free", to)
         /\ UNCHANGED <<q, locals, checks, crashed, overlapped>>
         /\ mine["reader"] \in heap /\ heap' = heap \ {mine["reader"]}
         /\ \A n \in Node : n # mine["reader"] => val'[n] = val[n] /\ next'[n] = next[n]
<1>1. Moves("reader", "free", to) /\ (pc = [u \in Threads |-> pc[u]])'
  BY GoMoves DEF GetFree, Threads
<1> QED BY <1>1 DEF GetFree, RacyTypes, Queue, locals

\* tmp = q->first
Takes(from, to) == /\ Go("reader", from, to)
                   /\ mine' = [mine EXCEPT !["reader"] = q.first]
                   /\ UNCHANGED <<q, nodes, ptr, num, checks, crashed, overlapped>>

LEMMA TakesFirst ==
  ASSUME RacyTypes, NEW from, NEW to, Takes(from, to)
  PROVE  /\ RacyTypes' /\ Moves("reader", from, to)
         /\ UNCHANGED <<q, nodes, ptr, num, checks, crashed, overlapped>>
         /\ mine'["reader"] = q.first /\ mine'["writer"] = mine["writer"]
<1>1. Moves("reader", from, to) /\ (pc = [u \in Threads |-> pc[u]])'
  BY GoMoves DEF Takes, Threads
<1> QED BY <1>1 DEF Takes, RacyTypes, Queue, nodes, Threads

Still == UNCHANGED <<q, nodes, locals, checks, crashed, overlapped>>
StillNodes == UNCHANGED <<nodes, locals, checks, crashed, overlapped>>

LEMMA Goes ==
  ASSUME RacyTypes, NEW t \in Threads, NEW from, NEW to, Go(t, from, to), Still
  PROVE  RacyTypes' /\ Moves(t, from, to)
BY GoMoves DEF Still, RacyTypes, Queue, nodes, locals

LEMMA AddFullMoves ==
  ASSUME RacyTypes, AddFull
  PROVE  /\ RacyTypes' /\ Still
         /\ q.count = max_count => Moves("writer", "full?", "idle")
         /\ q.count # max_count => Moves("writer", "full?", "malloc")
BY Tests DEF AddFull, Still, Threads

LEMMA AddEmptyMoves ==
  ASSUME RacyTypes, AddEmpty
  PROVE  /\ RacyTypes' /\ Still
         /\ q.first = NULL => Moves("writer", "empty?", "only")
         /\ q.first # NULL => Moves("writer", "empty?", "last?")
BY Tests DEF AddEmpty, Still, Threads

LEMMA AddHasLastMoves ==
  ASSUME RacyTypes, AddHasLast
  PROVE  /\ RacyTypes' /\ Still
         /\ q.last # NULL => Moves("writer", "last?", "tail")
         /\ q.last = NULL => Moves("writer", "last?", "first?")
BY Tests DEF AddHasLast, Still, Threads

LEMMA AddStillFirstMoves ==
  ASSUME RacyTypes, AddStillFirst
  PROVE  /\ RacyTypes' /\ Still
         /\ q.first # NULL => Moves("writer", "first?", "load first")
         /\ q.first = NULL => Moves("writer", "first?", "only")
BY Tests DEF AddStillFirst, Still, Threads

LEMMA GetCountTestMoves ==
  ASSUME RacyTypes, GetCountTest
  PROVE  /\ RacyTypes' /\ Still
         /\ q.count =< 0 => Moves("reader", "count?", "idle")
         /\ ~(q.count =< 0) => Moves("reader", "count?", "first?")
<1>1. CASE q.count =< 0
  <2>1. Go("reader", "count?", "idle") /\ Still
    BY <1>1 DEF GetCountTest, Test, Still
  <2> QED BY <1>1, <2>1, Goes DEF Threads
<1>2. CASE ~(q.count =< 0)
  <2>1. Go("reader", "count?", "first?") /\ Still
    BY <1>2 DEF GetCountTest, Test, Still
  <2> QED BY <1>2, <2>1, Goes DEF Threads
<1> QED BY <1>1, <1>2

LEMMA GetFirstTestMoves ==
  ASSUME RacyTypes, GetFirstTest
  PROVE  /\ RacyTypes' /\ Still
         /\ q.first = NULL => Moves("reader", "first?", "idle")
         /\ q.first # NULL => Moves("reader", "first?", "zero?")
BY Tests DEF GetFirstTest, Still, Threads

LEMMA GetZeroTestMoves ==
  ASSUME RacyTypes, GetZeroTest
  PROVE  /\ RacyTypes' /\ Still
         /\ q.count = 0 => Moves("reader", "zero?", "idle")
         /\ q.count # 0 => Moves("reader", "zero?", "tmp")
BY Tests DEF GetZeroTest, Still, Threads

LEMMA GetEmptyTestMoves ==
  ASSUME RacyTypes, GetEmptyTest
  PROVE  /\ RacyTypes' /\ Still
         /\ q.first = NULL => Moves("reader", "empty?", "clear")
         /\ q.first # NULL => Moves("reader", "empty?", "free")
BY Tests DEF GetEmptyTest, Still, Threads

LEMMA GetPositiveMoves ==
  ASSUME RacyTypes, GetPositive
  PROVE  /\ RacyTypes' /\ Still
         /\ q.count > 0 => Moves("reader", "positive?", "count")
         /\ ~(q.count > 0) => Moves("reader", "positive?", "got")
<1>1. CASE q.count > 0
  <2>1. Go("reader", "positive?", "count") /\ Still
    BY <1>1 DEF GetPositive, Test, Still
  <2> QED BY <1>1, <2>1, Goes DEF Threads
<1>2. CASE ~(q.count > 0)
  <2>1. Go("reader", "positive?", "got") /\ Still
    BY <1>2 DEF GetPositive, Test, Still
  <2> QED BY <1>2, <2>1, Goes DEF Threads
<1> QED BY <1>1, <1>2

LEMMA AddOnlyLastMoves ==
  ASSUME RacyTypes, AddOnlyLast
  PROVE  /\ RacyTypes' /\ Moves("writer", "only", "only2") /\ StillNodes
         /\ q'.first = q.first /\ q'.last = mine["writer"] /\ q'.count = q.count
         /\ q'.add_count = q.add_count /\ q'.get_count = q.get_count
BY Stores DEF AddOnlyLast, StillNodes, Threads

LEMMA AddOnlyFirstMoves ==
  ASSUME RacyTypes, AddOnlyFirst
  PROVE  /\ RacyTypes' /\ Moves("writer", "only2", "count") /\ StillNodes
         /\ q'.first \in {mine["writer"], q.last} /\ q'.last = q.last /\ q'.count = q.count
         /\ q'.add_count = q.add_count /\ q'.get_count = q.get_count
<1>1. PICK n \in {mine["writer"], q.last} : Store("writer", "only2", "count", "first", n)
  BY DEF AddOnlyFirst
<1> QED BY <1>1, Stores DEF StillNodes, Threads

LEMMA AddSetLastMoves ==
  ASSUME RacyTypes, AddSetLast
  PROVE  /\ RacyTypes' /\ Moves("writer", "settail", "count") /\ StillNodes
         /\ q'.first = q.first /\ q'.last = mine["writer"] /\ q'.count = q.count
         /\ q'.add_count = q.add_count /\ q'.get_count = q.get_count
BY Stores DEF AddSetLast, StillNodes, Threads

LEMMA AddStoreCountMoves ==
  ASSUME RacyTypes, AddStoreCount
  PROVE  /\ RacyTypes' /\ Moves("writer", "count2", "added") /\ StillNodes
         /\ q'.first = q.first /\ q'.last = q.last /\ q'.count = num["writer"] + 1
         /\ q'.add_count = q.add_count /\ q'.get_count = q.get_count
BY Stores DEF AddStoreCount, StillNodes, Threads

LEMMA GetMoveMoves ==
  ASSUME RacyTypes, GetMove
  PROVE  /\ RacyTypes' /\ Moves("reader", "move", "empty?") /\ StillNodes
         /\ q'.first = ptr["reader"] /\ q'.last = q.last /\ q'.count = q.count
         /\ q'.add_count = q.add_count /\ q'.get_count = q.get_count
BY Stores DEF GetMove, StillNodes, Threads, GetSetFirst

LEMMA GetClearLastMoves ==
  ASSUME RacyTypes, GetClearLast
  PROVE  /\ RacyTypes' /\ Moves("reader", "clear", "free") /\ StillNodes
         /\ q'.first = q.first /\ q'.last = NULL /\ q'.count = q.count
         /\ q'.add_count = q.add_count /\ q'.get_count = q.get_count
BY Stores DEF GetClearLast, StillNodes, Threads

LEMMA GetStoreCountMoves ==
  ASSUME RacyTypes, GetStoreCount
  PROVE  /\ RacyTypes' /\ Moves("reader", "count2", "got") /\ StillNodes
         /\ q'.first = q.first /\ q'.last = q.last /\ q'.count = num["reader"] - 1
         /\ q'.add_count = q.add_count /\ q'.get_count = q.get_count
BY Stores DEF GetStoreCount, StillNodes, Threads

LEMMA GetReturnMoves ==
  ASSUME RacyTypes, GetReturn
  PROVE  /\ RacyTypes' /\ Moves("reader", "got", "idle") /\ StillNodes
         /\ q'.first = q.first /\ q'.last = q.last /\ q'.count = q.count
         /\ q'.add_count = q.add_count
         /\ q'.get_count = IF q.get_count < q.add_count THEN q.get_count + 1 ELSE q.get_count
BY Stores DEF GetReturn, StillNodes, Threads

LEMMA AddLoadTailMoves ==
  ASSUME RacyTypes, AddLoadTail
  PROVE  /\ RacyTypes' /\ Moves("writer", "tail", "tail2") /\ UNCHANGED <<q, nodes, mine, num, checks, crashed, overlapped>>
         /\ ptr'["writer"] = q.last /\ ptr'["reader"] = ptr["reader"]
BY Loads DEF AddLoadTail, Threads

LEMMA AddLoadFirstMoves ==
  ASSUME RacyTypes, AddLoadFirst
  PROVE  /\ RacyTypes' /\ Moves("writer", "load first", "one?") /\ UNCHANGED <<q, nodes, mine, num, checks, crashed, overlapped>>
         /\ ptr'["writer"] = q.first /\ ptr'["reader"] = ptr["reader"]
BY Loads DEF AddLoadFirst, Threads

LEMMA AddLoadRepairMoves ==
  ASSUME RacyTypes, AddLoadRepair
  PROVE  /\ RacyTypes' /\ Moves("writer", "repair", "repair2") /\ UNCHANGED <<q, nodes, mine, num, checks, crashed, overlapped>>
         /\ ptr'["writer"] = q.first /\ ptr'["reader"] = ptr["reader"]
BY Loads DEF AddLoadRepair, Threads

LEMMA AddLinkTailMoves ==
  ASSUME RacyTypes, AddLinkTail
  PROVE  /\ RacyTypes'
         /\ \/ /\ Moves("writer", "tail2", "settail")
               /\ UNCHANGED <<q, val, heap, locals, checks, crashed, overlapped>>
               /\ ptr["writer"] \in Node /\ next'[ptr["writer"]] = mine["writer"]
               /\ \A n \in Node : n # ptr["writer"] => next'[n] = next[n]
            \/ /\ Moves("writer", "tail2", "tail2") /\ ptr["writer"] \notin Node /\ crashed' = "tail2"
               /\ UNCHANGED <<q, nodes, locals, checks, overlapped>>
BY Links, Ends DEF AddLinkTail, LinkCrash, Threads

LEMMA AddLinkRepairMoves ==
  ASSUME RacyTypes, AddLinkRepair
  PROVE  /\ RacyTypes'
         /\ \/ /\ Moves("writer", "repair2", "settail")
               /\ UNCHANGED <<q, val, heap, locals, checks, crashed, overlapped>>
               /\ ptr["writer"] \in Node /\ next'[ptr["writer"]] = mine["writer"]
               /\ \A n \in Node : n # ptr["writer"] => next'[n] = next[n]
            \/ /\ Moves("writer", "repair2", "repair2") /\ ptr["writer"] \notin Node /\ crashed' = "repair2"
               /\ UNCHANGED <<q, nodes, locals, checks, overlapped>>
BY Links, Ends DEF AddLinkRepair, LinkCrash, Threads

LEMMA AddOneNodeMoves ==
  ASSUME RacyTypes, AddOneNode
  PROVE  /\ RacyTypes' /\ UNCHANGED <<q, nodes, locals, checks, overlapped>>
         /\ \/ /\ Moves("writer", "one?", "repair") \/ Moves("writer", "one?", "only")
               /\ ptr["writer"] \in Node /\ crashed' = crashed
            \/ /\ Moves("writer", "one?", "one?")
               /\ ptr["writer"] \notin Node /\ crashed' = "one?"
<1>1. CASE LinkCrash("one?")
  BY <1>1, Ends DEF LinkCrash, Threads
<1>2. CASE /\ ptr["writer"] \in Node
           /\ Test("writer", "one?", next[ptr["writer"]] = NULL, "repair", "only")
  BY <1>2, Tests DEF Threads
<1> QED BY <1>1, <1>2 DEF AddOneNode

LEMMA AddNoMemoryMoves ==
  ASSUME RacyTypes, AddNoMemory
  PROVE  /\ RacyTypes' /\ Moves("writer", "malloc", "malloc") /\ crashed' = "malloc"
         /\ UNCHANGED <<q, nodes, locals, checks, overlapped>>
BY Ends DEF AddNoMemory, Threads

LEMMA AddCalledMoves ==
  ASSUME RacyTypes, AddCalled
  PROVE  /\ RacyTypes' /\ Moves("writer", "idle", "full?") /\ UNCHANGED <<q, nodes, locals, checks, crashed>>
         /\ overlapped' = (overlapped \/ pc["reader"] # "idle")
<1>1. Call("writer", "full?")
  BY DEF AddCalled
<1>2. RacyTypes' /\ Moves("writer", "idle", "full?") /\ UNCHANGED <<q, nodes, locals, checks, crashed>>
  BY <1>1, Calls DEF Threads
<1>3. (\E u \in DOMAIN pc : u # "writer" /\ pc[u] # "idle") <=> pc["reader"] # "idle"
  BY DEF RacyTypes, Threads
<1> QED BY <1>1, <1>2, <1>3 DEF Call

LEMMA GetCalledMoves ==
  ASSUME RacyTypes, GetCalled
  PROVE  /\ RacyTypes' /\ Moves("reader", "idle", "count?") /\ UNCHANGED <<q, nodes, locals, checks, crashed>>
         /\ overlapped' = (overlapped \/ pc["writer"] # "idle")
<1>1. Call("reader", "count?")
  BY DEF GetCalled
<1>2. RacyTypes' /\ Moves("reader", "idle", "count?") /\ UNCHANGED <<q, nodes, locals, checks, crashed>>
  BY <1>1, Calls DEF Threads
<1>3. (\E u \in DOMAIN pc : u # "reader" /\ pc[u] # "idle") <=> pc["writer"] # "idle"
  BY DEF RacyTypes, Threads
<1> QED BY <1>1, <1>2, <1>3 DEF Call

LEMMA AddLoadCountMoves ==
  ASSUME RacyTypes, AddLoadCount
  PROVE  /\ RacyTypes' /\ Moves("writer", "count", "count2") /\ UNCHANGED <<q, nodes, mine, ptr, checks, crashed, overlapped>>
         /\ num'["writer"] = q.count /\ num'["reader"] = num["reader"]
BY LoadsCount DEF AddLoadCount, Threads

LEMMA GetLoadCountMoves ==
  ASSUME RacyTypes, GetLoadCount
  PROVE  /\ RacyTypes' /\ Moves("reader", "count", "count2") /\ UNCHANGED <<q, nodes, mine, ptr, checks, crashed, overlapped>>
         /\ num'["reader"] = q.count /\ num'["writer"] = num["writer"]
BY LoadsCount DEF GetLoadCount, Threads

LEMMA GetLoadFirstMoves ==
  ASSUME RacyTypes, GetLoadFirst
  PROVE  /\ RacyTypes' /\ UNCHANGED <<q, nodes, ptr, num, checks, crashed, overlapped>>
         /\ q.first = NULL => Moves("reader", "tmp", "idle")
         /\ q.first # NULL => Moves("reader", "tmp", "next")
         /\ mine'["reader"] = q.first /\ mine'["writer"] = mine["writer"]
BY TakesFirst DEF GetLoadFirst, Takes

LEMMA GetLoadNodeMoves ==
  ASSUME RacyTypes, GetLoadNode
  PROVE  /\ RacyTypes' /\ Moves("reader", "next", "move") /\ UNCHANGED <<q, nodes, mine, num, sent, crashed, overlapped>>
         /\ ptr'["reader"] = next[mine["reader"]] /\ ptr'["writer"] = ptr["writer"]
         /\ GetCheck
<1>1. Go("reader", "next", "move") /\ ptr' = [ptr EXCEPT !["reader"] = next[mine["reader"]]]
  BY DEF GetLoadNode
<1>2. Moves("reader", "next", "move") /\ (pc = [u \in Threads |-> pc[u]])'
  BY <1>1, GoMoves DEF Threads
<1> QED BY <1>1, <1>2 DEF GetLoadNode, RacyTypes, Queue, nodes, Threads

-----------------------------------------------------------------------------
(* The count.                                                              *)
\* where the writer has seen that there is room, and the reader that there is a value
Room == {"malloc", "empty?", "only", "only2", "last?", "tail", "tail2", "last", "last2", "settail", "first?",
         "load first", "one?", "repair", "repair2", "count"}
Sure == {"first?", "zero?", "tmp", "val", "first", "next", "move", "empty?", "clear", "free", "positive?", "count"}

CountInv ==
  /\ q.count \in 0..max_count /\ num["writer"] \in Int /\ num["reader"] \in Int
  /\ pc["writer"] \in Room => q.count < max_count
  /\ pc["writer"] = "count2" => q.count =< num["writer"] /\ num["writer"] < max_count
  /\ pc["reader"] \in Sure => q.count >= 1
  /\ pc["reader"] = "count2" => 1 =< num["reader"] /\ num["reader"] =< q.count

LEMMA CountStart == Init => CountInv
BY BoundAssumption DEF Init, CountInv, Room, Sure

(* The steps that both versions of the queue take.                         *)
LEMMA CountsShared ==
  ASSUME RacyTypes, CountInv,
         \/ AddCalled \/ AddFull \/ AddMalloc \/ AddNoMemory \/ AddOnlyLast \/ AddOnlyFirst
         \/ AddLoadTail \/ AddLoadCount \/ AddStoreCount \/ AddReturn
         \/ GetCalled \/ GetLoadCount \/ GetStoreCount
  PROVE  RacyTypes' /\ CountInv'
<1>1. CASE AddCalled
  BY <1>1, AddCalledMoves DEF CountInv, Moves, Threads, Room, Sure, locals
<1>2. CASE AddMalloc
  BY <1>2, Mallocs DEF CountInv, Moves, Threads, Room, Sure
<1>3. CASE AddNoMemory
  BY <1>3, AddNoMemoryMoves DEF CountInv, Moves, Threads, Room, Sure, locals
<1>4. CASE AddOnlyLast
  BY <1>4, AddOnlyLastMoves DEF CountInv, Moves, Threads, Room, Sure, StillNodes, locals
<1>5. CASE AddOnlyFirst
  BY <1>5, AddOnlyFirstMoves DEF CountInv, Moves, Threads, Room, Sure, StillNodes, locals
<1>6. CASE AddLoadTail
  BY <1>6, AddLoadTailMoves DEF CountInv, Moves, Threads, Room, Sure
<1>7. CASE GetCalled
  BY <1>7, GetCalledMoves DEF CountInv, Moves, Threads, Room, Sure, locals
<1>8. CASE AddReturn
  <2>1. RacyTypes' /\ Moves("writer", "added", "idle") /\ q'.count = q.count /\ num' = num
    BY <1>8, Returns DEF Queue, locals
  <2> QED BY <2>1 DEF CountInv, Moves, Threads, Room, Sure
<1>9. CASE AddFull
  <2>1. RacyTypes' /\ q' = q /\ num' = num
    BY <1>9, AddFullMoves DEF Still, locals
  <2>2. CASE q.count = max_count
    BY <1>9, <2>1, <2>2, AddFullMoves DEF CountInv, Moves, Threads, Room, Sure
  <2>3. CASE q.count # max_count
    <3>1. q.count < max_count
      BY <2>3, BoundAssumption DEF CountInv
    <3>2. pc'["writer"] = "malloc" /\ pc'["reader"] = pc["reader"]
      BY <1>9, <2>3, AddFullMoves DEF Moves, Threads
    <3> QED BY <2>1, <3>1, <3>2 DEF CountInv
  <2> QED BY <2>2, <2>3
<1>10. CASE AddLoadCount
  <2>1. /\ RacyTypes' /\ pc'["writer"] = "count2" /\ pc["writer"] = "count" /\ pc'["reader"] = pc["reader"]
        /\ q' = q /\ num'["writer"] = q.count /\ num'["reader"] = num["reader"]
    BY <1>10, AddLoadCountMoves DEF Moves, Threads
  <2>2. "count" \in Room /\ "count2" \notin Room /\ "count" \in Sure /\ "count2" \notin Sure
    BY DEF Room, Sure
  <2> QED BY <2>1, <2>2, BoundAssumption DEF CountInv
<1>11. CASE GetLoadCount
  <2>1. /\ RacyTypes' /\ pc'["reader"] = "count2" /\ pc["reader"] = "count" /\ pc'["writer"] = pc["writer"]
        /\ q' = q /\ num'["reader"] = q.count /\ num'["writer"] = num["writer"]
    BY <1>11, GetLoadCountMoves DEF Moves, Threads
  <2>2. "count" \in Room /\ "count2" \notin Room /\ "count" \in Sure /\ "count2" \notin Sure
    BY DEF Room, Sure
  <2> QED BY <2>1, <2>2, BoundAssumption DEF CountInv
<1>12. CASE AddStoreCount
  <2> DEFINE c == q.count
             d == q'.count
  <2>1. /\ RacyTypes' /\ pc'["writer"] = "added" /\ pc["writer"] = "count2" /\ pc'["reader"] = pc["reader"]
        /\ d = num["writer"] + 1 /\ num' = num
    BY <1>12, AddStoreCountMoves DEF Moves, Threads, StillNodes, locals
  <2>2. pc'["writer"] # "count2" /\ pc'["writer"] \notin Room
    BY <2>1 DEF Room, Sure
  <2>3. /\ num["writer"] \in Int /\ num["reader"] \in Int /\ c \in Int
        /\ d \in 0..max_count /\ d >= c
    BY <2>1, BoundAssumption DEF CountInv
  <2>4. /\ pc["reader"] \in Sure => c >= 1
        /\ pc["reader"] = "count2" => 1 =< num["reader"] /\ num["reader"] =< c
        /\ pc["writer"] \in Room => c < max_count
        /\ pc["writer"] = "count2" => c =< num["writer"] /\ num["writer"] < max_count
    BY DEF CountInv
  <2> HIDE DEF c, d
  <2>5. /\ pc'["reader"] \in Sure => d >= 1
        /\ pc'["reader"] = "count2" => 1 =< num["reader"] /\ num["reader"] =< d
        /\ pc'["writer"] \in Room => d < max_count
        /\ pc'["writer"] = "count2" => d =< num["writer"] /\ num["writer"] < max_count
    BY <2>1, <2>2, <2>3, <2>4, BoundAssumption
  <2> QED BY <2>1, <2>3, <2>5 DEF CountInv, d
<1>13. CASE GetStoreCount
  <2> DEFINE c == q.count
             d == q'.count
  <2>1. /\ RacyTypes' /\ pc'["reader"] = "got" /\ pc["reader"] = "count2" /\ pc'["writer"] = pc["writer"]
        /\ d = num["reader"] - 1 /\ num' = num
    BY <1>13, GetStoreCountMoves DEF Moves, Threads, StillNodes, locals
  <2>2. pc'["reader"] # "count2" /\ pc'["reader"] \notin Sure
    BY <2>1 DEF Room, Sure
  <2>3. /\ num["writer"] \in Int /\ num["reader"] \in Int /\ c \in Int
        /\ d \in 0..max_count /\ d =< c
    BY <2>1, BoundAssumption DEF CountInv
  <2>4. /\ pc["reader"] \in Sure => c >= 1
        /\ pc["reader"] = "count2" => 1 =< num["reader"] /\ num["reader"] =< c
        /\ pc["writer"] \in Room => c < max_count
        /\ pc["writer"] = "count2" => c =< num["writer"] /\ num["writer"] < max_count
    BY DEF CountInv
  <2> HIDE DEF c, d
  <2>5. /\ pc'["reader"] \in Sure => d >= 1
        /\ pc'["reader"] = "count2" => 1 =< num["reader"] /\ num["reader"] =< d
        /\ pc'["writer"] \in Room => d < max_count
        /\ pc'["writer"] = "count2" => d =< num["writer"] /\ num["writer"] < max_count
    BY <2>1, <2>2, <2>3, <2>4, BoundAssumption
  <2> QED BY <2>1, <2>3, <2>5 DEF CountInv, d
<1> QED BY <1>1, <1>2, <1>3, <1>4, <1>5, <1>6, <1>7, <1>8, <1>9, <1>10, <1>11, <1>12, <1>13

LEMMA RacyCounts ==
  ASSUME RacyTypes, CountInv, Add \/ Get
  PROVE  RacyTypes' /\ CountInv'
<1>1. CASE AddEmpty
  BY <1>1, AddEmptyMoves DEF CountInv, Moves, Threads, Room, Sure, Still, locals
<1>2. CASE AddHasLast
  BY <1>2, AddHasLastMoves DEF CountInv, Moves, Threads, Room, Sure, Still, locals
<1>3. CASE AddLinkTail
  BY <1>3, AddLinkTailMoves DEF CountInv, Moves, Threads, Room, Sure, locals
<1>4. CASE AddSetLast
  BY <1>4, AddSetLastMoves DEF CountInv, Moves, Threads, Room, Sure, StillNodes, locals
<1>5. CASE AddStillFirst
  BY <1>5, AddStillFirstMoves DEF CountInv, Moves, Threads, Room, Sure, Still, locals
<1>6. CASE AddLoadFirst
  BY <1>6, AddLoadFirstMoves DEF CountInv, Moves, Threads, Room, Sure
<1>7. CASE AddOneNode
  BY <1>7, AddOneNodeMoves DEF CountInv, Moves, Threads, Room, Sure, locals
<1>8. CASE AddLoadRepair
  BY <1>8, AddLoadRepairMoves DEF CountInv, Moves, Threads, Room, Sure
<1>9. CASE AddLinkRepair
  BY <1>9, AddLinkRepairMoves DEF CountInv, Moves, Threads, Room, Sure, locals
<1>10. CASE GetFirstTest
  BY <1>10, GetFirstTestMoves DEF CountInv, Moves, Threads, Room, Sure, Still, locals
<1>11. CASE GetZeroTest
  BY <1>11, GetZeroTestMoves DEF CountInv, Moves, Threads, Room, Sure, Still, locals
<1>12. CASE GetLoadFirst
  BY <1>12, GetLoadFirstMoves DEF CountInv, Moves, Threads, Room, Sure
<1>13. CASE GetLoadNode
  BY <1>13, GetLoadNodeMoves DEF CountInv, Moves, Threads, Room, Sure
<1>14. CASE GetMove
  BY <1>14, GetMoveMoves DEF CountInv, Moves, Threads, Room, Sure, StillNodes, locals
<1>15. CASE GetEmptyTest
  BY <1>15, GetEmptyTestMoves DEF CountInv, Moves, Threads, Room, Sure, Still, locals
<1>16. CASE GetClearLast
  BY <1>16, GetClearLastMoves DEF CountInv, Moves, Threads, Room, Sure, StillNodes, locals
<1>17. CASE GetPositive
  BY <1>17, GetPositiveMoves DEF CountInv, Moves, Threads, Room, Sure, Still, locals
<1>18. CASE GetReturn
  BY <1>18, GetReturnMoves DEF CountInv, Moves, Threads, Room, Sure, StillNodes, locals
<1>19. CASE GetFree("positive?")
  <2>1. RacyTypes' /\ Moves("reader", "free", "positive?") /\ q' = q /\ num' = num
    BY <1>19, Frees DEF locals
  <2> QED BY <2>1 DEF CountInv, Moves, Threads, Room, Sure
<1>20. CASE GetCountTest
  <2>1. RacyTypes' /\ q' = q /\ num' = num
    BY <1>20, GetCountTestMoves DEF Still, locals
  <2>2. CASE q.count =< 0
    BY <1>20, <2>1, <2>2, GetCountTestMoves DEF CountInv, Moves, Threads, Room, Sure
  <2>3. CASE ~(q.count =< 0)
    <3>1. q.count >= 1
      BY <2>3, BoundAssumption DEF CountInv
    <3>2. pc'["reader"] = "first?" /\ pc'["writer"] = pc["writer"]
      BY <1>20, <2>3, GetCountTestMoves DEF Moves, Threads
    <3> QED BY <2>1, <3>1, <3>2 DEF CountInv
  <2> QED BY <2>2, <2>3
<1> QED BY CountsShared, <1>1, <1>2, <1>3, <1>4, <1>5, <1>6, <1>7, <1>8, <1>9, <1>10, <1>11, <1>12, <1>13, <1>14, <1>15, <1>16, <1>17, <1>18, <1>19, <1>20 DEF Add, Get

-----------------------------------------------------------------------------
(* The reader's memory.                                                    *)
\* where the writer has a node that no pointer leads to yet, and where it has linked it
Linking == {"empty?", "only", "only2", "last?", "tail", "tail2", "first?", "load first", "one?", "repair", "repair2"}
Linked == {"settail", "count", "count2", "added"}
Taking == {"move", "empty?", "clear", "free"}

Future == {n \in heap : val[n] >= expected}
After(n) == {m \in heap : val[m] > val[n]}

\* the nodes that the reader may come to: what first, its own pointers and the nodes
\* still to be read lead to
Held == {n \in Node : \/ n = q.first
                      \/ pc["reader"] = "next" /\ n = mine["reader"]
                      \/ pc["reader"] = "move" /\ n = ptr["reader"]
                      \/ \E k \in Future : k # n /\ next[k] = n}

\* a pointer leads to a later value, or through a stale last back to its own node, which
\* is lost then
Forward == \A n \in Future : next[n] \in {NULL, n} \cup After(n) /\ (next[n] = n => n \notin Held)
FirstAhead == \/ q.first \in Future \cup {NULL}
              \/ pc["reader"] = "move" /\ q.first = mine["reader"]
Reading == /\ pc["reader"] = "next" => /\ mine["reader"] \in Future
                                       /\ q.first \in {NULL, mine["reader"]} \cup After(mine["reader"])
           /\ pc["reader"] = "move" => ptr["reader"] \in {NULL} \cup Future
           /\ pc["reader"] \in Taking => mine["reader"] \in heap /\ val[mine["reader"]] = expected - 1
Writing ==
  /\ pc["writer"] \in Linking =>
       /\ mine["writer"] \in heap \ Held
       /\ val[mine["writer"]] = sent /\ next[mine["writer"]] = NULL
       /\ \A n \in heap \ {mine["writer"]} : val[n] < sent
       /\ expected =< sent
  /\ pc["writer"] = "only2" => q.last \in {mine["writer"], NULL}
  /\ pc["writer"] \in Linked => (\A n \in heap : val[n] =< sent) /\ expected =< sent + 1
  /\ pc["writer"] \notin Linking \cup Linked => (\A n \in heap : val[n] < sent) /\ expected =< sent
Values == sent \in Nat /\ expected \in Nat /\ \A n \in heap : val[n] \in Nat

ReaderInv == RacyTypes /\ Forward /\ FirstAhead /\ Reading /\ Writing /\ Values

LEMMA ReaderStart == Init => ReaderInv
BY RacyStart DEF Init, ReaderInv, Forward, FirstAhead, Reading, Writing, Values, Future, Held, Linking, Linked, Taking

\* the place of the writer among the groups, and that of the reader
SamePlaces == /\ pc'["writer"] \in Linking <=> pc["writer"] \in Linking
              /\ pc'["writer"] \in Linked <=> pc["writer"] \in Linked
              /\ pc'["writer"] = "only2" => q'.last \in {mine["writer"], NULL}
              /\ pc'["reader"] = "next" <=> pc["reader"] = "next"
              /\ pc'["reader"] = "move" <=> pc["reader"] = "move"
              /\ pc'["reader"] \in Taking => pc["reader"] \in Taking

(* A step that changes no pointer the reader may follow.                   *)
LEMMA ReaderKept ==
  ASSUME ReaderInv, RacyTypes', UNCHANGED <<nodes, mine, sent, expected>>, q'.first = q.first,
         ptr'["reader"] = ptr["reader"], SamePlaces
  PROVE  ReaderInv'
<1>1. Future' = Future /\ Held' = Held /\ \A n \in heap : After(n)' = After(n)
  BY DEF Future, Held, After, SamePlaces, nodes
<1>2. Forward' /\ FirstAhead'
  <2>1. Forward'
    BY <1>1 DEF ReaderInv, Forward, nodes, Future
  <2>2. FirstAhead'
    BY <1>1 DEF ReaderInv, FirstAhead, SamePlaces
  <2> QED BY <2>1, <2>2
<1>3. Reading'
  <2>1. pc["reader"] = "next" => mine["reader"] \in heap
    BY DEF ReaderInv, Reading, Future
  <2> QED BY <1>1, <2>1 DEF ReaderInv, Reading, SamePlaces, nodes
<1>4. Writing'
  BY <1>1 DEF ReaderInv, Writing, SamePlaces, nodes
<1>5. Values'
  BY DEF ReaderInv, Values, nodes
<1> QED BY <1>2, <1>3, <1>4, <1>5 DEF ReaderInv

(* A new node is not among those that the reader may come to.              *)
LEMMA ReaderMalloc ==
  ASSUME ReaderInv, AddMalloc
  PROVE  ReaderInv'
<1> DEFINE n == mine'["writer"]
<1>1. /\ RacyTypes' /\ pc["writer"] = "malloc" /\ pc'["writer"] = "empty?" /\ pc'["reader"] = pc["reader"]
      /\ UNCHANGED <<q, ptr, sent, expected>> /\ mine'["reader"] = mine["reader"]
      /\ n \in Node \ heap /\ heap' = heap \cup {n}
      /\ val'[n] = sent /\ next'[n] = NULL
      /\ \A m \in Node : m # n => val'[m] = val[m] /\ next'[m] = next[m]
  BY Mallocs DEF ReaderInv, Moves, Threads, checks
<1> HIDE DEF n
<1>2. /\ heap \subseteq Node /\ NULL \notin Node /\ sent \in Nat /\ expected \in Nat
      /\ (\A m \in heap : val[m] < sent) /\ expected =< sent /\ \A m \in heap : val[m] \in Nat
  BY <1>1, PointerAssumption DEF ReaderInv, RacyTypes, Values, Writing, Linking, Linked
<1>3. \A m \in heap : m # n /\ m \in Node /\ val'[m] = val[m] /\ next'[m] = next[m]
  BY <1>1, <1>2
<1>4. Future' = Future \cup {n} /\ Future \subseteq heap
  BY <1>1, <1>2, <1>3 DEF Future
<1>5. \A m \in heap : After(m) \subseteq After(m)'
  BY <1>1, <1>3 DEF After
<1>6. n \notin Held
  <2>1. n # q.first
    BY <1>1, <1>2, <1>4 DEF ReaderInv, FirstAhead, Reading, Taking
  <2>2. pc["reader"] = "next" => n # mine["reader"]
    BY <1>1, <1>4 DEF ReaderInv, Reading
  <2>3. pc["reader"] = "move" => n # ptr["reader"]
    BY <1>1, <1>2, <1>4 DEF ReaderInv, Reading
  <2>4. ~ \E k \in Future : k # n /\ next[k] = n
    BY <1>1, <1>2, <1>4 DEF ReaderInv, Forward, After
  <2> QED BY <2>1, <2>2, <2>3, <2>4 DEF Held
<1>7. Held' = Held
  BY <1>1, <1>2, <1>3, <1>4, <1>6 DEF Held
<1>8. Forward'
  <2> SUFFICES ASSUME NEW m \in Future'
               PROVE  (next[m] \in {NULL, m} \cup After(m) /\ (next[m] = m => m \notin Held))'
    BY DEF Forward
  <2>1. CASE m = n
    BY <2>1, <1>1, <1>2
  <2>2. CASE m # n
    BY <2>2, <1>3, <1>4, <1>5, <1>7 DEF ReaderInv, Forward
  <2> QED BY <2>1, <2>2
<1>9. FirstAhead' /\ Reading'
  <2>1. FirstAhead'
    BY <1>1, <1>4 DEF ReaderInv, FirstAhead
  <2>2. pc["reader"] \in {"next"} \cup Taking => mine["reader"] \in heap
    BY <1>4 DEF ReaderInv, Reading
  <2> QED BY <2>1, <2>2, <1>1, <1>3, <1>4, <1>5 DEF ReaderInv, Reading
<1>10. Writing'
  BY <1>1, <1>2, <1>3, <1>6, <1>7 DEF Writing, Linking, Linked, n
<1>11. Values'
  BY <1>1, <1>2, <1>3 DEF Values
<1> QED BY <1>1, <1>8, <1>9, <1>10, <1>11 DEF ReaderInv

(* first leads to the new node, or to none.                                *)
LEMMA ReaderOnlyFirst ==
  ASSUME ReaderInv, AddOnlyFirst
  PROVE  ReaderInv'
<1> DEFINE n == mine["writer"]
<1>1. /\ RacyTypes' /\ pc["writer"] = "only2" /\ pc'["writer"] = "count" /\ pc'["reader"] = pc["reader"]
      /\ UNCHANGED <<next, val, heap, mine, ptr, sent, expected>>
      /\ q'.first \in {n, q.last} /\ q'.last = q.last
  BY AddOnlyFirstMoves DEF ReaderInv, Moves, Threads, StillNodes, nodes, locals, checks
<1>2. /\ n \in heap \ Held /\ val[n] = sent /\ next[n] = NULL
      /\ \A m \in heap \ {n} : val[m] < sent
      /\ expected =< sent /\ q'.first \in {n, NULL}
  BY <1>1 DEF ReaderInv, Writing, Linking
<1>3. /\ sent \in Nat /\ expected \in Nat /\ heap \subseteq Node /\ NULL \notin Node
      /\ \A m \in heap : val[m] \in Nat
  BY PointerAssumption DEF ReaderInv, Values, RacyTypes
<1> HIDE DEF n
<1>4. Future' = Future /\ n \in Future /\ \A m \in heap : After(m)' = After(m)
  BY <1>1, <1>2, <1>3 DEF Future, After
<1>5. Held' \subseteq Held \cup {n}
  BY <1>1, <1>2, <1>3, <1>4 DEF Held
<1>6. Forward'
  BY <1>1, <1>2, <1>3, <1>4, <1>5 DEF ReaderInv, Forward, Future
<1>7. FirstAhead'
  BY <1>2, <1>4 DEF FirstAhead
<1>8. Reading'
  <2>1. pc["reader"] = "next" => mine["reader"] \in Held /\ mine["reader"] \in heap
    BY <1>3 DEF ReaderInv, Reading, Held, Future
  <2>2. pc["reader"] = "next" => n \in After(mine["reader"])
    BY <2>1, <1>2 DEF After
  <2> QED BY <1>1, <1>2, <1>4, <2>1, <2>2 DEF ReaderInv, Reading
<1>9. Writing'
  BY <1>1, <1>2, <1>3 DEF Writing, Linking, Linked
<1>10. Values'
  BY <1>1, <1>3 DEF Values
<1> QED BY <1>1, <1>6, <1>7, <1>8, <1>9, <1>10 DEF ReaderInv

(* The new node is linked behind the node that ptr leads to, whatever that *)
(* is by now: a node still to be read, a lost one, a freed one, or, freed  *)
(* and allocated again, the new node itself.                               *)
LEMMA ReaderLinks ==
  ASSUME ReaderInv, NEW at \in {"tail2", "repair2"}, LinkNew(at, "settail")
  PROVE  ReaderInv'
<1> DEFINE n == mine["writer"]
           p == ptr["writer"]
<1>1. /\ RacyTypes' /\ pc["writer"] = at /\ pc'["writer"] = "settail" /\ pc'["reader"] = pc["reader"]
      /\ UNCHANGED <<q, val, heap, mine, ptr, sent, expected>>
      /\ p \in Node /\ next'[p] = n /\ \A m \in Node : m # p => next'[m] = next[m]
  BY Links DEF ReaderInv, Moves, Threads, locals, checks
<1>2. /\ n \in heap \ Held /\ val[n] = sent /\ next[n] = NULL
      /\ \A m \in heap \ {n} : val[m] < sent
      /\ expected =< sent
  BY <1>1 DEF ReaderInv, Writing, Linking
<1>3. /\ sent \in Nat /\ expected \in Nat /\ heap \subseteq Node /\ NULL \notin Node
      /\ \A m \in heap : val[m] \in Nat
  BY PointerAssumption DEF ReaderInv, Values, RacyTypes
<1> HIDE DEF n, p
<1>4. Future' = Future /\ n \in Future /\ Future \subseteq heap /\ \A m \in heap : After(m)' = After(m)
  BY <1>1, <1>2, <1>3 DEF Future, After
<1>5. \A m \in Held' : m \in Held \/ (m = n /\ p # n)
  BY <1>1, <1>3, <1>4 DEF Held
<1>6. Forward'
  <2> SUFFICES ASSUME NEW m \in Future
               PROVE  next'[m] \in {NULL, m} \cup After(m) /\ (next'[m] = m => m \notin Held')
    BY <1>4 DEF Forward
  <2>0. m \in heap /\ m \in Node
    BY <1>3, <1>4
  <2>1. CASE m = p
    <3>1. next'[m] = n
      BY <2>1, <1>1
    <3>2. m # n => n \in After(m)
      BY <1>2, <2>0 DEF After
    <3> QED BY <2>1, <3>1, <3>2, <1>2, <1>5
  <2>2. CASE m # p
    <3>1. next'[m] = next[m]
      BY <2>0, <2>2, <1>1
    <3>2. next[m] \in {NULL, m} \cup After(m) /\ (next[m] = m => m \notin Held)
      BY DEF ReaderInv, Forward
    <3>3. next[m] = m => m # n
      BY <2>0, <1>2, <1>3
    <3> QED BY <3>1, <3>2, <3>3, <1>5
  <2> QED BY <2>1, <2>2
<1>7. FirstAhead' /\ Reading'
  <2>1. pc["reader"] = "next" => mine["reader"] \in heap
    BY <1>4 DEF ReaderInv, Reading
  <2> QED BY <1>1, <1>4, <2>1 DEF ReaderInv, FirstAhead, Reading
<1>8. Writing'
  BY <1>1, <1>2, <1>3 DEF Writing, Linking, Linked
<1>9. Values'
  BY <1>1, <1>3 DEF Values
<1> QED BY <1>1, <1>6, <1>7, <1>8, <1>9 DEF ReaderInv

(* tmp is what first led to.                                               *)
LEMMA ReaderLoadFirst ==
  ASSUME ReaderInv, GetLoadFirst
  PROVE  ReaderInv'
<1>1. /\ RacyTypes' /\ UNCHANGED <<q, nodes, ptr, sent, expected>>
      /\ pc["reader"] = "tmp" /\ pc'["writer"] = pc["writer"]
      /\ q.first = NULL => pc'["reader"] = "idle"
      /\ q.first # NULL => pc'["reader"] = "next"
      /\ mine'["reader"] = q.first /\ mine'["writer"] = mine["writer"]
  BY GetLoadFirstMoves DEF ReaderInv, Moves, Threads, checks
<1>2. q.first \in Future \cup {NULL}
  BY <1>1 DEF ReaderInv, FirstAhead
<1>3. /\ Future' = Future /\ Held' = Held /\ \A n \in heap : After(n)' = After(n)
      /\ pc'["reader"] \in {"idle", "next"}
  BY <1>1 DEF Future, Held, After, nodes
<1>4. Forward' /\ FirstAhead'
  BY <1>1, <1>2, <1>3 DEF ReaderInv, Forward, FirstAhead, nodes, Future
<1>5. Reading'
  BY <1>1, <1>2, <1>3 DEF Reading, Taking
<1>6. Writing'
  BY <1>1, <1>3 DEF ReaderInv, Writing, nodes
<1>7. Values'
  BY <1>1 DEF ReaderInv, Values, nodes
<1> QED BY <1>1, <1>4, <1>5, <1>6, <1>7 DEF ReaderInv

(* The value read is behind, and the next of its node ahead.               *)
LEMMA ReaderLoadNode ==
  ASSUME ReaderInv, GetLoadNode
  PROVE  ReaderInv'
<1> DEFINE n == mine["reader"]
           p == next[n]
<1>1. /\ RacyTypes' /\ UNCHANGED <<q, nodes, mine, sent>>
      /\ pc["reader"] = "next" /\ pc'["reader"] = "move" /\ pc'["writer"] = pc["writer"]
      /\ ptr'["reader"] = p /\ ptr'["writer"] = ptr["writer"]
      /\ expected' = IF val[n] \in Nat THEN val[n] + 1 ELSE 0
  BY GetLoadNodeMoves DEF ReaderInv, Moves, Threads, GetCheck
<1>2. /\ n \in Future /\ q.first \in {NULL, n} \cup After(n)
      /\ p \in {NULL, n} \cup After(n) /\ (p = n => n \notin Held)
  BY <1>1 DEF ReaderInv, Reading, Forward
<1>3. /\ sent \in Nat /\ expected \in Nat /\ heap \subseteq Node /\ NULL \notin Node
      /\ \A m \in heap : val[m] \in Nat
  BY PointerAssumption DEF ReaderInv, Values, RacyTypes
<1>4. n \in heap /\ n \in Held /\ val[n] >= expected /\ expected' = val[n] + 1
  BY <1>1, <1>2, <1>3 DEF Future, Held
<1> HIDE DEF n, p
<1>5. Future' = After(n) /\ Future' \subseteq Future /\ \A m \in heap : After(m)' = After(m)
  BY <1>1, <1>3, <1>4 DEF Future, After, nodes
<1>6. p \in {NULL} \cup After(n) /\ p # n
  BY <1>2, <1>3, <1>4
<1>7. Held' \subseteq Held
  <2> SUFFICES ASSUME NEW m \in Held' PROVE m \in Held
    OBVIOUS
  <2>1. m \in Node /\ (m = q.first \/ m = p \/ \E k \in Future' : k # m /\ next[k] = m)
    BY <1>1 DEF Held, nodes
  <2>2. m = p => \E k \in Future : k # m /\ next[k] = m
    BY <1>2, <1>6 DEF p
  <2> QED BY <2>1, <2>2, <1>5 DEF Held
<1>8. Forward'
  BY <1>1, <1>5, <1>7 DEF ReaderInv, Forward, nodes, Future
<1>9. FirstAhead'
  BY <1>1, <1>2, <1>5 DEF FirstAhead, n
<1>10. Reading'
  BY <1>1, <1>3, <1>4, <1>5, <1>6 DEF Reading, nodes, n
<1>11. Writing'
  <2>1. pc["writer"] \in Linking => n # mine["writer"]
    BY <1>4 DEF ReaderInv, Writing
  <2>2. /\ pc["writer"] \in Linking => val[n] < sent
        /\ pc["writer"] \in Linked => val[n] =< sent
        /\ pc["writer"] \notin Linking \cup Linked => val[n] < sent
    BY <2>1, <1>4 DEF ReaderInv, Writing
  <2> QED BY <2>2, <1>1, <1>3, <1>4, <1>7 DEF ReaderInv, Writing, nodes
<1>12. Values'
  BY <1>1, <1>3, <1>4 DEF Values, nodes
<1> QED BY <1>1, <1>8, <1>9, <1>10, <1>11, <1>12 DEF ReaderInv

LEMMA ReaderMoves ==
  ASSUME ReaderInv, GetMove
  PROVE  ReaderInv'
<1>1. /\ RacyTypes' /\ UNCHANGED <<nodes, mine, ptr, sent, expected>>
      /\ pc["reader"] = "move" /\ pc'["reader"] = "empty?" /\ pc'["writer"] = pc["writer"]
      /\ q'.first = ptr["reader"] /\ q'.last = q.last
  BY GetMoveMoves DEF ReaderInv, Moves, Threads, StillNodes, locals, checks
<1>2. ptr["reader"] \in {NULL} \cup Future
  BY <1>1 DEF ReaderInv, Reading
<1>3. Future' = Future /\ Held' \subseteq Held /\ \A n \in heap : After(n)' = After(n)
  BY <1>1 DEF Future, Held, After, nodes
<1>4. Forward' /\ FirstAhead'
  BY <1>1, <1>2, <1>3 DEF ReaderInv, Forward, FirstAhead, nodes, Future
<1>5. Reading'
  BY <1>1 DEF ReaderInv, Reading, nodes, Taking
<1>6. Writing'
  BY <1>1, <1>3 DEF ReaderInv, Writing, nodes
<1>7. Values'
  BY <1>1 DEF ReaderInv, Values, nodes
<1> QED BY <1>1, <1>4, <1>5, <1>6, <1>7 DEF ReaderInv

(* What is freed has been read, and nothing ahead leads back to it.        *)
LEMMA ReaderFrees ==
  ASSUME ReaderInv, GetFree("positive?")
  PROVE  ReaderInv'
<1> DEFINE n == mine["reader"]
<1>1. /\ RacyTypes' /\ UNCHANGED <<q, mine, ptr, sent, expected>>
      /\ pc["reader"] = "free" /\ pc'["reader"] = "positive?" /\ pc'["writer"] = pc["writer"]
      /\ n \in heap /\ heap' = heap \ {n}
      /\ \A m \in Node : m # n => val'[m] = val[m] /\ next'[m] = next[m]
  BY Frees DEF ReaderInv, Moves, Threads, locals, checks
<1>2. val[n] = expected - 1
  BY <1>1 DEF ReaderInv, Reading, Taking
<1>3. /\ sent \in Nat /\ expected \in Nat /\ heap \subseteq Node /\ NULL \notin Node
      /\ \A m \in heap : val[m] \in Nat
  BY PointerAssumption DEF ReaderInv, Values, RacyTypes
<1> HIDE DEF n
<1>4. n \notin Future /\ Future \subseteq heap /\ \A m \in Future : val[m] >= expected
  BY <1>2, <1>3 DEF Future
<1>5. \A m \in heap : m # n => m \in heap' /\ val'[m] = val[m] /\ next'[m] = next[m]
  BY <1>1, <1>3
<1>6. Future' = Future
  BY <1>1, <1>4, <1>5 DEF Future
<1>7. \A m \in Future : After(m)' = After(m)
  <2> SUFFICES ASSUME NEW m \in Future PROVE After(m)' = After(m)
    OBVIOUS
  <2>1. m # n /\ m \in heap /\ val[m] >= expected /\ n \notin After(m)
    BY <1>2, <1>3, <1>4 DEF After
  <2> QED BY <2>1, <1>1, <1>5 DEF After
<1>8. Held' \subseteq Held
  BY <1>1, <1>4, <1>5, <1>6 DEF Held
<1>9. Forward'
  <2> SUFFICES ASSUME NEW m \in Future
               PROVE  (next[m] \in {NULL, m} \cup After(m) /\ (next[m] = m => m \notin Held))'
    BY <1>6 DEF Forward
  <2> QED BY <1>4, <1>5, <1>7, <1>8 DEF ReaderInv, Forward
<1>10. FirstAhead' /\ Reading'
  BY <1>1, <1>6 DEF ReaderInv, FirstAhead, Reading, Taking
<1>11. Writing'
  <2>1. pc["writer"] \in Linking => mine["writer"] # n
    BY <1>2, <1>3 DEF ReaderInv, Writing
  <2>2. \A m \in heap' : m \in heap /\ val'[m] = val[m] /\ next'[m] = next[m]
    BY <1>1, <1>5
  <2>3. pc["writer"] \in Linking =>
          (/\ mine["writer"] \in heap \ Held
           /\ val[mine["writer"]] = sent /\ next[mine["writer"]] = NULL
           /\ \A m \in heap \ {mine["writer"]} : val[m] < sent
           /\ expected =< sent)'
    BY <2>1, <2>2, <1>1, <1>8 DEF ReaderInv, Writing
  <2>4. /\ pc["writer"] = "only2" => q.last \in {mine["writer"], NULL}
        /\ pc["writer"] \in Linked => (\A m \in heap : val[m] =< sent) /\ expected =< sent + 1
        /\ pc["writer"] \notin Linking \cup Linked => (\A m \in heap : val[m] < sent) /\ expected =< sent
    BY DEF ReaderInv, Writing
  <2> QED BY <2>2, <2>3, <2>4, <1>1 DEF Writing
<1>12. Values'
  BY <1>1, <1>3, <1>5 DEF Values
<1> QED BY <1>1, <1>9, <1>10, <1>11, <1>12 DEF ReaderInv

LEMMA ReaderReturn ==
  ASSUME ReaderInv, AddReturn
  PROVE  ReaderInv'
<1>1. /\ RacyTypes' /\ UNCHANGED <<nodes, mine, ptr, expected>>
      /\ pc["writer"] = "added" /\ pc'["writer"] = "idle" /\ pc'["reader"] = pc["reader"]
      /\ sent' = sent + 1 /\ q'.first = q.first
  BY Returns DEF ReaderInv, Moves, Threads, locals, Queue
<1>2. Future' = Future /\ Held' = Held /\ \A n \in heap : After(n)' = After(n)
  BY <1>1 DEF Future, Held, After, nodes
<1>3. Forward' /\ FirstAhead'
  BY <1>1, <1>2 DEF ReaderInv, Forward, FirstAhead, nodes, Future
<1>4. Reading'
  <2>1. pc["reader"] = "next" => mine["reader"] \in heap
    BY DEF ReaderInv, Reading, Future
  <2> QED BY <1>1, <1>2, <2>1 DEF ReaderInv, Reading, nodes
<1>5. Writing' /\ Values'
  <2>1. /\ (\A n \in heap : val[n] =< sent /\ val[n] \in Nat) /\ expected =< sent + 1
        /\ sent \in Nat /\ expected \in Nat
    BY <1>1 DEF ReaderInv, Writing, Linked, Values
  <2> QED BY <1>1, <2>1 DEF Writing, Values, Linking, Linked, nodes
<1> QED BY <1>1, <1>3, <1>4, <1>5 DEF ReaderInv

(* The program comes to a bad end, or nothing happens.                     *)
LEMMA ReaderEnds ==
  ASSUME ReaderInv, RacyTypes', UNCHANGED <<q, nodes, mine, ptr, sent, expected>>,
         pc'["writer"] = pc["writer"], pc'["reader"] = pc["reader"]
  PROVE  ReaderInv'
<1>1. SamePlaces
  BY DEF SamePlaces, ReaderInv, Writing
<1> QED BY <1>1, ReaderKept

LEMMA ReaderStep ==
  ASSUME ReaderInv, Next
  PROVE  ReaderInv'
<1>0. RacyTypes
  BY DEF ReaderInv
<1>00. pc["writer"] = "only2" => q.last \in {mine["writer"], NULL}
  BY DEF ReaderInv, Writing
<1>1. CASE AddCalled
  <2>1. /\ RacyTypes' /\ UNCHANGED <<nodes, mine, sent, expected>>
        /\ q'.first = q.first /\ ptr'["reader"] = ptr["reader"]
    BY <1>0, <1>1, AddCalledMoves DEF Still, StillNodes, locals, checks
  <2>2. SamePlaces
    BY <1>0, <1>1, AddCalledMoves DEF SamePlaces, Linking, Linked, Taking, Moves, Threads, Still, StillNodes, locals
  <2> QED BY <2>1, <2>2, ReaderKept
<1>2. CASE AddFull
  <2>1. /\ RacyTypes' /\ UNCHANGED <<nodes, mine, sent, expected>>
        /\ q'.first = q.first /\ ptr'["reader"] = ptr["reader"]
    BY <1>0, <1>2, AddFullMoves DEF Still, StillNodes, locals, checks
  <2>2. SamePlaces
    BY <1>0, <1>2, AddFullMoves DEF SamePlaces, Linking, Linked, Taking, Moves, Threads, Still, StillNodes, locals
  <2> QED BY <2>1, <2>2, ReaderKept
<1>3. CASE AddNoMemory
  <2>1. /\ RacyTypes' /\ UNCHANGED <<nodes, mine, sent, expected>>
        /\ q'.first = q.first /\ ptr'["reader"] = ptr["reader"]
    BY <1>0, <1>3, AddNoMemoryMoves DEF Still, StillNodes, locals, checks
  <2>2. SamePlaces
    BY <1>0, <1>3, AddNoMemoryMoves DEF SamePlaces, Linking, Linked, Taking, Moves, Threads, Still, StillNodes, locals
  <2> QED BY <2>1, <2>2, ReaderKept
<1>4. CASE AddEmpty
  <2>1. /\ RacyTypes' /\ UNCHANGED <<nodes, mine, sent, expected>>
        /\ q'.first = q.first /\ ptr'["reader"] = ptr["reader"]
    BY <1>0, <1>4, AddEmptyMoves DEF Still, StillNodes, locals, checks
  <2>2. SamePlaces
    BY <1>0, <1>4, AddEmptyMoves DEF SamePlaces, Linking, Linked, Taking, Moves, Threads, Still, StillNodes, locals
  <2> QED BY <2>1, <2>2, ReaderKept
<1>5. CASE AddOnlyLast
  <2>1. /\ RacyTypes' /\ UNCHANGED <<nodes, mine, sent, expected>>
        /\ q'.first = q.first /\ ptr'["reader"] = ptr["reader"]
    BY <1>0, <1>5, AddOnlyLastMoves DEF Still, StillNodes, locals, checks
  <2>2. SamePlaces
    BY <1>0, <1>5, AddOnlyLastMoves DEF SamePlaces, Linking, Linked, Taking, Moves, Threads, Still, StillNodes, locals
  <2> QED BY <2>1, <2>2, ReaderKept
<1>6. CASE AddHasLast
  <2>1. /\ RacyTypes' /\ UNCHANGED <<nodes, mine, sent, expected>>
        /\ q'.first = q.first /\ ptr'["reader"] = ptr["reader"]
    BY <1>0, <1>6, AddHasLastMoves DEF Still, StillNodes, locals, checks
  <2>2. SamePlaces
    BY <1>0, <1>6, AddHasLastMoves DEF SamePlaces, Linking, Linked, Taking, Moves, Threads, Still, StillNodes, locals
  <2> QED BY <2>1, <2>2, ReaderKept
<1>7. CASE AddLoadTail
  <2>1. /\ RacyTypes' /\ UNCHANGED <<nodes, mine, sent, expected>>
        /\ q'.first = q.first /\ ptr'["reader"] = ptr["reader"]
    BY <1>0, <1>7, AddLoadTailMoves DEF Still, StillNodes, locals, checks
  <2>2. SamePlaces
    BY <1>0, <1>7, AddLoadTailMoves DEF SamePlaces, Linking, Linked, Taking, Moves, Threads, Still, StillNodes, locals
  <2> QED BY <2>1, <2>2, ReaderKept
<1>8. CASE AddSetLast
  <2>1. /\ RacyTypes' /\ UNCHANGED <<nodes, mine, sent, expected>>
        /\ q'.first = q.first /\ ptr'["reader"] = ptr["reader"]
    BY <1>0, <1>8, AddSetLastMoves DEF Still, StillNodes, locals, checks
  <2>2. SamePlaces
    BY <1>0, <1>8, AddSetLastMoves DEF SamePlaces, Linking, Linked, Taking, Moves, Threads, Still, StillNodes, locals
  <2> QED BY <2>1, <2>2, ReaderKept
<1>9. CASE AddStillFirst
  <2>1. /\ RacyTypes' /\ UNCHANGED <<nodes, mine, sent, expected>>
        /\ q'.first = q.first /\ ptr'["reader"] = ptr["reader"]
    BY <1>0, <1>9, AddStillFirstMoves DEF Still, StillNodes, locals, checks
  <2>2. SamePlaces
    BY <1>0, <1>9, AddStillFirstMoves DEF SamePlaces, Linking, Linked, Taking, Moves, Threads, Still, StillNodes, locals
  <2> QED BY <2>1, <2>2, ReaderKept
<1>10. CASE AddLoadFirst
  <2>1. /\ RacyTypes' /\ UNCHANGED <<nodes, mine, sent, expected>>
        /\ q'.first = q.first /\ ptr'["reader"] = ptr["reader"]
    BY <1>0, <1>10, AddLoadFirstMoves DEF Still, StillNodes, locals, checks
  <2>2. SamePlaces
    BY <1>0, <1>10, AddLoadFirstMoves DEF SamePlaces, Linking, Linked, Taking, Moves, Threads, Still, StillNodes, locals
  <2> QED BY <2>1, <2>2, ReaderKept
<1>11. CASE AddOneNode
  <2>1. /\ RacyTypes' /\ UNCHANGED <<nodes, mine, sent, expected>>
        /\ q'.first = q.first /\ ptr'["reader"] = ptr["reader"]
    BY <1>0, <1>11, AddOneNodeMoves DEF Still, StillNodes, locals, checks
  <2>2. SamePlaces
    BY <1>0, <1>11, AddOneNodeMoves DEF SamePlaces, Linking, Linked, Taking, Moves, Threads, Still, StillNodes, locals
  <2> QED BY <2>1, <2>2, ReaderKept
<1>12. CASE AddLoadRepair
  <2>1. /\ RacyTypes' /\ UNCHANGED <<nodes, mine, sent, expected>>
        /\ q'.first = q.first /\ ptr'["reader"] = ptr["reader"]
    BY <1>0, <1>12, AddLoadRepairMoves DEF Still, StillNodes, locals, checks
  <2>2. SamePlaces
    BY <1>0, <1>12, AddLoadRepairMoves DEF SamePlaces, Linking, Linked, Taking, Moves, Threads, Still, StillNodes, locals
  <2> QED BY <2>1, <2>2, ReaderKept
<1>13. CASE AddLoadCount
  <2>1. /\ RacyTypes' /\ UNCHANGED <<nodes, mine, sent, expected>>
        /\ q'.first = q.first /\ ptr'["reader"] = ptr["reader"]
    BY <1>0, <1>13, AddLoadCountMoves DEF Still, StillNodes, locals, checks
  <2>2. SamePlaces
    BY <1>0, <1>13, AddLoadCountMoves DEF SamePlaces, Linking, Linked, Taking, Moves, Threads, Still, StillNodes, locals
  <2> QED BY <2>1, <2>2, ReaderKept
<1>14. CASE AddStoreCount
  <2>1. /\ RacyTypes' /\ UNCHANGED <<nodes, mine, sent, expected>>
        /\ q'.first = q.first /\ ptr'["reader"] = ptr["reader"]
    BY <1>0, <1>14, AddStoreCountMoves DEF Still, StillNodes, locals, checks
  <2>2. SamePlaces
    BY <1>0, <1>14, AddStoreCountMoves DEF SamePlaces, Linking, Linked, Taking, Moves, Threads, Still, StillNodes, locals
  <2> QED BY <2>1, <2>2, ReaderKept
<1>15. CASE GetCalled
  <2>1. /\ RacyTypes' /\ UNCHANGED <<nodes, mine, sent, expected>>
        /\ q'.first = q.first /\ ptr'["reader"] = ptr["reader"]
    BY <1>0, <1>15, GetCalledMoves DEF Still, StillNodes, locals, checks
  <2>2. SamePlaces
    BY <1>0, <1>00, <1>15, GetCalledMoves DEF SamePlaces, Linking, Linked, Taking, Moves, Threads, Still, StillNodes, locals
  <2> QED BY <2>1, <2>2, ReaderKept
<1>16. CASE GetCountTest
  <2>1. /\ RacyTypes' /\ UNCHANGED <<nodes, mine, sent, expected>>
        /\ q'.first = q.first /\ ptr'["reader"] = ptr["reader"]
    BY <1>0, <1>16, GetCountTestMoves DEF Still, StillNodes, locals, checks
  <2>2. SamePlaces
    BY <1>0, <1>00, <1>16, GetCountTestMoves DEF SamePlaces, Linking, Linked, Taking, Moves, Threads, Still, StillNodes, locals
  <2> QED BY <2>1, <2>2, ReaderKept
<1>17. CASE GetFirstTest
  <2>1. /\ RacyTypes' /\ UNCHANGED <<nodes, mine, sent, expected>>
        /\ q'.first = q.first /\ ptr'["reader"] = ptr["reader"]
    BY <1>0, <1>17, GetFirstTestMoves DEF Still, StillNodes, locals, checks
  <2>2. SamePlaces
    BY <1>0, <1>00, <1>17, GetFirstTestMoves DEF SamePlaces, Linking, Linked, Taking, Moves, Threads, Still, StillNodes, locals
  <2> QED BY <2>1, <2>2, ReaderKept
<1>18. CASE GetZeroTest
  <2>1. /\ RacyTypes' /\ UNCHANGED <<nodes, mine, sent, expected>>
        /\ q'.first = q.first /\ ptr'["reader"] = ptr["reader"]
    BY <1>0, <1>18, GetZeroTestMoves DEF Still, StillNodes, locals, checks
  <2>2. SamePlaces
    BY <1>0, <1>00, <1>18, GetZeroTestMoves DEF SamePlaces, Linking, Linked, Taking, Moves, Threads, Still, StillNodes, locals
  <2> QED BY <2>1, <2>2, ReaderKept
<1>19. CASE GetEmptyTest
  <2>1. /\ RacyTypes' /\ UNCHANGED <<nodes, mine, sent, expected>>
        /\ q'.first = q.first /\ ptr'["reader"] = ptr["reader"]
    BY <1>0, <1>19, GetEmptyTestMoves DEF Still, StillNodes, locals, checks
  <2>2. SamePlaces
    BY <1>0, <1>00, <1>19, GetEmptyTestMoves DEF SamePlaces, Linking, Linked, Taking, Moves, Threads, Still, StillNodes, locals
  <2> QED BY <2>1, <2>2, ReaderKept
<1>20. CASE GetClearLast
  <2>1. /\ RacyTypes' /\ UNCHANGED <<nodes, mine, sent, expected>>
        /\ q'.first = q.first /\ ptr'["reader"] = ptr["reader"]
    BY <1>0, <1>20, GetClearLastMoves DEF Still, StillNodes, locals, checks
  <2>2. SamePlaces
    BY <1>0, <1>00, <1>20, GetClearLastMoves DEF SamePlaces, Linking, Linked, Taking, Moves, Threads, Still, StillNodes, locals
  <2> QED BY <2>1, <2>2, ReaderKept
<1>21. CASE GetPositive
  <2>1. /\ RacyTypes' /\ UNCHANGED <<nodes, mine, sent, expected>>
        /\ q'.first = q.first /\ ptr'["reader"] = ptr["reader"]
    BY <1>0, <1>21, GetPositiveMoves DEF Still, StillNodes, locals, checks
  <2>2. SamePlaces
    BY <1>0, <1>00, <1>21, GetPositiveMoves DEF SamePlaces, Linking, Linked, Taking, Moves, Threads, Still, StillNodes, locals
  <2> QED BY <2>1, <2>2, ReaderKept
<1>22. CASE GetLoadCount
  <2>1. /\ RacyTypes' /\ UNCHANGED <<nodes, mine, sent, expected>>
        /\ q'.first = q.first /\ ptr'["reader"] = ptr["reader"]
    BY <1>0, <1>22, GetLoadCountMoves DEF Still, StillNodes, locals, checks
  <2>2. SamePlaces
    BY <1>0, <1>00, <1>22, GetLoadCountMoves DEF SamePlaces, Linking, Linked, Taking, Moves, Threads, Still, StillNodes, locals
  <2> QED BY <2>1, <2>2, ReaderKept
<1>23. CASE GetStoreCount
  <2>1. /\ RacyTypes' /\ UNCHANGED <<nodes, mine, sent, expected>>
        /\ q'.first = q.first /\ ptr'["reader"] = ptr["reader"]
    BY <1>0, <1>23, GetStoreCountMoves DEF Still, StillNodes, locals, checks
  <2>2. SamePlaces
    BY <1>0, <1>00, <1>23, GetStoreCountMoves DEF SamePlaces, Linking, Linked, Taking, Moves, Threads, Still, StillNodes, locals
  <2> QED BY <2>1, <2>2, ReaderKept
<1>24. CASE GetReturn
  <2>1. /\ RacyTypes' /\ UNCHANGED <<nodes, mine, sent, expected>>
        /\ q'.first = q.first /\ ptr'["reader"] = ptr["reader"]
    BY <1>0, <1>24, GetReturnMoves DEF Still, StillNodes, locals, checks
  <2>2. SamePlaces
    BY <1>0, <1>00, <1>24, GetReturnMoves DEF SamePlaces, Linking, Linked, Taking, Moves, Threads, Still, StillNodes, locals
  <2> QED BY <2>1, <2>2, ReaderKept
<1>25. CASE AddMalloc
  BY <1>25, ReaderMalloc
<1>26. CASE AddOnlyFirst
  BY <1>26, ReaderOnlyFirst
<1>27. CASE GetLoadFirst
  BY <1>27, ReaderLoadFirst
<1>28. CASE GetLoadNode
  BY <1>28, ReaderLoadNode
<1>29. CASE GetMove
  BY <1>29, ReaderMoves
<1>30. CASE GetFree("positive?")
  BY <1>30, ReaderFrees
<1>31. CASE AddReturn
  BY <1>31, ReaderReturn
<1>32. CASE AddLinkTail
  <2>1. CASE LinkNew("tail2", "settail")
    BY <2>1, ReaderLinks
  <2>2. CASE LinkCrash("tail2")
    <3>1. RacyTypes' /\ Moves("writer", "tail2", "tail2") /\ UNCHANGED <<q, nodes, locals, checks>>
      BY <1>0, <2>2, Ends DEF LinkCrash, Threads
    <3> QED BY <3>1, ReaderEnds DEF Moves, Threads, locals, checks
  <2> QED BY <1>32, <2>1, <2>2 DEF AddLinkTail
<1>33. CASE AddLinkRepair
  <2>1. CASE LinkNew("repair2", "settail")
    BY <2>1, ReaderLinks
  <2>2. CASE LinkCrash("repair2")
    <3>1. RacyTypes' /\ Moves("writer", "repair2", "repair2") /\ UNCHANGED <<q, nodes, locals, checks>>
      BY <1>0, <2>2, Ends DEF LinkCrash, Threads
    <3> QED BY <3>1, ReaderEnds DEF Moves, Threads, locals, checks
  <2> QED BY <1>33, <2>1, <2>2 DEF AddLinkRepair
<1> QED BY <1>1, <1>2, <1>3, <1>4, <1>5, <1>6, <1>7, <1>8, <1>9, <1>10, <1>11, <1>12, <1>13, <1>14, <1>15, <1>16, <1>17, <1>18, <1>19, <1>20, <1>21, <1>22, <1>23, <1>24, <1>25, <1>26, <1>27, <1>28, <1>29, <1>30, <1>31, <1>32, <1>33 DEF Next, Add, Get

-----------------------------------------------------------------------------
(* The steps of the first version, in the terms of the second.             *)
LEMMA SharedSteps ==
  /\ First!AddCalled <=> AddCalled
  /\ First!AddFull <=> AddFull
  /\ First!AddMalloc <=> AddMalloc
  /\ First!AddNoMemory <=> AddNoMemory
  /\ First!AddOnlyLast <=> AddOnlyLast
  /\ First!AddOnlyFirst <=> AddOnlyFirst
  /\ First!AddLoadTail <=> AddLoadTail
  /\ First!AddLoadCount <=> AddLoadCount
  /\ First!AddStoreCount <=> AddStoreCount
  /\ First!AddReturn <=> AddReturn
  /\ First!GetCalled <=> GetCalled
  /\ First!GetLoadCount <=> GetLoadCount
  /\ First!GetStoreCount <=> GetStoreCount
<1>1. First!AddCalled <=> AddCalled
  BY DEF AddCalled, First!AddCalled, Go, Call, Test, Store, Load, LoadCount, End, LinkNew, LinkCrash, GetSetFirst, GetCheck, nodes, locals, checks, First!Go, First!Call, First!Test, First!Store, First!Load, First!LoadCount, First!End, First!LinkNew, First!LinkCrash, First!GetSetFirst, First!GetCheck, First!nodes, First!locals, First!checks
<1>2. First!AddFull <=> AddFull
  BY DEF AddFull, First!AddFull, Go, Call, Test, Store, Load, LoadCount, End, LinkNew, LinkCrash, GetSetFirst, GetCheck, nodes, locals, checks, First!Go, First!Call, First!Test, First!Store, First!Load, First!LoadCount, First!End, First!LinkNew, First!LinkCrash, First!GetSetFirst, First!GetCheck, First!nodes, First!locals, First!checks
<1>3. First!AddMalloc <=> AddMalloc
  BY DEF AddMalloc, First!AddMalloc, Go, Call, Test, Store, Load, LoadCount, End, LinkNew, LinkCrash, GetSetFirst, GetCheck, nodes, locals, checks, First!Go, First!Call, First!Test, First!Store, First!Load, First!LoadCount, First!End, First!LinkNew, First!LinkCrash, First!GetSetFirst, First!GetCheck, First!nodes, First!locals, First!checks
<1>4. First!AddNoMemory <=> AddNoMemory
  BY DEF AddNoMemory, First!AddNoMemory, Go, Call, Test, Store, Load, LoadCount, End, LinkNew, LinkCrash, GetSetFirst, GetCheck, nodes, locals, checks, First!Go, First!Call, First!Test, First!Store, First!Load, First!LoadCount, First!End, First!LinkNew, First!LinkCrash, First!GetSetFirst, First!GetCheck, First!nodes, First!locals, First!checks
<1>5. First!AddOnlyLast <=> AddOnlyLast
  BY DEF AddOnlyLast, First!AddOnlyLast, Go, Call, Test, Store, Load, LoadCount, End, LinkNew, LinkCrash, GetSetFirst, GetCheck, nodes, locals, checks, First!Go, First!Call, First!Test, First!Store, First!Load, First!LoadCount, First!End, First!LinkNew, First!LinkCrash, First!GetSetFirst, First!GetCheck, First!nodes, First!locals, First!checks
<1>6. First!AddOnlyFirst <=> AddOnlyFirst
  BY DEF AddOnlyFirst, First!AddOnlyFirst, Go, Call, Test, Store, Load, LoadCount, End, LinkNew, LinkCrash, GetSetFirst, GetCheck, nodes, locals, checks, First!Go, First!Call, First!Test, First!Store, First!Load, First!LoadCount, First!End, First!LinkNew, First!LinkCrash, First!GetSetFirst, First!GetCheck, First!nodes, First!locals, First!checks
<1>7. First!AddLoadTail <=> AddLoadTail
  BY DEF AddLoadTail, First!AddLoadTail, Go, Call, Test, Store, Load, LoadCount, End, LinkNew, LinkCrash, GetSetFirst, GetCheck, nodes, locals, checks, First!Go, First!Call, First!Test, First!Store, First!Load, First!LoadCount, First!End, First!LinkNew, First!LinkCrash, First!GetSetFirst, First!GetCheck, First!nodes, First!locals, First!checks
<1>8. First!AddLoadCount <=> AddLoadCount
  BY DEF AddLoadCount, First!AddLoadCount, Go, Call, Test, Store, Load, LoadCount, End, LinkNew, LinkCrash, GetSetFirst, GetCheck, nodes, locals, checks, First!Go, First!Call, First!Test, First!Store, First!Load, First!LoadCount, First!End, First!LinkNew, First!LinkCrash, First!GetSetFirst, First!GetCheck, First!nodes, First!locals, First!checks
<1>9. First!AddStoreCount <=> AddStoreCount
  BY DEF AddStoreCount, First!AddStoreCount, Go, Call, Test, Store, Load, LoadCount, End, LinkNew, LinkCrash, GetSetFirst, GetCheck, nodes, locals, checks, First!Go, First!Call, First!Test, First!Store, First!Load, First!LoadCount, First!End, First!LinkNew, First!LinkCrash, First!GetSetFirst, First!GetCheck, First!nodes, First!locals, First!checks
<1>10. First!AddReturn <=> AddReturn
  BY DEF AddReturn, First!AddReturn, Go, Call, Test, Store, Load, LoadCount, End, LinkNew, LinkCrash, GetSetFirst, GetCheck, nodes, locals, checks, First!Go, First!Call, First!Test, First!Store, First!Load, First!LoadCount, First!End, First!LinkNew, First!LinkCrash, First!GetSetFirst, First!GetCheck, First!nodes, First!locals, First!checks
<1>11. First!GetCalled <=> GetCalled
  BY DEF GetCalled, First!GetCalled, Go, Call, Test, Store, Load, LoadCount, End, LinkNew, LinkCrash, GetSetFirst, GetCheck, nodes, locals, checks, First!Go, First!Call, First!Test, First!Store, First!Load, First!LoadCount, First!End, First!LinkNew, First!LinkCrash, First!GetSetFirst, First!GetCheck, First!nodes, First!locals, First!checks
<1>12. First!GetLoadCount <=> GetLoadCount
  BY DEF GetLoadCount, First!GetLoadCount, Go, Call, Test, Store, Load, LoadCount, End, LinkNew, LinkCrash, GetSetFirst, GetCheck, nodes, locals, checks, First!Go, First!Call, First!Test, First!Store, First!Load, First!LoadCount, First!End, First!LinkNew, First!LinkCrash, First!GetSetFirst, First!GetCheck, First!nodes, First!locals, First!checks
<1>13. First!GetStoreCount <=> GetStoreCount
  BY DEF GetStoreCount, First!GetStoreCount, Go, Call, Test, Store, Load, LoadCount, End, LinkNew, LinkCrash, GetSetFirst, GetCheck, nodes, locals, checks, First!Go, First!Call, First!Test, First!Store, First!Load, First!LoadCount, First!End, First!LinkNew, First!LinkCrash, First!GetSetFirst, First!GetCheck, First!nodes, First!locals, First!checks
<1> QED BY <1>1, <1>2, <1>3, <1>4, <1>5, <1>6, <1>7, <1>8, <1>9, <1>10, <1>11, <1>12, <1>13

LEMMA FirstSteps ==
  /\ First!AddEmpty <=>
       (Test("writer", "empty?", q.first = NULL, "only", "tail"))
  /\ First!AddLinkTail <=>
       (LinkNew("tail2", "last") \/ LinkCrash("tail2"))
  /\ First!AddLoadLast <=>
       (Load("writer", "last", "last2", q.last))
  /\ First!AddSetLast <=>
       (Store("writer", "settail", "count", "last", ptr["writer"]))
  /\ First!GetCountTest <=>
       (Test("reader", "count?", q.count = 0, "idle", "tmp"))
  /\ First!GetLoadFirst <=>
       (Takes("tmp", "val"))
  /\ First!GetReloadFirst <=>
       (Load("reader", "first", "next", q.first))
  /\ First!GetMove <=>
       (Store("reader", "move", "free", "first", ptr["reader"]))
  /\ First!GetFree("count") <=>
       (GetFree("count"))
  /\ First!GetReturn <=>
       (Store("reader", "got", "idle", "get_count", q.get_count + 1))
  /\ First!AddLoadNext <=>
       (\/ ptr["writer"] \in Node /\ Load("writer", "last2", "settail", next[ptr["writer"]])
        \/ LinkCrash("last2"))
  /\ First!GetLoadNext <=>
       (\/ ptr["reader"] \in Node /\ Load("reader", "next", "move", next[ptr["reader"]])
        \/ ptr["reader"] \notin Node /\ End("reader", "next"))
  /\ First!GetLoadVal <=>
       (\/ /\ mine["reader"] \in Node /\ Go("reader", "val", "first")
           /\ GetCheck /\ UNCHANGED <<q, nodes, locals, sent, crashed, overlapped>>
        \/ mine["reader"] \notin Node /\ End("reader", "val"))
<1>1. First!AddEmpty <=>
       (Test("writer", "empty?", q.first = NULL, "only", "tail"))
  BY DEF First!AddEmpty, Go, Call, Test, Store, Load, LoadCount, End, LinkNew, LinkCrash, GetSetFirst, GetCheck, nodes, locals, checks, First!Go, First!Call, First!Test, First!Store, First!Load, First!LoadCount, First!End, First!LinkNew, First!LinkCrash, First!GetSetFirst, First!GetCheck, First!nodes, First!locals, First!checks
<1>2. First!AddLinkTail <=>
       (LinkNew("tail2", "last") \/ LinkCrash("tail2"))
  BY DEF First!AddLinkTail, Go, Call, Test, Store, Load, LoadCount, End, LinkNew, LinkCrash, GetSetFirst, GetCheck, nodes, locals, checks, First!Go, First!Call, First!Test, First!Store, First!Load, First!LoadCount, First!End, First!LinkNew, First!LinkCrash, First!GetSetFirst, First!GetCheck, First!nodes, First!locals, First!checks
<1>3. First!AddLoadLast <=>
       (Load("writer", "last", "last2", q.last))
  BY DEF First!AddLoadLast, Go, Call, Test, Store, Load, LoadCount, End, LinkNew, LinkCrash, GetSetFirst, GetCheck, nodes, locals, checks, First!Go, First!Call, First!Test, First!Store, First!Load, First!LoadCount, First!End, First!LinkNew, First!LinkCrash, First!GetSetFirst, First!GetCheck, First!nodes, First!locals, First!checks
<1>4. First!AddSetLast <=>
       (Store("writer", "settail", "count", "last", ptr["writer"]))
  BY DEF First!AddSetLast, Go, Call, Test, Store, Load, LoadCount, End, LinkNew, LinkCrash, GetSetFirst, GetCheck, nodes, locals, checks, First!Go, First!Call, First!Test, First!Store, First!Load, First!LoadCount, First!End, First!LinkNew, First!LinkCrash, First!GetSetFirst, First!GetCheck, First!nodes, First!locals, First!checks
<1>5. First!GetCountTest <=>
       (Test("reader", "count?", q.count = 0, "idle", "tmp"))
  BY DEF First!GetCountTest, Go, Call, Test, Store, Load, LoadCount, End, LinkNew, LinkCrash, GetSetFirst, GetCheck, nodes, locals, checks, First!Go, First!Call, First!Test, First!Store, First!Load, First!LoadCount, First!End, First!LinkNew, First!LinkCrash, First!GetSetFirst, First!GetCheck, First!nodes, First!locals, First!checks
<1>6. First!GetLoadFirst <=>
       (Takes("tmp", "val"))
  BY DEF First!GetLoadFirst, Takes, Go, Call, Test, Store, Load, LoadCount, End, LinkNew, LinkCrash, GetSetFirst, GetCheck, nodes, locals, checks, First!Go, First!Call, First!Test, First!Store, First!Load, First!LoadCount, First!End, First!LinkNew, First!LinkCrash, First!GetSetFirst, First!GetCheck, First!nodes, First!locals, First!checks
<1>7. First!GetReloadFirst <=>
       (Load("reader", "first", "next", q.first))
  BY DEF First!GetReloadFirst, Go, Call, Test, Store, Load, LoadCount, End, LinkNew, LinkCrash, GetSetFirst, GetCheck, nodes, locals, checks, First!Go, First!Call, First!Test, First!Store, First!Load, First!LoadCount, First!End, First!LinkNew, First!LinkCrash, First!GetSetFirst, First!GetCheck, First!nodes, First!locals, First!checks
<1>8. First!GetMove <=>
       (Store("reader", "move", "free", "first", ptr["reader"]))
  BY DEF First!GetMove, Go, Call, Test, Store, Load, LoadCount, End, LinkNew, LinkCrash, GetSetFirst, GetCheck, nodes, locals, checks, First!Go, First!Call, First!Test, First!Store, First!Load, First!LoadCount, First!End, First!LinkNew, First!LinkCrash, First!GetSetFirst, First!GetCheck, First!nodes, First!locals, First!checks
<1>9. First!GetFree("count") <=>
       (GetFree("count"))
  BY DEF First!GetFree, GetFree, Go, Call, Test, Store, Load, LoadCount, End, LinkNew, LinkCrash, GetSetFirst, GetCheck, nodes, locals, checks, First!Go, First!Call, First!Test, First!Store, First!Load, First!LoadCount, First!End, First!LinkNew, First!LinkCrash, First!GetSetFirst, First!GetCheck, First!nodes, First!locals, First!checks
<1>10. First!GetReturn <=>
       (Store("reader", "got", "idle", "get_count", q.get_count + 1))
  BY DEF First!GetReturn, Go, Call, Test, Store, Load, LoadCount, End, LinkNew, LinkCrash, GetSetFirst, GetCheck, nodes, locals, checks, First!Go, First!Call, First!Test, First!Store, First!Load, First!LoadCount, First!End, First!LinkNew, First!LinkCrash, First!GetSetFirst, First!GetCheck, First!nodes, First!locals, First!checks
<1>11. First!AddLoadNext <=>
       (\/ ptr["writer"] \in Node /\ Load("writer", "last2", "settail", next[ptr["writer"]])
        \/ LinkCrash("last2"))
  BY DEF First!AddLoadNext, Go, Call, Test, Store, Load, LoadCount, End, LinkNew, LinkCrash, GetSetFirst, GetCheck, nodes, locals, checks, First!Go, First!Call, First!Test, First!Store, First!Load, First!LoadCount, First!End, First!LinkNew, First!LinkCrash, First!GetSetFirst, First!GetCheck, First!nodes, First!locals, First!checks
<1>12. First!GetLoadNext <=>
       (\/ ptr["reader"] \in Node /\ Load("reader", "next", "move", next[ptr["reader"]])
        \/ ptr["reader"] \notin Node /\ End("reader", "next"))
  BY DEF First!GetLoadNext, Go, Call, Test, Store, Load, LoadCount, End, LinkNew, LinkCrash, GetSetFirst, GetCheck, nodes, locals, checks, First!Go, First!Call, First!Test, First!Store, First!Load, First!LoadCount, First!End, First!LinkNew, First!LinkCrash, First!GetSetFirst, First!GetCheck, First!nodes, First!locals, First!checks
<1>13. First!GetLoadVal <=>
       (\/ /\ mine["reader"] \in Node /\ Go("reader", "val", "first")
           /\ GetCheck /\ UNCHANGED <<q, nodes, locals, sent, crashed, overlapped>>
        \/ mine["reader"] \notin Node /\ End("reader", "val"))
  BY DEF First!GetLoadVal, Go, Call, Test, Store, Load, LoadCount, End, LinkNew, LinkCrash, GetSetFirst, GetCheck, nodes, locals, checks, First!Go, First!Call, First!Test, First!Store, First!Load, First!LoadCount, First!End, First!LinkNew, First!LinkCrash, First!GetSetFirst, First!GetCheck, First!nodes, First!locals, First!checks
<1> QED BY <1>1, <1>2, <1>3, <1>4, <1>5, <1>6, <1>7, <1>8, <1>9, <1>10, <1>11, <1>12, <1>13

LEMMA FirstAddEmptyMoves ==
  ASSUME RacyTypes, First!AddEmpty
  PROVE  /\ RacyTypes' /\ Still
         /\ q.first = NULL => Moves("writer", "empty?", "only")
         /\ q.first # NULL => Moves("writer", "empty?", "tail")
BY FirstSteps, Tests DEF Still, Threads

LEMMA FirstAddLinkTailMoves ==
  ASSUME RacyTypes, First!AddLinkTail
  PROVE  /\ RacyTypes'
         /\ \/ /\ Moves("writer", "tail2", "last")
               /\ UNCHANGED <<q, val, heap, locals, checks, crashed, overlapped>>
               /\ ptr["writer"] \in Node /\ next'[ptr["writer"]] = mine["writer"]
               /\ \A n \in Node : n # ptr["writer"] => next'[n] = next[n]
            \/ /\ Moves("writer", "tail2", "tail2") /\ ptr["writer"] \notin Node /\ crashed' = "tail2"
               /\ UNCHANGED <<q, nodes, locals, checks, overlapped>>
BY FirstSteps, Links, Ends DEF LinkCrash, Threads

LEMMA FirstAddLoadLastMoves ==
  ASSUME RacyTypes, First!AddLoadLast
  PROVE  /\ RacyTypes' /\ Moves("writer", "last", "last2")
         /\ UNCHANGED <<q, nodes, mine, num, checks, crashed, overlapped>>
         /\ ptr'["writer"] = q.last /\ ptr'["reader"] = ptr["reader"]
BY FirstSteps, Loads DEF Threads

LEMMA FirstAddLoadNextMoves ==
  ASSUME RacyTypes, First!AddLoadNext
  PROVE  /\ RacyTypes' /\ UNCHANGED <<q, nodes, mine, num, checks, overlapped>>
         /\ \/ /\ Moves("writer", "last2", "settail") /\ ptr["writer"] \in Node /\ crashed' = crashed
               /\ ptr'["writer"] = next[ptr["writer"]] /\ ptr'["reader"] = ptr["reader"]
            \/ /\ Moves("writer", "last2", "last2") /\ ptr["writer"] \notin Node /\ crashed' = "last2"
               /\ ptr' = ptr
<1>1. CASE LinkCrash("last2")
  BY <1>1, Ends DEF LinkCrash, Threads, locals
<1>2. CASE ptr["writer"] \in Node /\ Load("writer", "last2", "settail", next[ptr["writer"]])
  BY <1>2, Loads DEF Threads
<1> QED BY <1>1, <1>2, FirstSteps

LEMMA FirstAddSetLastMoves ==
  ASSUME RacyTypes, First!AddSetLast
  PROVE  /\ RacyTypes' /\ Moves("writer", "settail", "count") /\ StillNodes
         /\ q'.first = q.first /\ q'.last = ptr["writer"] /\ q'.count = q.count
         /\ q'.add_count = q.add_count /\ q'.get_count = q.get_count
BY FirstSteps, Stores DEF StillNodes, Threads

LEMMA FirstGetCountTestMoves ==
  ASSUME RacyTypes, First!GetCountTest
  PROVE  /\ RacyTypes' /\ Still
         /\ q.count = 0 => Moves("reader", "count?", "idle")
         /\ q.count # 0 => Moves("reader", "count?", "tmp")
BY FirstSteps, Tests DEF Still, Threads

LEMMA FirstGetLoadFirstMoves ==
  ASSUME RacyTypes, First!GetLoadFirst
  PROVE  /\ RacyTypes' /\ Moves("reader", "tmp", "val")
         /\ UNCHANGED <<q, nodes, ptr, num, checks, crashed, overlapped>>
         /\ mine'["reader"] = q.first /\ mine'["writer"] = mine["writer"]
BY FirstSteps, TakesFirst

LEMMA FirstGetLoadValMoves ==
  ASSUME RacyTypes, First!GetLoadVal
  PROVE  /\ RacyTypes' /\ UNCHANGED <<q, nodes, locals, sent, overlapped>>
         /\ \/ /\ Moves("reader", "val", "first") /\ mine["reader"] \in Node /\ crashed' = crashed
               /\ GetCheck
            \/ /\ Moves("reader", "val", "val") /\ mine["reader"] \notin Node /\ crashed' = "val"
               /\ UNCHANGED checks
<1>1. CASE mine["reader"] \notin Node /\ End("reader", "val")
  BY <1>1, Ends DEF Threads, checks
<1>2. CASE /\ mine["reader"] \in Node /\ Go("reader", "val", "first")
           /\ GetCheck /\ UNCHANGED <<q, nodes, locals, sent, crashed, overlapped>>
  <2>1. Moves("reader", "val", "first") /\ (pc = [u \in Threads |-> pc[u]])'
    BY <1>2, GoMoves DEF Threads
  <2> QED BY <2>1, <1>2 DEF RacyTypes, Queue, nodes, locals
<1> QED BY <1>1, <1>2, FirstSteps

LEMMA FirstGetReloadFirstMoves ==
  ASSUME RacyTypes, First!GetReloadFirst
  PROVE  /\ RacyTypes' /\ Moves("reader", "first", "next")
         /\ UNCHANGED <<q, nodes, mine, num, checks, crashed, overlapped>>
         /\ ptr'["reader"] = q.first /\ ptr'["writer"] = ptr["writer"]
BY FirstSteps, Loads DEF Threads

LEMMA FirstGetLoadNextMoves ==
  ASSUME RacyTypes, First!GetLoadNext
  PROVE  /\ RacyTypes' /\ UNCHANGED <<q, nodes, mine, num, checks, overlapped>>
         /\ \/ /\ Moves("reader", "next", "move") /\ ptr["reader"] \in Node /\ crashed' = crashed
               /\ ptr'["reader"] = next[ptr["reader"]] /\ ptr'["writer"] = ptr["writer"]
            \/ /\ Moves("reader", "next", "next") /\ ptr["reader"] \notin Node /\ crashed' = "next"
               /\ ptr' = ptr
<1>1. CASE ptr["reader"] \notin Node /\ End("reader", "next")
  BY <1>1, Ends DEF Threads, locals
<1>2. CASE ptr["reader"] \in Node /\ Load("reader", "next", "move", next[ptr["reader"]])
  BY <1>2, Loads DEF Threads
<1> QED BY <1>1, <1>2, FirstSteps

LEMMA FirstGetMoveMoves ==
  ASSUME RacyTypes, First!GetMove
  PROVE  /\ RacyTypes' /\ Moves("reader", "move", "free") /\ StillNodes
         /\ q'.first = ptr["reader"] /\ q'.last = q.last /\ q'.count = q.count
         /\ q'.add_count = q.add_count /\ q'.get_count = q.get_count
BY FirstSteps, Stores DEF StillNodes, Threads

LEMMA FirstGetReturnMoves ==
  ASSUME RacyTypes, First!GetReturn
  PROVE  /\ RacyTypes' /\ Moves("reader", "got", "idle") /\ StillNodes
         /\ q'.first = q.first /\ q'.last = q.last /\ q'.count = q.count
         /\ q'.add_count = q.add_count /\ q'.get_count = q.get_count + 1
BY FirstSteps, Stores DEF StillNodes, Threads

LEMMA FirstCounts ==
  ASSUME RacyTypes, CountInv, First!Add \/ First!Get
  PROVE  RacyTypes' /\ CountInv'
<1>1. CASE First!AddEmpty
  BY <1>1, FirstAddEmptyMoves DEF CountInv, Moves, Threads, Room, Sure, Still, StillNodes, locals
<1>2. CASE First!AddLinkTail
  BY <1>2, FirstAddLinkTailMoves DEF CountInv, Moves, Threads, Room, Sure, Still, StillNodes, locals
<1>3. CASE First!AddLoadLast
  BY <1>3, FirstAddLoadLastMoves DEF CountInv, Moves, Threads, Room, Sure, Still, StillNodes, locals
<1>4. CASE First!AddLoadNext
  BY <1>4, FirstAddLoadNextMoves DEF CountInv, Moves, Threads, Room, Sure, Still, StillNodes, locals
<1>5. CASE First!AddSetLast
  BY <1>5, FirstAddSetLastMoves DEF CountInv, Moves, Threads, Room, Sure, Still, StillNodes, locals
<1>6. CASE First!GetLoadFirst
  BY <1>6, FirstGetLoadFirstMoves DEF CountInv, Moves, Threads, Room, Sure, Still, StillNodes, locals
<1>7. CASE First!GetLoadVal
  BY <1>7, FirstGetLoadValMoves DEF CountInv, Moves, Threads, Room, Sure, Still, StillNodes, locals
<1>8. CASE First!GetReloadFirst
  BY <1>8, FirstGetReloadFirstMoves DEF CountInv, Moves, Threads, Room, Sure, Still, StillNodes, locals
<1>9. CASE First!GetLoadNext
  BY <1>9, FirstGetLoadNextMoves DEF CountInv, Moves, Threads, Room, Sure, Still, StillNodes, locals
<1>10. CASE First!GetMove
  BY <1>10, FirstGetMoveMoves DEF CountInv, Moves, Threads, Room, Sure, Still, StillNodes, locals
<1>11. CASE First!GetReturn
  BY <1>11, FirstGetReturnMoves DEF CountInv, Moves, Threads, Room, Sure, Still, StillNodes, locals
<1>12. CASE First!GetFree("count")
  <2>1. RacyTypes' /\ Moves("reader", "free", "count") /\ q' = q /\ num' = num
    BY <1>12, FirstSteps, Frees DEF locals
  <2> QED BY <2>1 DEF CountInv, Moves, Threads, Room, Sure
<1>13. CASE First!GetCountTest
  <2>1. RacyTypes' /\ q' = q /\ num' = num
    BY <1>13, FirstGetCountTestMoves DEF Still, locals
  <2>2. CASE q.count = 0
    BY <1>13, <2>1, <2>2, FirstGetCountTestMoves DEF CountInv, Moves, Threads, Room, Sure
  <2>3. CASE q.count # 0
    <3>1. q.count >= 1
      BY <2>3, BoundAssumption DEF CountInv
    <3>2. pc'["reader"] = "tmp" /\ pc'["writer"] = pc["writer"]
      BY <1>13, <2>3, FirstGetCountTestMoves DEF Moves, Threads
    <3> QED BY <2>1, <3>1, <3>2 DEF CountInv
  <2> QED BY <2>2, <2>3
<1> QED
  BY SharedSteps, CountsShared, <1>1, <1>2, <1>3, <1>4, <1>5, <1>6, <1>7, <1>8, <1>9, <1>10, <1>11, <1>12, <1>13 DEF First!Add, First!Get

-----------------------------------------------------------------------------
(* Calls one at a time: the list as data.                                  *)
\* the nodes of h have the values from lo to hi - 1, one each; from p, which leads to the
\* value from, x leads from each value to the one after it, as far as top - 1
Chained(h, v, x, p, lo, hi, top, from) ==
  /\ lo \in Int /\ hi \in Int /\ top \in Int /\ from \in Int /\ lo =< from /\ from =< top /\ top =< hi
  /\ \A n \in h : v[n] \in lo..hi - 1
  /\ \A k \in lo..hi - 1 : \E n \in h : v[n] = k
  /\ \A m, n \in h : v[m] = v[n] => m = n
  /\ \A n \in h : /\ v[n] < top - 1 => x[n] \in h /\ v[x[n]] = v[n] + 1
                  /\ v[n] >= top - 1 => x[n] = NULL
  /\ from < top => p \in h /\ v[p] = from
  /\ from = top => p = NULL

LEMMA ChainStart == ASSUME NEW v, NEW x PROVE Chained({}, v, x, NULL, 0, 0, 0, 0)
BY DEF Chained

\* malloc
LEMMA ChainGrows ==
  ASSUME NEW h, NEW v, NEW x, NEW p, NEW v2, NEW x2, NEW lo, NEW s, NEW from, NEW n,
         Chained(h, v, x, p, lo, s, s, from), n \notin h, v2[n] = s, x2[n] = NULL,
         \A m \in h : v2[m] = v[m] /\ x2[m] = x[m]
  PROVE  Chained(h \cup {n}, v2, x2, p, lo, s + 1, s, from)
<1>1. /\ lo \in Int /\ s \in Int /\ from \in Int /\ lo =< from /\ from =< s
      /\ \A m \in h : v[m] \in lo..s - 1
      /\ \A k \in lo..s - 1 : \E m \in h : v[m] = k
      /\ \A m, k \in h : v[m] = v[k] => m = k
      /\ \A m \in h : /\ v[m] < s - 1 => x[m] \in h /\ v[x[m]] = v[m] + 1
                      /\ v[m] >= s - 1 => x[m] = NULL
      /\ from < s => p \in h /\ v[p] = from
      /\ from = s => p = NULL
  BY DEF Chained
<1>2. \A m \in h \cup {n} : v2[m] \in lo..s + 1 - 1
  BY <1>1
<1>3. \A k \in lo..s + 1 - 1 : \E m \in h \cup {n} : v2[m] = k
  <2> SUFFICES ASSUME NEW k \in lo..s + 1 - 1 PROVE \E m \in h \cup {n} : v2[m] = k
    OBVIOUS
  <2>1. CASE k = s
    BY <2>1
  <2>2. CASE k # s
    <3>1. k \in lo..s - 1
      BY <1>1, <2>2
    <3> QED BY <1>1, <3>1
  <2> QED BY <2>1, <2>2
<1>4. \A m, k \in h \cup {n} : v2[m] = v2[k] => m = k
  BY <1>1
<1>5. \A m \in h \cup {n} : /\ v2[m] < s - 1 => x2[m] \in h \cup {n} /\ v2[x2[m]] = v2[m] + 1
                            /\ v2[m] >= s - 1 => x2[m] = NULL
  BY <1>1
<1>6. (from < s => p \in h \cup {n} /\ v2[p] = from) /\ (from = s => p = NULL)
  BY <1>1
<1> QED BY <1>1, <1>2, <1>3, <1>4, <1>5, <1>6 DEF Chained

\* the first store of queue_add to an empty list
LEMMA ChainBegins ==
  ASSUME NEW h, NEW v, NEW x, NEW p, NEW s, NEW n \in h,
         Chained(h, v, x, p, s, s + 1, s, s), v[n] = s
  PROVE  Chained(h, v, x, n, s, s + 1, s + 1, s)
BY DEF Chained

\* the last node's next leads to the new node
LEMMA ChainJoins ==
  ASSUME NEW h, NEW v, NEW x, NEW p, NEW x2, NEW lo, NEW s, NEW hi, NEW from, NEW n, NEW m,
         Chained(h, v, x, p, lo, hi, s, from), hi = s + 1, from < s,
         n \in h, m \in h, v[n] = s, v[m] = s - 1, x2[m] = n, \A k \in h : k # m => x2[k] = x[k]
  PROVE  Chained(h, v, x2, p, lo, hi, hi, from)
BY DEF Chained

\* first moves on
LEMMA ChainMoves ==
  ASSUME NEW h, NEW v, NEW x, NEW p, NEW lo, NEW s, NEW n \in h,
         Chained(h, v, x, p, lo, s, s, lo), v[n] = lo
  PROVE  p = n /\ Chained(h, v, x, x[n], lo, s, s, lo + 1)
BY DEF Chained

\* the node that was first is freed
LEMMA ChainShrinks ==
  ASSUME NEW h, NEW v, NEW x, NEW p, NEW v2, NEW x2, NEW lo, NEW s, NEW n \in h,
         Chained(h, v, x, p, lo, s, s, lo + 1), v[n] = lo,
         \A m \in h : m # n => v2[m] = v[m] /\ x2[m] = x[m]
  PROVE  Chained(h \ {n}, v2, x2, p, lo + 1, s, s, lo + 1)
<1>1. /\ lo \in Int /\ s \in Int /\ lo + 1 =< s
      /\ \A m \in h : v[m] \in lo..s - 1
      /\ \A k \in lo..s - 1 : \E m \in h : v[m] = k
      /\ \A m, k \in h : v[m] = v[k] => m = k
      /\ \A m \in h : /\ v[m] < s - 1 => x[m] \in h /\ v[x[m]] = v[m] + 1
                      /\ v[m] >= s - 1 => x[m] = NULL
      /\ lo + 1 < s => p \in h /\ v[p] = lo + 1
      /\ lo + 1 = s => p = NULL
  BY DEF Chained
<1>2. \A m \in h \ {n} : m # n /\ m \in h /\ v2[m] = v[m] /\ x2[m] = x[m]
  OBVIOUS
<1>3. \A m \in h \ {n} : v[m] # lo /\ v[m] \in lo + 1..s - 1
  BY <1>1
<1>4. \A k \in lo + 1..s - 1 : \E m \in h \ {n} : v2[m] = k
  <2> SUFFICES ASSUME NEW k \in lo + 1..s - 1 PROVE \E m \in h \ {n} : v2[m] = k
    OBVIOUS
  <2>1. PICK m \in h : v[m] = k
    BY <1>1
  <2> QED BY <2>1, <1>1, <1>2
<1>5. \A m \in h \ {n} : /\ v2[m] < s - 1 => x2[m] \in h \ {n} /\ v2[x2[m]] = v2[m] + 1
                         /\ v2[m] >= s - 1 => x2[m] = NULL
  <2> SUFFICES ASSUME NEW m \in h \ {n}
               PROVE  /\ v2[m] < s - 1 => x2[m] \in h \ {n} /\ v2[x2[m]] = v2[m] + 1
                      /\ v2[m] >= s - 1 => x2[m] = NULL
    OBVIOUS
  <2>1. x[m] \in h /\ v[x[m]] = v[m] + 1 => x[m] # n
    BY <1>1, <1>3
  <2> QED BY <1>1, <1>2, <2>1
<1>6. lo + 1 < s => p \in h \ {n} /\ v2[p] = lo + 1
  BY <1>1, <1>2
<1> QED BY <1>1, <1>2, <1>3, <1>4, <1>5, <1>6 DEF Chained

Shape(lo, hi, top, first) == Chained(heap, val, next, q.first, lo, hi, top, first)

\* queue_add from malloc on; where the new node is linked; where last is it
Grown == {"empty?", "only", "only2", "last?", "tail", "tail2", "last", "last2", "settail", "count", "count2", "added"}
Joined == {"last", "last2", "settail", "count", "count2", "added"}
Renewed == {"only2", "count", "count2", "added"}

LastRight == expected < sent => q.last \in heap /\ val[q.last] = sent - 1

Sent(places) == IF pc["writer"] \in places THEN sent + 1 ELSE sent

AddList == Shape(expected, Sent(Grown), Sent(Joined), expected)
AddLast == IF pc["writer"] \in Renewed THEN q.last = mine["writer"] ELSE LastRight
AddPlaces ==
  /\ pc["writer"] \in Grown => mine["writer"] \in heap /\ val[mine["writer"]] = sent
  /\ pc["writer"] \in {"only", "only2"} => expected = sent
  /\ pc["writer"] \in {"last?", "tail", "tail2", "last", "last2", "settail"} => expected < sent
  /\ pc["writer"] \in {"tail2", "last2"} => ptr["writer"] = q.last
  /\ pc["writer"] \in Grown \cup {"idle", "full?", "malloc"}
AddCounts == /\ q.count = Sent({"added"}) - expected
             /\ pc["writer"] = "count2" => num["writer"] = q.count
             /\ q.add_count = sent /\ q.get_count = expected
AddTurn == /\ pc["reader"] = "idle" /\ sent \in Nat /\ expected \in Nat
           /\ AddList /\ AddLast /\ AddPlaces /\ AddCounts

\* where the reader has read the value; where first leads to its node still; where it has
\* seen that there is a value; where tmp is what first leads to; where count is lowered
Read(places) == IF pc["reader"] \in places THEN expected - 1 ELSE expected

GetList(taken, behind) == Shape(Read(taken), sent, sent, Read(behind))
GetPlaces(taken, sure, asked) ==
  /\ pc["reader"] \in taken => mine["reader"] \in heap /\ val[mine["reader"]] = expected - 1
  /\ pc["reader"] \in sure => expected < sent
  /\ pc["reader"] \in asked => mine["reader"] = q.first
  /\ pc["reader"] = "move" => ptr["reader"] = next[mine["reader"]]
GetCounts(counted) == /\ q.count = sent - Read(counted)
                      /\ pc["reader"] = "count2" => num["reader"] = q.count
                      /\ q.add_count = sent /\ q.get_count = Read(counted \cup {"got"})
GetTurn == pc["writer"] = "idle" /\ sent \in Nat /\ expected \in Nat /\ expected =< sent /\ LastRight

RacyList == GetList({"move", "empty?", "clear", "free"}, {"move"})
RacyPlaces == /\ GetPlaces({"move", "empty?", "clear", "free"}, {"first?", "zero?", "tmp", "next"}, {"next"})
              /\ pc["reader"] = "clear" => expected = sent
RacyCounted == GetCounts({"move", "empty?", "clear", "free", "positive?", "count", "count2"})
RacyTurn == GetTurn /\ RacyList /\ RacyPlaces /\ RacyCounted

FirstList == GetList({"first", "next", "move", "free"}, {"first", "next", "move"})
FirstPlaces == /\ GetPlaces({"first", "next", "move", "free"}, {"tmp", "val"}, {"val"})
               /\ pc["reader"] = "next" => ptr["reader"] = q.first
FirstCounted == GetCounts({"first", "next", "move", "free", "count", "count2"})
FirstTurn == GetTurn /\ FirstList /\ FirstPlaces /\ FirstCounted
FirstTail == pc["writer"] = "settail" => ptr["writer"] = mine["writer"]

Fine == ~overlapped => ~errors /\ crashed \in {"no", "malloc"}
RacyOrder == Fine /\ (~overlapped => AddTurn \/ RacyTurn)
FirstOrder == Fine /\ (~overlapped => (AddTurn /\ FirstTail) \/ FirstTurn)

LEMMA AddListKept ==
  ASSUME AddList, UNCHANGED <<nodes, sent, expected>>, q'.first = q.first,
         pc'["writer"] \in Grown <=> pc["writer"] \in Grown,
         pc'["writer"] \in Joined <=> pc["writer"] \in Joined
  PROVE  AddList'
<1>1. Sent(Grown)' = Sent(Grown) /\ Sent(Joined)' = Sent(Joined)
  BY DEF Sent, Grown, Joined
<1> QED BY <1>1 DEF AddList, Shape, nodes

LEMMA NewIsLinked ==
  ASSUME Chained(heap, val, next, q.first, expected, sent + 1, sent, expected), expected < sent, sent \in Nat,
         mine["writer"] \in heap, val[mine["writer"]] = sent, q.last \in heap, val[q.last] = sent - 1,
         next'[q.last] = mine["writer"], \A k \in heap : k # q.last => next'[k] = next[k]
  PROVE  Chained(heap, val, next', q.first, expected, sent + 1, sent + 1, expected)
<1> DEFINE hi == sent + 1
<1>1. Chained(heap, val, next, q.first, expected, hi, sent, expected) /\ hi = sent + 1
  OBVIOUS
<1> HIDE DEF hi
<1>2. Chained(heap, val, next', q.first, expected, hi, hi, expected)
  BY <1>1, ChainJoins
<1> QED BY <1>1, <1>2, Zenon

(* The steps of queue_add that both versions take.                         *)
LEMMA AddsShared ==
  ASSUME RacyTypes, AddTurn,
         \/ AddCalled \/ AddFull \/ AddMalloc \/ AddNoMemory \/ AddOnlyLast \/ AddOnlyFirst
         \/ AddLoadTail \/ AddLoadCount \/ AddStoreCount \/ AddReturn
  PROVE  AddTurn'
<1>1. CASE AddCalled
  <2>1. /\ UNCHANGED <<q, nodes, mine, ptr, num, sent, expected>> /\ pc'["reader"] = pc["reader"]
        /\ pc["writer"] \in {"idle", "full?", "malloc"} /\ pc'["writer"] \in {"idle", "full?", "malloc"}
    BY <1>1, AddCalledMoves DEF Moves, Threads, Still, locals, checks
  <2>2. AddList'
    BY <2>1, AddListKept DEF AddTurn, Grown, Joined
  <2>3. AddLast'
    BY <2>1 DEF AddTurn, AddLast, LastRight, Renewed, nodes
  <2>4. AddPlaces'
    BY <2>1 DEF AddTurn, AddPlaces, Grown, nodes
  <2>5. AddCounts'
    BY <2>1 DEF AddTurn, AddCounts, Sent
  <2> QED BY <2>1, <2>2, <2>3, <2>4, <2>5 DEF AddTurn
<1>2. CASE AddFull
  <2>1. /\ UNCHANGED <<q, nodes, mine, ptr, num, sent, expected>> /\ pc'["reader"] = pc["reader"]
        /\ pc["writer"] \in {"idle", "full?", "malloc"} /\ pc'["writer"] \in {"idle", "full?", "malloc"}
    BY <1>2, AddFullMoves DEF Moves, Threads, Still, locals, checks
  <2>2. AddList'
    BY <2>1, AddListKept DEF AddTurn, Grown, Joined
  <2>3. AddLast'
    BY <2>1 DEF AddTurn, AddLast, LastRight, Renewed, nodes
  <2>4. AddPlaces'
    BY <2>1 DEF AddTurn, AddPlaces, Grown, nodes
  <2>5. AddCounts'
    BY <2>1 DEF AddTurn, AddCounts, Sent
  <2> QED BY <2>1, <2>2, <2>3, <2>4, <2>5 DEF AddTurn
<1>3. CASE AddNoMemory
  <2>1. /\ UNCHANGED <<q, nodes, mine, ptr, num, sent, expected>> /\ pc'["reader"] = pc["reader"]
        /\ pc["writer"] \in {"idle", "full?", "malloc"} /\ pc'["writer"] \in {"idle", "full?", "malloc"}
    BY <1>3, AddNoMemoryMoves DEF Moves, Threads, Still, locals, checks
  <2>2. AddList'
    BY <2>1, AddListKept DEF AddTurn, Grown, Joined
  <2>3. AddLast'
    BY <2>1 DEF AddTurn, AddLast, LastRight, Renewed, nodes
  <2>4. AddPlaces'
    BY <2>1 DEF AddTurn, AddPlaces, Grown, nodes
  <2>5. AddCounts'
    BY <2>1 DEF AddTurn, AddCounts, Sent
  <2> QED BY <2>1, <2>2, <2>3, <2>4, <2>5 DEF AddTurn
<1>4. CASE AddMalloc
  <2> DEFINE n == mine'["writer"]
  <2>1. /\ UNCHANGED <<q, ptr, sent, expected>> /\ pc'["reader"] = pc["reader"]
        /\ pc["writer"] = "malloc" /\ pc'["writer"] = "empty?"
        /\ n \in Node \ heap /\ heap' = heap \cup {n} /\ val'[n] = sent /\ next'[n] = NULL
        /\ \A m \in Node : m # n => val'[m] = val[m] /\ next'[m] = next[m]
    BY <1>4, Mallocs DEF Moves, Threads, checks
  <2> HIDE DEF n
  <2>2. \A m \in heap : m # n /\ val'[m] = val[m] /\ next'[m] = next[m]
    BY <2>1 DEF RacyTypes
  <2>3. Chained(heap, val, next, q.first, expected, sent, sent, expected)
    BY <2>1 DEF AddTurn, AddList, Shape, Sent, Grown, Joined
  <2>4. Chained(heap', val', next', q.first, expected, sent + 1, sent, expected)
    BY <2>1, <2>2, <2>3, ChainGrows
  <2>5. n = mine'["writer"]
    BY DEF n
  <2>6. AddList'
    BY <2>1, <2>4 DEF AddList, Shape, Sent, Grown, Joined
  <2>7. AddLast'
    BY <2>1, <2>2 DEF AddTurn, AddLast, LastRight, Renewed, nodes
  <2>8. AddPlaces'
    BY <2>1, <2>5 DEF AddPlaces, Grown
  <2>9. AddCounts'
    BY <2>1, <2>2 DEF AddTurn, AddCounts, Sent
  <2> QED BY <2>1, <2>2, <2>6, <2>7, <2>8, <2>9 DEF AddTurn
<1>5. CASE AddOnlyLast
  <2>1. /\ UNCHANGED <<nodes, mine, ptr, sent, expected>> /\ pc'["reader"] = pc["reader"]
        /\ pc["writer"] = "only" /\ pc'["writer"] = "only2"
        /\ q'.first = q.first /\ q'.last = mine["writer"] /\ q'.count = q.count
        /\ q'.add_count = q.add_count /\ q'.get_count = q.get_count
    BY <1>5, AddOnlyLastMoves DEF Moves, Threads, StillNodes, locals, checks
  <2>2. AddList'
    BY <2>1, AddListKept DEF AddTurn, Grown, Joined
  <2>3. AddLast'
    BY <2>1 DEF AddTurn, AddLast, LastRight, Renewed, nodes
  <2>4. AddPlaces'
    BY <2>1 DEF AddTurn, AddPlaces, Grown, nodes
  <2>5. AddCounts'
    BY <2>1 DEF AddTurn, AddCounts, Sent
  <2> QED BY <2>1, <2>2, <2>3, <2>4, <2>5 DEF AddTurn
<1>6. CASE AddOnlyFirst
  <2>1. /\ UNCHANGED <<nodes, mine, ptr, sent, expected>> /\ pc'["reader"] = pc["reader"]
        /\ pc["writer"] = "only2" /\ pc'["writer"] = "count"
        /\ q'.first \in {mine["writer"], q.last} /\ q'.last = q.last /\ q'.count = q.count
        /\ q'.add_count = q.add_count /\ q'.get_count = q.get_count
    BY <1>6, AddOnlyFirstMoves DEF Moves, Threads, StillNodes, locals, checks
  <2>2. /\ expected = sent /\ mine["writer"] \in heap /\ val[mine["writer"]] = sent
        /\ q'.first = mine["writer"]
    BY <2>1 DEF AddTurn, AddPlaces, AddLast, Grown, Renewed
  <2>3. Chained(heap, val, next, q.first, sent, sent + 1, sent, sent)
    BY <2>1, <2>2 DEF AddTurn, AddList, Sent, Shape, Grown, Joined
  <2>4. Chained(heap, val, next, q'.first, sent, sent + 1, sent + 1, sent)
    BY <2>2, <2>3, ChainBegins
  <2>5. AddList'
    BY <2>1, <2>2, <2>4 DEF AddList, Shape, Sent, Grown, Joined, nodes
  <2>6. AddLast'
    BY <2>1 DEF AddTurn, AddLast, LastRight, Renewed, nodes
  <2>7. AddPlaces'
    BY <2>1 DEF AddTurn, AddPlaces, Grown, nodes
  <2>8. AddCounts'
    BY <2>1 DEF AddTurn, AddCounts, Sent
  <2> QED BY <2>1, <2>5, <2>6, <2>7, <2>8 DEF AddTurn
<1>7. CASE AddLoadTail
  <2>1. /\ UNCHANGED <<q, nodes, mine, num, sent, expected>> /\ pc'["reader"] = pc["reader"]
        /\ pc["writer"] = "tail" /\ pc'["writer"] = "tail2" /\ ptr'["writer"] = q.last
    BY <1>7, AddLoadTailMoves DEF Moves, Threads, checks
  <2>2. AddList'
    BY <2>1, AddListKept DEF AddTurn, Grown, Joined
  <2>3. AddLast'
    BY <2>1 DEF AddTurn, AddLast, LastRight, Renewed, nodes
  <2>4. AddPlaces'
    BY <2>1 DEF AddTurn, AddPlaces, Grown, nodes
  <2>5. AddCounts'
    BY <2>1 DEF AddTurn, AddCounts, Sent
  <2> QED BY <2>1, <2>2, <2>3, <2>4, <2>5 DEF AddTurn
<1>8. CASE AddLoadCount
  <2>1. /\ UNCHANGED <<q, nodes, mine, ptr, sent, expected>> /\ pc'["reader"] = pc["reader"]
        /\ pc["writer"] = "count" /\ pc'["writer"] = "count2" /\ num'["writer"] = q.count
    BY <1>8, AddLoadCountMoves DEF Moves, Threads, checks
  <2>2. AddList'
    BY <2>1, AddListKept DEF AddTurn, Grown, Joined
  <2>3. AddLast'
    BY <2>1 DEF AddTurn, AddLast, LastRight, Renewed, nodes
  <2>4. AddPlaces'
    BY <2>1 DEF AddTurn, AddPlaces, Grown, nodes
  <2>5. AddCounts'
    BY <2>1 DEF AddTurn, AddCounts, Sent
  <2> QED BY <2>1, <2>2, <2>3, <2>4, <2>5 DEF AddTurn
<1>9. CASE AddStoreCount
  <2>1. /\ UNCHANGED <<nodes, mine, ptr, sent, expected>> /\ pc'["reader"] = pc["reader"]
        /\ pc["writer"] = "count2" /\ pc'["writer"] = "added"
        /\ q'.first = q.first /\ q'.last = q.last /\ q'.count = num["writer"] + 1
        /\ q'.add_count = q.add_count /\ q'.get_count = q.get_count
    BY <1>9, AddStoreCountMoves DEF Moves, Threads, StillNodes, locals, checks
  <2>2. AddList'
    BY <2>1, AddListKept DEF AddTurn, Grown, Joined
  <2>3. AddLast'
    BY <2>1 DEF AddTurn, AddLast, LastRight, Renewed, nodes
  <2>4. AddPlaces'
    BY <2>1 DEF AddTurn, AddPlaces, Grown, nodes
  <2>5. AddCounts'
    BY <2>1 DEF AddTurn, AddCounts, Sent
  <2> QED BY <2>1, <2>2, <2>3, <2>4, <2>5 DEF AddTurn
<1>10. CASE AddReturn
  <2>1. /\ UNCHANGED <<nodes, mine, ptr, expected>> /\ pc'["reader"] = pc["reader"]
        /\ pc["writer"] = "added" /\ pc'["writer"] = "idle" /\ sent' = sent + 1
        /\ q'.first = q.first /\ q'.last = q.last /\ q'.count = q.count
        /\ q'.add_count = q.add_count + 1 /\ q'.get_count = q.get_count
    BY <1>10, Returns DEF Moves, Threads, locals, Queue
  <2>2. /\ q.last \in heap /\ val[q.last] = sent /\ sent \in Nat /\ expected \in Nat
    BY <2>1 DEF AddTurn, AddLast, AddPlaces, Grown, Renewed
  <2>3. Chained(heap, val, next, q.first, expected, sent + 1, sent + 1, expected)
    BY <2>1 DEF AddTurn, AddList, Sent, Shape, Grown, Joined
  <2>4. AddList'
    BY <2>1, <2>3 DEF AddList, Shape, Sent, Grown, Joined, nodes
  <2>5. AddLast'
    BY <2>1, <2>2 DEF AddTurn, AddLast, LastRight, Renewed, nodes
  <2>6. AddPlaces'
    BY <2>1, <2>2 DEF AddTurn, AddPlaces, Grown, nodes
  <2>7. AddCounts'
    BY <2>1, <2>2 DEF AddTurn, AddCounts, Sent
  <2> QED BY <2>1, <2>2, <2>4, <2>5, <2>6, <2>7 DEF AddTurn
<1> QED BY <1>1, <1>2, <1>3, <1>4, <1>5, <1>6, <1>7, <1>8, <1>9, <1>10

(* The other steps of the second version's queue_add.                      *)
LEMMA RacyAdds ==
  ASSUME RacyTypes, AddTurn, AddEmpty \/ AddHasLast \/ AddLinkTail \/ AddSetLast
  PROVE  AddTurn' /\ crashed' = crashed
<1>1. CASE AddEmpty
  <2>1. /\ UNCHANGED <<q, nodes, mine, ptr, num, sent, expected, crashed>> /\ pc'["reader"] = pc["reader"]
        /\ pc["writer"] = "empty?"
        /\ q.first = NULL => pc'["writer"] = "only"
        /\ q.first # NULL => pc'["writer"] = "last?"
    BY <1>1, AddEmptyMoves DEF Moves, Threads, Still, locals, checks
  <2>2. Chained(heap, val, next, q.first, expected, sent + 1, sent, expected)
    BY <2>1 DEF AddTurn, AddList, Sent, Shape, Grown, Joined
  <2>3. /\ pc'["writer"] = "only" => expected = sent
        /\ pc'["writer"] # "only" => expected < sent
        /\ pc'["writer"] \in {"only", "last?"}
    BY <2>1, <2>2, PointerAssumption DEF Chained, RacyTypes
  <2>4. AddList'
    BY <2>1, <2>3, AddListKept DEF AddTurn, Grown, Joined
  <2>5. AddLast'
    BY <2>1, <2>3 DEF AddTurn, AddLast, LastRight, Renewed, nodes
  <2>6. AddPlaces'
    BY <2>1, <2>3 DEF AddTurn, AddPlaces, Grown, nodes
  <2>7. AddCounts'
    BY <2>1, <2>3 DEF AddTurn, AddCounts, Sent
  <2> QED BY <2>1, <2>3, <2>4, <2>5, <2>6, <2>7 DEF AddTurn
<1>2. CASE AddHasLast
  <2>1. /\ UNCHANGED <<q, nodes, mine, ptr, num, sent, expected, crashed>> /\ pc'["reader"] = pc["reader"]
        /\ pc["writer"] = "last?"
        /\ q.last # NULL => pc'["writer"] = "tail"
    BY <1>2, AddHasLastMoves DEF Moves, Threads, Still, locals, checks
  <2>2. LastRight /\ expected < sent
    BY <2>1 DEF AddTurn, AddLast, AddPlaces, Renewed
  <2>3. pc'["writer"] = "tail"
    BY <2>1, <2>2, PointerAssumption DEF LastRight, RacyTypes
  <2>4. AddList'
    BY <2>1, <2>3, AddListKept DEF AddTurn, Grown, Joined
  <2>5. AddLast'
    BY <2>1, <2>3 DEF AddTurn, AddLast, LastRight, Renewed, nodes
  <2>6. AddPlaces'
    BY <2>1, <2>3 DEF AddTurn, AddPlaces, Grown, nodes
  <2>7. AddCounts'
    BY <2>1, <2>3 DEF AddTurn, AddCounts, Sent
  <2> QED BY <2>1, <2>3, <2>4, <2>5, <2>6, <2>7 DEF AddTurn
<1>3. CASE AddLinkTail
  <2>1. pc["writer"] = "tail2"
    BY <1>3, AddLinkTailMoves DEF Moves
  <2>2. /\ LastRight /\ expected < sent /\ mine["writer"] \in heap /\ val[mine["writer"]] = sent
        /\ sent \in Nat /\ ptr["writer"] = q.last
    BY <2>1 DEF AddTurn, AddLast, AddPlaces, Renewed, Grown
  <2>3. Chained(heap, val, next, q.first, expected, sent + 1, sent, expected)
    BY <2>1 DEF AddTurn, AddList, Sent, Shape, Grown, Joined
  <2>4. q.last \in heap /\ val[q.last] = sent - 1 /\ heap \subseteq Node
    BY <2>2 DEF LastRight, RacyTypes
  <2>5. /\ UNCHANGED <<q, val, heap, mine, ptr, num, sent, expected, crashed>> /\ pc'["reader"] = pc["reader"]
        /\ pc'["writer"] = "settail"
        /\ next'[q.last] = mine["writer"] /\ \A k \in heap : k # q.last => next'[k] = next[k]
    BY <1>3, <2>2, <2>4, AddLinkTailMoves DEF Moves, Threads, locals, checks
  <2>6. Chained(heap, val, next', q.first, expected, sent + 1, sent + 1, expected)
    BY <2>2, <2>3, <2>4, <2>5, NewIsLinked
  <2>7. AddList'
    BY <2>5, <2>6 DEF AddList, Shape, Sent, Grown, Joined
  <2>8. AddLast'
    BY <2>1, <2>5 DEF AddTurn, AddLast, LastRight, Renewed, nodes
  <2>9. AddPlaces'
    BY <2>1, <2>5 DEF AddTurn, AddPlaces, Grown, nodes
  <2>10. AddCounts'
    BY <2>1, <2>5 DEF AddTurn, AddCounts, Sent
  <2> QED BY <2>1, <2>5, <2>7, <2>8, <2>9, <2>10 DEF AddTurn
<1>4. CASE AddSetLast
  <2>1. /\ UNCHANGED <<nodes, mine, ptr, num, sent, expected, crashed>> /\ pc'["reader"] = pc["reader"]
        /\ pc["writer"] = "settail" /\ pc'["writer"] = "count"
        /\ q'.first = q.first /\ q'.last = mine["writer"] /\ q'.count = q.count
        /\ q'.add_count = q.add_count /\ q'.get_count = q.get_count
    BY <1>4, AddSetLastMoves DEF Moves, Threads, StillNodes, locals, checks
  <2>2. AddList'
    BY <2>1, AddListKept DEF AddTurn, Grown, Joined
  <2>3. AddLast'
    BY <2>1 DEF AddTurn, AddLast, LastRight, Renewed, nodes
  <2>4. AddPlaces'
    BY <2>1 DEF AddTurn, AddPlaces, Grown, nodes
  <2>5. AddCounts'
    BY <2>1 DEF AddTurn, AddCounts, Sent
  <2> QED BY <2>1, <2>2, <2>3, <2>4, <2>5 DEF AddTurn
<1> QED BY <1>1, <1>2, <1>3, <1>4

(* And those of the first version's.                                       *)
LEMMA FirstAdds ==
  ASSUME RacyTypes, AddTurn, FirstTail,
         \/ First!AddEmpty \/ First!AddLinkTail \/ First!AddLoadLast \/ First!AddLoadNext \/ First!AddSetLast
  PROVE  AddTurn' /\ FirstTail' /\ crashed' = crashed
<1>1. CASE First!AddEmpty
  <2>1. /\ UNCHANGED <<q, nodes, mine, ptr, num, sent, expected, crashed>> /\ pc'["reader"] = pc["reader"]
        /\ pc["writer"] = "empty?"
        /\ q.first = NULL => pc'["writer"] = "only"
        /\ q.first # NULL => pc'["writer"] = "tail"
    BY <1>1, FirstAddEmptyMoves DEF Moves, Threads, Still, locals, checks
  <2>2. Chained(heap, val, next, q.first, expected, sent + 1, sent, expected)
    BY <2>1 DEF AddTurn, AddList, Sent, Shape, Grown, Joined
  <2>3. /\ pc'["writer"] = "only" => expected = sent
        /\ pc'["writer"] # "only" => expected < sent
        /\ pc'["writer"] \in {"only", "tail"}
    BY <2>1, <2>2, PointerAssumption DEF Chained, RacyTypes
  <2>4. AddList'
    BY <2>1, <2>3, AddListKept DEF AddTurn, Grown, Joined
  <2>5. AddLast'
    BY <2>1, <2>3 DEF AddTurn, AddLast, LastRight, Renewed, nodes
  <2>6. AddPlaces'
    BY <2>1, <2>3 DEF AddTurn, AddPlaces, Grown, nodes
  <2>7. AddCounts'
    BY <2>1, <2>3 DEF AddTurn, AddCounts, Sent
  <2> QED BY <2>1, <2>3, <2>4, <2>5, <2>6, <2>7 DEF AddTurn, FirstTail
<1>2. CASE First!AddLinkTail
  <2>1. pc["writer"] = "tail2"
    BY <1>2, FirstAddLinkTailMoves DEF Moves
  <2>2. /\ LastRight /\ expected < sent /\ mine["writer"] \in heap /\ val[mine["writer"]] = sent
        /\ sent \in Nat /\ ptr["writer"] = q.last
    BY <2>1 DEF AddTurn, AddLast, AddPlaces, Renewed, Grown
  <2>3. Chained(heap, val, next, q.first, expected, sent + 1, sent, expected)
    BY <2>1 DEF AddTurn, AddList, Sent, Shape, Grown, Joined
  <2>4. q.last \in heap /\ val[q.last] = sent - 1 /\ heap \subseteq Node
    BY <2>2 DEF LastRight, RacyTypes
  <2>5. /\ UNCHANGED <<q, val, heap, mine, ptr, num, sent, expected, crashed>> /\ pc'["reader"] = pc["reader"]
        /\ pc'["writer"] = "last"
        /\ next'[q.last] = mine["writer"] /\ \A k \in heap : k # q.last => next'[k] = next[k]
    BY <1>2, <2>2, <2>4, FirstAddLinkTailMoves DEF Moves, Threads, locals, checks
  <2>6. Chained(heap, val, next', q.first, expected, sent + 1, sent + 1, expected)
    BY <2>2, <2>3, <2>4, <2>5, NewIsLinked
  <2>7. AddList'
    BY <2>5, <2>6 DEF AddList, Shape, Sent, Grown, Joined
  <2>8. AddLast'
    BY <2>1, <2>5 DEF AddTurn, AddLast, LastRight, Renewed, nodes
  <2>9. AddPlaces'
    BY <2>1, <2>5 DEF AddTurn, AddPlaces, Grown, nodes
  <2>10. AddCounts'
    BY <2>1, <2>5 DEF AddTurn, AddCounts, Sent
  <2> QED BY <2>1, <2>5, <2>7, <2>8, <2>9, <2>10 DEF AddTurn, FirstTail
<1>3. CASE First!AddLoadLast
  <2>1. /\ UNCHANGED <<q, nodes, mine, num, sent, expected, crashed>> /\ pc'["reader"] = pc["reader"]
        /\ pc["writer"] = "last" /\ pc'["writer"] = "last2" /\ ptr'["writer"] = q.last
    BY <1>3, FirstAddLoadLastMoves DEF Moves, Threads, checks
  <2>2. AddList'
    BY <2>1, AddListKept DEF AddTurn, Grown, Joined
  <2>3. AddLast'
    BY <2>1 DEF AddTurn, AddLast, LastRight, Renewed, nodes
  <2>4. AddPlaces'
    BY <2>1 DEF AddTurn, AddPlaces, Grown, nodes
  <2>5. AddCounts'
    BY <2>1 DEF AddTurn, AddCounts, Sent
  <2> QED BY <2>1, <2>2, <2>3, <2>4, <2>5 DEF AddTurn, FirstTail
<1>4. CASE First!AddLoadNext
  <2>1. pc["writer"] = "last2"
    BY <1>4, FirstAddLoadNextMoves DEF Moves
  <2>2. /\ LastRight /\ expected < sent /\ mine["writer"] \in heap /\ val[mine["writer"]] = sent
        /\ sent \in Nat /\ ptr["writer"] = q.last
    BY <2>1 DEF AddTurn, AddLast, AddPlaces, Renewed, Grown
  <2>3. Chained(heap, val, next, q.first, expected, sent + 1, sent + 1, expected)
    BY <2>1 DEF AddTurn, AddList, Sent, Shape, Grown, Joined
  <2>4. q.last \in heap /\ val[q.last] = sent - 1 /\ heap \subseteq Node
    BY <2>2 DEF LastRight, RacyTypes
  <2>5. /\ UNCHANGED <<q, nodes, mine, num, sent, expected, crashed>> /\ pc'["reader"] = pc["reader"]
        /\ pc'["writer"] = "settail" /\ ptr'["writer"] = next[q.last]
    BY <1>4, <2>2, <2>4, FirstAddLoadNextMoves DEF Moves, Threads, checks
  <2>6. next[q.last] = mine["writer"]
    BY <2>2, <2>3, <2>4 DEF Chained
  <2>7. AddList'
    BY <2>1, <2>5, AddListKept DEF AddTurn, Grown, Joined
  <2>8. AddLast'
    BY <2>1, <2>5 DEF AddTurn, AddLast, LastRight, Renewed, nodes
  <2>9. AddPlaces'
    BY <2>1, <2>5 DEF AddTurn, AddPlaces, Grown, nodes
  <2>10. AddCounts'
    BY <2>1, <2>5 DEF AddTurn, AddCounts, Sent
  <2> QED BY <2>1, <2>5, <2>7, <2>8, <2>9, <2>10, <2>6 DEF AddTurn, FirstTail
<1>5. CASE First!AddSetLast
  <2>1. /\ UNCHANGED <<nodes, mine, ptr, num, sent, expected, crashed>> /\ pc'["reader"] = pc["reader"]
        /\ pc["writer"] = "settail" /\ pc'["writer"] = "count"
        /\ q'.first = q.first /\ q'.last = ptr["writer"] /\ q'.count = q.count
        /\ q'.add_count = q.add_count /\ q'.get_count = q.get_count
    BY <1>5, FirstAddSetLastMoves DEF Moves, Threads, StillNodes, locals, checks
  <2>2. ptr["writer"] = mine["writer"]
    BY <2>1 DEF FirstTail
  <2>3. AddList'
    BY <2>1, <2>2, AddListKept DEF AddTurn, Grown, Joined
  <2>4. AddLast'
    BY <2>1, <2>2 DEF AddTurn, AddLast, LastRight, Renewed, nodes
  <2>5. AddPlaces'
    BY <2>1, <2>2 DEF AddTurn, AddPlaces, Grown, nodes
  <2>6. AddCounts'
    BY <2>1, <2>2 DEF AddTurn, AddCounts, Sent
  <2> QED BY <2>1, <2>2, <2>3, <2>4, <2>5, <2>6 DEF AddTurn, FirstTail
<1> QED BY <1>1, <1>2, <1>3, <1>4, <1>5

LEMMA GetListKept ==
  ASSUME NEW taken, NEW behind, GetList(taken, behind), UNCHANGED <<nodes, sent, expected>>, q'.first = q.first,
         pc'["reader"] \in taken <=> pc["reader"] \in taken,
         pc'["reader"] \in behind <=> pc["reader"] \in behind
  PROVE  GetList(taken, behind)'
<1>1. Read(taken)' = Read(taken) /\ Read(behind)' = Read(behind)
  BY DEF Read
<1> QED BY <1>1 DEF GetList, Shape, nodes

\* what a list that starts at the next value to be read says of first
LEMMA NextToRead ==
  ASSUME RacyTypes, Chained(heap, val, next, q.first, expected, sent, sent, expected)
  PROVE  /\ expected < sent => q.first \in heap /\ q.first \in Node /\ val[q.first] = expected
         /\ q.first = NULL <=> expected = sent
BY PointerAssumption DEF Chained, RacyTypes

(* queue_get of the second version.                                        *)
LEMMA RacyGets ==
  ASSUME RacyTypes, RacyTurn, Get
  PROVE  RacyTurn' /\ crashed' = crashed /\ (errors' => errors)
<1>1. CASE GetCalled
  <2>1. /\ UNCHANGED <<q, nodes, mine, ptr, num, sent, expected, errors, crashed>>
        /\ pc'["writer"] = pc["writer"] /\ pc["reader"] = "idle" /\ pc'["reader"] = "count?"
    BY <1>1, GetCalledMoves DEF Moves, Threads, locals, checks
  <2>2. GetTurn'
    BY <2>1 DEF RacyTurn, GetTurn, LastRight, nodes
  <2>3. RacyList'
    BY <2>1, GetListKept DEF RacyTurn, RacyList
  <2>4. RacyPlaces'
    BY <2>1 DEF RacyTurn, RacyPlaces, GetPlaces, nodes
  <2>5. RacyCounted'
    BY <2>1 DEF RacyTurn, RacyCounted, GetCounts, Read
  <2> QED BY <2>1, <2>2, <2>3, <2>4, <2>5 DEF RacyTurn
<1>2. CASE GetCountTest
  <2>1. /\ UNCHANGED <<q, nodes, mine, ptr, num, sent, expected, errors, crashed>>
        /\ pc'["writer"] = pc["writer"]
        /\ pc["reader"] = "count?"
        /\ q.count =< 0 => pc'["reader"] = "idle"
        /\ ~(q.count =< 0) => pc'["reader"] = "first?"
    BY <1>2, GetCountTestMoves DEF Moves, Threads, Still, locals, checks
  <2>2. sent \in Nat /\ expected \in Nat /\ expected =< sent /\ q.count = sent - expected
    BY <2>1 DEF RacyTurn, GetTurn, RacyCounted, GetCounts, Read
  <2>3. ~(q.count =< 0) => expected < sent
    BY <2>2
  <2>4. pc'["reader"] \in {"idle", "first?"} /\ (pc'["reader"] = "first?" => expected < sent)
    BY <2>1, <2>3
  <2>5. GetTurn'
    BY <2>1, <2>4 DEF RacyTurn, GetTurn, LastRight, nodes
  <2>6. RacyList'
    BY <2>1, <2>4, GetListKept DEF RacyTurn, RacyList
  <2>7. RacyPlaces'
    BY <2>1, <2>4 DEF RacyTurn, RacyPlaces, GetPlaces, nodes
  <2>8. RacyCounted'
    BY <2>1, <2>4 DEF RacyTurn, RacyCounted, GetCounts, Read
  <2> QED BY <2>1, <2>4, <2>5, <2>6, <2>7, <2>8 DEF RacyTurn
<1>3. CASE GetFirstTest
  <2>1. /\ UNCHANGED <<q, nodes, mine, ptr, num, sent, expected, errors, crashed>>
        /\ pc'["writer"] = pc["writer"]
        /\ pc["reader"] = "first?"
        /\ q.first = NULL => pc'["reader"] = "idle"
        /\ q.first # NULL => pc'["reader"] = "zero?"
    BY <1>3, GetFirstTestMoves DEF Moves, Threads, Still, locals, checks
  <2>2. GetTurn'
    BY <2>1 DEF RacyTurn, GetTurn, LastRight, nodes
  <2>3. RacyList'
    BY <2>1, GetListKept DEF RacyTurn, RacyList
  <2>4. RacyPlaces'
    BY <2>1 DEF RacyTurn, RacyPlaces, GetPlaces, nodes
  <2>5. RacyCounted'
    BY <2>1 DEF RacyTurn, RacyCounted, GetCounts, Read
  <2> QED BY <2>1, <2>2, <2>3, <2>4, <2>5 DEF RacyTurn
<1>4. CASE GetZeroTest
  <2>1. /\ UNCHANGED <<q, nodes, mine, ptr, num, sent, expected, errors, crashed>>
        /\ pc'["writer"] = pc["writer"]
        /\ pc["reader"] = "zero?"
        /\ q.count = 0 => pc'["reader"] = "idle"
        /\ q.count # 0 => pc'["reader"] = "tmp"
    BY <1>4, GetZeroTestMoves DEF Moves, Threads, Still, locals, checks
  <2>2. GetTurn'
    BY <2>1 DEF RacyTurn, GetTurn, LastRight, nodes
  <2>3. RacyList'
    BY <2>1, GetListKept DEF RacyTurn, RacyList
  <2>4. RacyPlaces'
    BY <2>1 DEF RacyTurn, RacyPlaces, GetPlaces, nodes
  <2>5. RacyCounted'
    BY <2>1 DEF RacyTurn, RacyCounted, GetCounts, Read
  <2> QED BY <2>1, <2>2, <2>3, <2>4, <2>5 DEF RacyTurn
<1>5. CASE GetLoadFirst
  <2>1. /\ UNCHANGED <<q, nodes, ptr, num, sent, expected, errors, crashed>>
        /\ pc'["writer"] = pc["writer"] /\ pc["reader"] = "tmp" /\ mine'["reader"] = q.first
        /\ q.first = NULL => pc'["reader"] = "idle"
        /\ q.first # NULL => pc'["reader"] = "next"
    BY <1>5, GetLoadFirstMoves DEF Moves, Threads, checks
  <2>2. GetTurn'
    BY <2>1 DEF RacyTurn, GetTurn, LastRight, nodes
  <2>3. RacyList'
    BY <2>1, GetListKept DEF RacyTurn, RacyList
  <2>4. RacyPlaces'
    BY <2>1 DEF RacyTurn, RacyPlaces, GetPlaces, nodes
  <2>5. RacyCounted'
    BY <2>1 DEF RacyTurn, RacyCounted, GetCounts, Read
  <2> QED BY <2>1, <2>2, <2>3, <2>4, <2>5 DEF RacyTurn
<1>6. CASE GetLoadNode
  <2>1. /\ UNCHANGED <<q, nodes, mine, num, sent, crashed>>
        /\ pc'["writer"] = pc["writer"] /\ pc["reader"] = "next" /\ pc'["reader"] = "move"
        /\ ptr'["reader"] = next[mine["reader"]] /\ GetCheck
    BY <1>6, GetLoadNodeMoves DEF Moves, Threads
  <2>2. /\ sent \in Nat /\ expected \in Nat /\ expected < sent /\ mine["reader"] = q.first
    BY <2>1 DEF RacyTurn, GetTurn, RacyPlaces, GetPlaces
  <2>3. Chained(heap, val, next, q.first, expected, sent, sent, expected)
    BY <2>1 DEF RacyTurn, RacyList, GetList, Read, Shape
  <2>4. mine["reader"] \in heap /\ val[mine["reader"]] = expected
    BY <2>2, <2>3, NextToRead
  <2>5. (errors' => errors) /\ expected' = expected + 1
    BY <2>1, <2>2, <2>4 DEF GetCheck
  <2>6. expected' - 1 = expected
    BY <2>2, <2>5
  <2>7. GetTurn'
    BY <2>1, <2>2, <2>5, <2>6 DEF RacyTurn, GetTurn, LastRight, nodes
  <2>8. RacyList'
    BY <2>1, <2>3, <2>6 DEF RacyList, GetList, Read, Shape, nodes
  <2>9. RacyPlaces'
    BY <2>1, <2>4, <2>6 DEF RacyPlaces, GetPlaces, nodes
  <2>10. RacyCounted'
    BY <2>1, <2>6 DEF RacyTurn, RacyCounted, GetCounts, Read
  <2> QED BY <2>1, <2>2, <2>5, <2>6, <2>7, <2>8, <2>9, <2>10 DEF RacyTurn
<1>7. CASE GetMove
  <2>1. /\ UNCHANGED <<nodes, mine, ptr, num, sent, expected, errors, crashed>>
        /\ pc'["writer"] = pc["writer"] /\ pc["reader"] = "move" /\ pc'["reader"] = "empty?"
        /\ q'.first = ptr["reader"] /\ q'.last = q.last /\ q'.count = q.count /\ q'.add_count = q.add_count
        /\ q'.get_count = q.get_count
    BY <1>7, GetMoveMoves DEF Moves, Threads, StillNodes, locals, checks
  <2> DEFINE lo == expected - 1
             n == mine["reader"]
  <2>2. expected \in Nat /\ n \in heap /\ val[n] = lo /\ ptr["reader"] = next[n]
    BY <2>1 DEF RacyTurn, GetTurn, RacyPlaces, GetPlaces
  <2>3. Chained(heap, val, next, q.first, lo, sent, sent, lo)
    BY <2>1 DEF RacyTurn, RacyList, GetList, Read, Shape
  <2> HIDE DEF n, lo
  <2>4. Chained(heap, val, next, next[n], lo, sent, sent, lo + 1)
    BY <2>2, <2>3, ChainMoves
  <2>5. lo = expected - 1 /\ lo + 1 = expected
    BY <2>2 DEF lo
  <2>6. Chained(heap, val, next, q'.first, expected - 1, sent, sent, expected)
    BY <2>1, <2>2, <2>4, <2>5
  <2>7. GetTurn'
    BY <2>1 DEF RacyTurn, GetTurn, LastRight, nodes
  <2>8. RacyList'
    BY <2>1, <2>6 DEF RacyList, GetList, Read, Shape, nodes
  <2>9. RacyPlaces'
    BY <2>1 DEF RacyTurn, RacyPlaces, GetPlaces, nodes
  <2>10. RacyCounted'
    BY <2>1 DEF RacyTurn, RacyCounted, GetCounts, Read
  <2> QED BY <2>1, <2>7, <2>8, <2>9, <2>10 DEF RacyTurn
<1>8. CASE GetEmptyTest
  <2>1. /\ UNCHANGED <<q, nodes, mine, ptr, num, sent, expected, errors, crashed>>
        /\ pc'["writer"] = pc["writer"]
        /\ pc["reader"] = "empty?"
        /\ q.first = NULL => pc'["reader"] = "clear"
        /\ q.first # NULL => pc'["reader"] = "free"
    BY <1>8, GetEmptyTestMoves DEF Moves, Threads, Still, locals, checks
  <2>2. Chained(heap, val, next, q.first, expected - 1, sent, sent, expected)
    BY <2>1 DEF RacyTurn, RacyList, GetList, Read, Shape
  <2>3. q.first = NULL => expected = sent
    BY <2>2, PointerAssumption DEF Chained, RacyTypes
  <2>4. pc'["reader"] \in {"clear", "free"} /\ (pc'["reader"] = "clear" => expected = sent)
    BY <2>1, <2>3
  <2>5. GetTurn'
    BY <2>1, <2>4 DEF RacyTurn, GetTurn, LastRight, nodes
  <2>6. RacyList'
    BY <2>1, <2>4, GetListKept DEF RacyTurn, RacyList
  <2>7. RacyPlaces'
    BY <2>1, <2>4 DEF RacyTurn, RacyPlaces, GetPlaces, nodes
  <2>8. RacyCounted'
    BY <2>1, <2>4 DEF RacyTurn, RacyCounted, GetCounts, Read
  <2> QED BY <2>1, <2>4, <2>5, <2>6, <2>7, <2>8 DEF RacyTurn
<1>9. CASE GetClearLast
  <2>1. /\ UNCHANGED <<nodes, mine, ptr, num, sent, expected, errors, crashed>>
        /\ pc'["writer"] = pc["writer"] /\ pc["reader"] = "clear" /\ pc'["reader"] = "free"
        /\ q'.first = q.first /\ q'.last = NULL /\ q'.count = q.count /\ q'.add_count = q.add_count
        /\ q'.get_count = q.get_count
    BY <1>9, GetClearLastMoves DEF Moves, Threads, StillNodes, locals, checks
  <2>2. sent \in Nat /\ expected = sent
    BY <2>1 DEF RacyTurn, GetTurn, RacyPlaces
  <2>3. GetTurn'
    BY <2>1, <2>2 DEF RacyTurn, GetTurn, LastRight, nodes
  <2>4. RacyList'
    BY <2>1, <2>2, GetListKept DEF RacyTurn, RacyList
  <2>5. RacyPlaces'
    BY <2>1, <2>2 DEF RacyTurn, RacyPlaces, GetPlaces, nodes
  <2>6. RacyCounted'
    BY <2>1, <2>2 DEF RacyTurn, RacyCounted, GetCounts, Read
  <2> QED BY <2>1, <2>2, <2>3, <2>4, <2>5, <2>6 DEF RacyTurn
<1>10. CASE GetFree("positive?")
  <2> DEFINE lo == expected - 1
             n == mine["reader"]
  <2>1. /\ UNCHANGED <<q, mine, ptr, num, sent, expected, errors, crashed>> /\ pc'["writer"] = pc["writer"]
        /\ pc["reader"] = "free" /\ pc'["reader"] = "positive?"
        /\ n \in heap /\ heap' = heap \ {n}
        /\ \A m \in Node : m # n => val'[m] = val[m] /\ next'[m] = next[m]
    BY <1>10, Frees DEF Moves, Threads, locals, checks
  <2>2. sent \in Nat /\ expected \in Nat /\ val[n] = lo /\ LastRight
    BY <2>1 DEF RacyTurn, GetTurn, RacyPlaces, GetPlaces
  <2>3. Chained(heap, val, next, q.first, lo, sent, sent, expected)
    BY <2>1 DEF RacyTurn, RacyList, GetList, Read, Shape
  <2>4. lo = expected - 1 /\ lo + 1 = expected /\ lo \in Int
    BY <2>2
  <2> HIDE DEF n, lo
  <2>5. \A m \in heap : m # n => val'[m] = val[m] /\ next'[m] = next[m]
    BY <2>1 DEF RacyTypes
  <2>6. Chained(heap, val, next, q.first, lo, sent, sent, lo + 1)
    BY <2>3, <2>4
  <2>7. Chained(heap', val', next', q.first, lo + 1, sent, sent, lo + 1)
    BY <2>1, <2>2, <2>5, <2>6, ChainShrinks
  <2>8. Chained(heap', val', next', q.first, expected, sent, sent, expected)
    BY <2>4, <2>7
  <2>9. LastRight'
    <3> SUFFICES ASSUME expected < sent PROVE q.last \in heap' /\ val'[q.last] = sent - 1
      BY <2>1 DEF LastRight
    <3>1. q.last \in heap /\ val[q.last] = sent - 1
      BY <2>2 DEF LastRight
    <3>2. q.last # n
      BY <3>1, <2>2, <2>4
    <3> QED BY <3>1, <3>2, <2>1, <2>5
  <2>10. GetTurn'
    BY <2>1, <2>9 DEF RacyTurn, GetTurn
  <2>11. RacyList'
    BY <2>1, <2>8 DEF RacyList, GetList, Read, Shape
  <2>12. RacyPlaces'
    BY <2>1 DEF RacyPlaces, GetPlaces
  <2>13. RacyCounted'
    BY <2>1 DEF RacyTurn, RacyCounted, GetCounts, Read
  <2> QED BY <2>1, <2>10, <2>11, <2>12, <2>13 DEF RacyTurn
<1>11. CASE GetPositive
  <2>1. /\ UNCHANGED <<q, nodes, mine, ptr, num, sent, expected, errors, crashed>>
        /\ pc'["writer"] = pc["writer"]
        /\ pc["reader"] = "positive?"
        /\ q.count > 0 => pc'["reader"] = "count"
    BY <1>11, GetPositiveMoves DEF Moves, Threads, Still, locals, checks
  <2>2. pc'["reader"] = "count"
    BY <2>1 DEF RacyTurn, GetTurn, RacyCounted, GetCounts, Read
  <2>3. GetTurn'
    BY <2>1, <2>2 DEF RacyTurn, GetTurn, LastRight, nodes
  <2>4. RacyList'
    BY <2>1, <2>2, GetListKept DEF RacyTurn, RacyList
  <2>5. RacyPlaces'
    BY <2>1, <2>2 DEF RacyTurn, RacyPlaces, GetPlaces, nodes
  <2>6. RacyCounted'
    BY <2>1, <2>2 DEF RacyTurn, RacyCounted, GetCounts, Read
  <2> QED BY <2>1, <2>2, <2>3, <2>4, <2>5, <2>6 DEF RacyTurn
<1>12. CASE GetLoadCount
  <2>1. /\ UNCHANGED <<q, nodes, mine, ptr, sent, expected, errors, crashed>>
        /\ pc'["writer"] = pc["writer"] /\ pc["reader"] = "count" /\ pc'["reader"] = "count2"
        /\ num'["reader"] = q.count
    BY <1>12, GetLoadCountMoves DEF Moves, Threads, checks
  <2>2. GetTurn'
    BY <2>1 DEF RacyTurn, GetTurn, LastRight, nodes
  <2>3. RacyList'
    BY <2>1, GetListKept DEF RacyTurn, RacyList
  <2>4. RacyPlaces'
    BY <2>1 DEF RacyTurn, RacyPlaces, GetPlaces, nodes
  <2>5. RacyCounted'
    BY <2>1 DEF RacyTurn, RacyCounted, GetCounts, Read
  <2> QED BY <2>1, <2>2, <2>3, <2>4, <2>5 DEF RacyTurn
<1>13. CASE GetStoreCount
  <2>1. /\ UNCHANGED <<nodes, mine, ptr, num, sent, expected, errors, crashed>>
        /\ pc'["writer"] = pc["writer"] /\ pc["reader"] = "count2" /\ pc'["reader"] = "got"
        /\ q'.first = q.first /\ q'.last = q.last /\ q'.count = num["reader"] - 1 /\ q'.add_count = q.add_count
        /\ q'.get_count = q.get_count
    BY <1>13, GetStoreCountMoves DEF Moves, Threads, StillNodes, locals, checks
  <2>2. GetTurn'
    BY <2>1 DEF RacyTurn, GetTurn, LastRight, nodes
  <2>3. RacyList'
    BY <2>1, GetListKept DEF RacyTurn, RacyList
  <2>4. RacyPlaces'
    BY <2>1 DEF RacyTurn, RacyPlaces, GetPlaces, nodes
  <2>5. RacyCounted'
    BY <2>1 DEF RacyTurn, GetTurn, RacyCounted, GetCounts, Read
  <2> QED BY <2>1, <2>2, <2>3, <2>4, <2>5 DEF RacyTurn
<1>14. CASE GetReturn
  <2>1. /\ UNCHANGED <<nodes, mine, ptr, num, sent, expected, errors, crashed>>
        /\ pc'["writer"] = pc["writer"] /\ pc["reader"] = "got" /\ pc'["reader"] = "idle"
        /\ q'.first = q.first /\ q'.last = q.last /\ q'.count = q.count /\ q'.add_count = q.add_count
        /\ q'.get_count = IF q.get_count < q.add_count THEN q.get_count + 1 ELSE q.get_count
    BY <1>14, GetReturnMoves DEF Moves, Threads, StillNodes, locals, checks
  <2>2. q'.get_count = q.get_count + 1
    BY <2>1 DEF RacyTurn, GetTurn, RacyCounted, GetCounts, Read
  <2>3. GetTurn'
    BY <2>1, <2>2 DEF RacyTurn, GetTurn, LastRight, nodes
  <2>4. RacyList'
    BY <2>1, <2>2, GetListKept DEF RacyTurn, RacyList
  <2>5. RacyPlaces'
    BY <2>1, <2>2 DEF RacyTurn, RacyPlaces, GetPlaces, nodes
  <2>6. RacyCounted'
    BY <2>1, <2>2 DEF RacyTurn, GetTurn, RacyCounted, GetCounts, Read
  <2> QED BY <2>1, <2>2, <2>3, <2>4, <2>5, <2>6 DEF RacyTurn
<1> QED BY <1>1, <1>2, <1>3, <1>4, <1>5, <1>6, <1>7, <1>8, <1>9, <1>10, <1>11, <1>12, <1>13, <1>14 DEF Get

(* queue_get of the first version.                                         *)
LEMMA FirstGets ==
  ASSUME RacyTypes, FirstTurn, First!Get
  PROVE  FirstTurn' /\ crashed' = crashed /\ (errors' => errors)
<1>1. CASE GetCalled
  <2>1. /\ UNCHANGED <<q, nodes, mine, ptr, num, sent, expected, errors, crashed>>
        /\ pc'["writer"] = pc["writer"] /\ pc["reader"] = "idle" /\ pc'["reader"] = "count?"
    BY <1>1, GetCalledMoves DEF Moves, Threads, locals, checks
  <2>2. GetTurn'
    BY <2>1 DEF FirstTurn, GetTurn, LastRight, nodes
  <2>3. FirstList'
    BY <2>1, GetListKept DEF FirstTurn, FirstList
  <2>4. FirstPlaces'
    BY <2>1 DEF FirstTurn, FirstPlaces, GetPlaces, nodes
  <2>5. FirstCounted'
    BY <2>1 DEF FirstTurn, FirstCounted, GetCounts, Read
  <2> QED BY <2>1, <2>2, <2>3, <2>4, <2>5 DEF FirstTurn
<1>2. CASE First!GetCountTest
  <2>1. /\ UNCHANGED <<q, nodes, mine, ptr, num, sent, expected, errors, crashed>>
        /\ pc'["writer"] = pc["writer"]
        /\ pc["reader"] = "count?"
        /\ q.count = 0 => pc'["reader"] = "idle"
        /\ q.count # 0 => pc'["reader"] = "tmp"
    BY <1>2, FirstGetCountTestMoves DEF Moves, Threads, Still, locals, checks
  <2>2. sent \in Nat /\ expected \in Nat /\ expected =< sent /\ q.count = sent - expected
    BY <2>1 DEF FirstTurn, GetTurn, FirstCounted, GetCounts, Read
  <2>3. q.count # 0 => expected < sent
    BY <2>2
  <2>4. pc'["reader"] \in {"idle", "tmp"} /\ (pc'["reader"] = "tmp" => expected < sent)
    BY <2>1, <2>3
  <2>5. GetTurn'
    BY <2>1, <2>4 DEF FirstTurn, GetTurn, LastRight, nodes
  <2>6. FirstList'
    BY <2>1, <2>4, GetListKept DEF FirstTurn, FirstList
  <2>7. FirstPlaces'
    BY <2>1, <2>4 DEF FirstTurn, FirstPlaces, GetPlaces, nodes
  <2>8. FirstCounted'
    BY <2>1, <2>4 DEF FirstTurn, FirstCounted, GetCounts, Read
  <2> QED BY <2>1, <2>4, <2>5, <2>6, <2>7, <2>8 DEF FirstTurn
<1>3. CASE First!GetLoadFirst
  <2>1. /\ UNCHANGED <<q, nodes, ptr, num, sent, expected, errors, crashed>>
        /\ pc'["writer"] = pc["writer"] /\ pc["reader"] = "tmp" /\ mine'["reader"] = q.first
        /\ pc'["reader"] = "val"
    BY <1>3, FirstGetLoadFirstMoves DEF Moves, Threads, checks
  <2>2. GetTurn'
    BY <2>1 DEF FirstTurn, GetTurn, LastRight, nodes
  <2>3. FirstList'
    BY <2>1, GetListKept DEF FirstTurn, FirstList
  <2>4. FirstPlaces'
    BY <2>1 DEF FirstTurn, FirstPlaces, GetPlaces, nodes
  <2>5. FirstCounted'
    BY <2>1 DEF FirstTurn, FirstCounted, GetCounts, Read
  <2> QED BY <2>1, <2>2, <2>3, <2>4, <2>5 DEF FirstTurn
<1>4. CASE First!GetLoadVal
  <2>1. pc["reader"] = "val" /\ pc'["writer"] = pc["writer"] /\ UNCHANGED <<q, nodes, mine, ptr, num, sent>>
    BY <1>4, FirstGetLoadValMoves DEF Moves, Threads, locals
  <2>2. /\ sent \in Nat /\ expected \in Nat /\ expected < sent /\ mine["reader"] = q.first
    BY <2>1 DEF FirstTurn, GetTurn, FirstPlaces, GetPlaces
  <2>3. Chained(heap, val, next, q.first, expected, sent, sent, expected)
    BY <2>1 DEF FirstTurn, FirstList, GetList, Read, Shape
  <2>4. mine["reader"] \in heap /\ mine["reader"] \in Node /\ val[mine["reader"]] = expected
    BY <2>2, <2>3, NextToRead
  <2>5. pc'["reader"] = "first" /\ crashed' = crashed /\ GetCheck
    <3>1. \/ Moves("reader", "val", "first") /\ crashed' = crashed /\ GetCheck
          \/ mine["reader"] \notin Node
      BY <1>4, FirstGetLoadValMoves, Zenon
    <3> QED BY <2>4, <3>1 DEF Moves
  <2>6. (errors' => errors) /\ expected' = expected + 1 /\ expected' - 1 = expected
    <3>1. errors' => errors
      BY <2>4, <2>5, Zenon DEF GetCheck
    <3>2. expected' = expected + 1
      BY <2>2, <2>4, <2>5 DEF GetCheck
    <3> QED BY <2>2, <3>1, <3>2
  <2>7. GetTurn'
    BY <2>1, <2>2, <2>5, <2>6 DEF FirstTurn, GetTurn, LastRight, nodes
  <2>8. FirstList'
    BY <2>1, <2>3, <2>5, <2>6 DEF FirstList, GetList, Read, Shape, nodes
  <2>9. FirstPlaces'
    BY <2>1, <2>4, <2>5, <2>6 DEF FirstPlaces, GetPlaces, nodes
  <2>10. FirstCounted'
    BY <2>1, <2>5, <2>6 DEF FirstTurn, FirstCounted, GetCounts, Read
  <2> QED BY <2>1, <2>2, <2>5, <2>6, <2>7, <2>8, <2>9, <2>10 DEF FirstTurn
<1>5. CASE First!GetReloadFirst
  <2>1. /\ UNCHANGED <<q, nodes, mine, num, sent, expected, errors, crashed>>
        /\ pc'["writer"] = pc["writer"] /\ pc["reader"] = "first" /\ pc'["reader"] = "next"
        /\ ptr'["reader"] = q.first
    BY <1>5, FirstGetReloadFirstMoves DEF Moves, Threads, checks
  <2>2. GetTurn'
    BY <2>1 DEF FirstTurn, GetTurn, LastRight, nodes
  <2>3. FirstList'
    BY <2>1, GetListKept DEF FirstTurn, FirstList
  <2>4. FirstPlaces'
    BY <2>1 DEF FirstTurn, FirstPlaces, GetPlaces, nodes
  <2>5. FirstCounted'
    BY <2>1 DEF FirstTurn, FirstCounted, GetCounts, Read
  <2> QED BY <2>1, <2>2, <2>3, <2>4, <2>5 DEF FirstTurn
<1>6. CASE First!GetLoadNext
  <2>1. /\ UNCHANGED <<q, nodes, mine, num, sent, expected, errors>>
        /\ pc'["writer"] = pc["writer"] /\ pc["reader"] = "next"
    BY <1>6, FirstGetLoadNextMoves DEF Moves, Threads, checks
  <2>2. /\ mine["reader"] \in heap /\ val[mine["reader"]] = expected - 1 /\ ptr["reader"] = q.first
    BY <2>1 DEF FirstTurn, FirstPlaces, GetPlaces
  <2>3. Chained(heap, val, next, q.first, expected - 1, sent, sent, expected - 1)
    BY <2>1 DEF FirstTurn, FirstList, GetList, Read, Shape
  <2>4. q.first = mine["reader"] /\ mine["reader"] \in Node
    <3> DEFINE lo == expected - 1
    <3>1. Chained(heap, val, next, q.first, lo, sent, sent, lo) /\ val[mine["reader"]] = lo
      BY <2>2, <2>3
    <3> HIDE DEF lo
    <3>2. q.first = mine["reader"]
      BY <2>2, <3>1 DEF Chained
    <3> QED BY <2>2, <3>2 DEF RacyTypes
  <2>5. pc'["reader"] = "move" /\ crashed' = crashed /\ ptr'["reader"] = next[mine["reader"]]
    BY <1>6, <2>2, <2>4, FirstGetLoadNextMoves DEF Moves
  <2>6. GetTurn'
    BY <2>1, <2>5 DEF FirstTurn, GetTurn, LastRight, nodes
  <2>7. FirstList'
    BY <2>1, <2>5, GetListKept DEF FirstTurn, FirstList
  <2>8. FirstPlaces'
    BY <2>1, <2>5 DEF FirstTurn, FirstPlaces, GetPlaces, nodes
  <2>9. FirstCounted'
    BY <2>1, <2>5 DEF FirstTurn, FirstCounted, GetCounts, Read
  <2> QED BY <2>1, <2>5, <2>6, <2>7, <2>8, <2>9 DEF FirstTurn
<1>7. CASE First!GetMove
  <2>1. /\ UNCHANGED <<nodes, mine, ptr, num, sent, expected, errors, crashed>>
        /\ pc'["writer"] = pc["writer"] /\ pc["reader"] = "move" /\ pc'["reader"] = "free"
        /\ q'.first = ptr["reader"] /\ q'.last = q.last /\ q'.count = q.count /\ q'.add_count = q.add_count
        /\ q'.get_count = q.get_count
    BY <1>7, FirstGetMoveMoves DEF Moves, Threads, StillNodes, locals, checks
  <2> DEFINE lo == expected - 1
             n == mine["reader"]
  <2>2. expected \in Nat /\ n \in heap /\ val[n] = lo /\ ptr["reader"] = next[n]
    BY <2>1 DEF FirstTurn, GetTurn, FirstPlaces, GetPlaces
  <2>3. Chained(heap, val, next, q.first, lo, sent, sent, lo)
    BY <2>1 DEF FirstTurn, FirstList, GetList, Read, Shape
  <2> HIDE DEF n, lo
  <2>4. Chained(heap, val, next, next[n], lo, sent, sent, lo + 1)
    BY <2>2, <2>3, ChainMoves
  <2>5. lo = expected - 1 /\ lo + 1 = expected
    BY <2>2 DEF lo
  <2>6. Chained(heap, val, next, q'.first, expected - 1, sent, sent, expected)
    BY <2>1, <2>2, <2>4, <2>5
  <2>7. GetTurn'
    BY <2>1 DEF FirstTurn, GetTurn, LastRight, nodes
  <2>8. FirstList'
    BY <2>1, <2>6 DEF FirstList, GetList, Read, Shape, nodes
  <2>9. FirstPlaces'
    BY <2>1 DEF FirstTurn, FirstPlaces, GetPlaces, nodes
  <2>10. FirstCounted'
    BY <2>1 DEF FirstTurn, FirstCounted, GetCounts, Read
  <2> QED BY <2>1, <2>7, <2>8, <2>9, <2>10 DEF FirstTurn
<1>8. CASE First!GetFree("count")
  <2> DEFINE lo == expected - 1
             n == mine["reader"]
  <2>1. /\ UNCHANGED <<q, mine, ptr, num, sent, expected, errors, crashed>> /\ pc'["writer"] = pc["writer"]
        /\ pc["reader"] = "free" /\ pc'["reader"] = "count"
        /\ n \in heap /\ heap' = heap \ {n}
        /\ \A m \in Node : m # n => val'[m] = val[m] /\ next'[m] = next[m]
    BY <1>8, FirstSteps, Frees DEF Moves, Threads, locals, checks
  <2>2. sent \in Nat /\ expected \in Nat /\ val[n] = lo /\ LastRight
    BY <2>1 DEF FirstTurn, GetTurn, FirstPlaces, GetPlaces
  <2>3. Chained(heap, val, next, q.first, lo, sent, sent, expected)
    BY <2>1 DEF FirstTurn, FirstList, GetList, Read, Shape
  <2>4. lo = expected - 1 /\ lo + 1 = expected /\ lo \in Int
    BY <2>2
  <2> HIDE DEF n, lo
  <2>5. \A m \in heap : m # n => val'[m] = val[m] /\ next'[m] = next[m]
    BY <2>1 DEF RacyTypes
  <2>6. Chained(heap, val, next, q.first, lo, sent, sent, lo + 1)
    BY <2>3, <2>4
  <2>7. Chained(heap', val', next', q.first, lo + 1, sent, sent, lo + 1)
    BY <2>1, <2>2, <2>5, <2>6, ChainShrinks
  <2>8. Chained(heap', val', next', q.first, expected, sent, sent, expected)
    BY <2>4, <2>7
  <2>9. LastRight'
    <3> SUFFICES ASSUME expected < sent PROVE q.last \in heap' /\ val'[q.last] = sent - 1
      BY <2>1 DEF LastRight
    <3>1. q.last \in heap /\ val[q.last] = sent - 1
      BY <2>2 DEF LastRight
    <3>2. q.last # n
      BY <3>1, <2>2, <2>4
    <3> QED BY <3>1, <3>2, <2>1, <2>5
  <2>10. GetTurn'
    BY <2>1, <2>9 DEF FirstTurn, GetTurn
  <2>11. FirstList'
    BY <2>1, <2>8 DEF FirstList, GetList, Read, Shape
  <2>12. FirstPlaces'
    BY <2>1 DEF FirstPlaces, GetPlaces
  <2>13. FirstCounted'
    BY <2>1 DEF FirstTurn, FirstCounted, GetCounts, Read
  <2> QED BY <2>1, <2>10, <2>11, <2>12, <2>13 DEF FirstTurn
<1>9. CASE GetLoadCount
  <2>1. /\ UNCHANGED <<q, nodes, mine, ptr, sent, expected, errors, crashed>>
        /\ pc'["writer"] = pc["writer"] /\ pc["reader"] = "count" /\ pc'["reader"] = "count2"
        /\ num'["reader"] = q.count
    BY <1>9, GetLoadCountMoves DEF Moves, Threads, checks
  <2>2. GetTurn'
    BY <2>1 DEF FirstTurn, GetTurn, LastRight, nodes
  <2>3. FirstList'
    BY <2>1, GetListKept DEF FirstTurn, FirstList
  <2>4. FirstPlaces'
    BY <2>1 DEF FirstTurn, FirstPlaces, GetPlaces, nodes
  <2>5. FirstCounted'
    BY <2>1 DEF FirstTurn, FirstCounted, GetCounts, Read
  <2> QED BY <2>1, <2>2, <2>3, <2>4, <2>5 DEF FirstTurn
<1>10. CASE GetStoreCount
  <2>1. /\ UNCHANGED <<nodes, mine, ptr, num, sent, expected, errors, crashed>>
        /\ pc'["writer"] = pc["writer"] /\ pc["reader"] = "count2" /\ pc'["reader"] = "got"
        /\ q'.first = q.first /\ q'.last = q.last /\ q'.count = num["reader"] - 1 /\ q'.add_count = q.add_count
        /\ q'.get_count = q.get_count
    BY <1>10, GetStoreCountMoves DEF Moves, Threads, StillNodes, locals, checks
  <2>2. GetTurn'
    BY <2>1 DEF FirstTurn, GetTurn, LastRight, nodes
  <2>3. FirstList'
    BY <2>1, GetListKept DEF FirstTurn, FirstList
  <2>4. FirstPlaces'
    BY <2>1 DEF FirstTurn, FirstPlaces, GetPlaces, nodes
  <2>5. FirstCounted'
    BY <2>1 DEF FirstTurn, GetTurn, FirstCounted, GetCounts, Read
  <2> QED BY <2>1, <2>2, <2>3, <2>4, <2>5 DEF FirstTurn
<1>11. CASE First!GetReturn
  <2>1. /\ UNCHANGED <<nodes, mine, ptr, num, sent, expected, errors, crashed>>
        /\ pc'["writer"] = pc["writer"] /\ pc["reader"] = "got" /\ pc'["reader"] = "idle"
        /\ q'.first = q.first /\ q'.last = q.last /\ q'.count = q.count /\ q'.add_count = q.add_count
        /\ q'.get_count = q.get_count + 1
    BY <1>11, FirstGetReturnMoves DEF Moves, Threads, StillNodes, locals, checks
  <2>2. GetTurn'
    BY <2>1 DEF FirstTurn, GetTurn, LastRight, nodes
  <2>3. FirstList'
    BY <2>1, GetListKept DEF FirstTurn, FirstList
  <2>4. FirstPlaces'
    BY <2>1 DEF FirstTurn, FirstPlaces, GetPlaces, nodes
  <2>5. FirstCounted'
    BY <2>1 DEF FirstTurn, GetTurn, FirstCounted, GetCounts, Read
  <2> QED BY <2>1, <2>2, <2>3, <2>4, <2>5 DEF FirstTurn
<1> QED BY SharedSteps, <1>1, <1>2, <1>3, <1>4, <1>5, <1>6, <1>7, <1>8, <1>9, <1>10, <1>11 DEF First!Get

(* Every set of numbers has a least one.                                   *)
LEMMA LeastNumber ==
  ASSUME NEW T, T \subseteq Nat, T # {}
  PROVE  \E x \in T : \A y \in T : x =< y
<1> DEFINE R == OpToRel(<, Nat)
<1>1. IsWellFoundedOn(R, Nat)
  BY NatLessThanWellFounded, Zenon
<1>2. \A x, y \in Nat : <<y, x>> \in R <=> y < x
  BY DEF OpToRel
<1> HIDE DEF R
<1>3. PICK x \in T : \A y \in T : ~ (<<y, x>> \in R)
  BY <1>1, WFMin
<1>4. x \in Nat /\ \A y \in T : y \in Nat /\ ~(y < x)
  BY <1>2, <1>3
<1> QED BY <1>4

(* The walk along a chain comes to its values one after the other, and at  *)
(* its end to NULL.                                                        *)
LEMMA WalkOfChain ==
  ASSUME RacyTypes, NEW lo, NEW hi, Chained(heap, val, next, q.first, lo, hi, hi, lo)
  PROVE  \A k \in Nat : walk[k] = IF k < hi - lo THEN CHOOSE n \in heap : val[n] = lo + k ELSE NULL
<1> DEFINE Of(v) == CHOOSE n \in heap : val[n] = v
           Passed(k) == IF k < hi - lo THEN Of(lo + k) ELSE NULL
           On(n) == IF n \in Node THEN next[n] ELSE NULL
           Step(w, k) == IF k = 0 THEN q.first ELSE On(w[k - 1])
           IsWalk(w) == w = [k \in Nat |-> Step(w, k)]
<1>0. NULL \notin Node /\ heap \subseteq Node
  BY PointerAssumption DEF RacyTypes
<1>1. /\ lo \in Int /\ hi \in Int /\ lo =< hi
      /\ \A n \in heap : val[n] \in lo..hi - 1
      /\ \A v \in lo..hi - 1 : \E n \in heap : val[n] = v
      /\ \A m, n \in heap : val[m] = val[n] => m = n
      /\ \A n \in heap : /\ val[n] < hi - 1 => next[n] \in heap /\ val[next[n]] = val[n] + 1
                         /\ val[n] >= hi - 1 => next[n] = NULL
      /\ lo < hi => q.first \in heap /\ val[q.first] = lo
      /\ lo = hi => q.first = NULL
  BY DEF Chained
<1>2. \A v \in lo..hi - 1 : Of(v) \in heap /\ val[Of(v)] = v
  BY <1>1
<1>3. \A n \in heap : Of(val[n]) = n
  BY <1>1, <1>2
<1> HIDE DEF Of
<1>4. Passed(0) = q.first
  BY <1>1, <1>3
<1>5. ASSUME NEW k \in Nat, k # 0 PROVE Passed(k) = On(Passed(k - 1))
  <2>1. CASE k < hi - lo
    <3>1. Passed(k) = Of(lo + k) /\ Passed(k - 1) = Of(lo + k - 1)
      BY <1>1, <2>1
    <3>2. lo + k - 1 \in lo..hi - 1 /\ lo + k - 1 < hi - 1 /\ lo + k - 1 + 1 = lo + k
      BY <1>1, <1>5, <2>1
    <3> DEFINE n == Of(lo + k - 1)
    <3>3. n \in heap /\ val[n] = lo + k - 1
      BY <1>2, <3>2
    <3> HIDE DEF n
    <3>4. next[n] \in heap /\ val[next[n]] = lo + k
      BY <1>1, <3>2, <3>3
    <3>5. next[n] = Of(lo + k)
      BY <1>3, <3>4
    <3> QED BY <1>0, <3>1, <3>3, <3>5 DEF n
  <2>2. CASE k = hi - lo
    <3>1. Passed(k) = NULL /\ Passed(k - 1) = Of(hi - 1)
      BY <1>1, <2>2
    <3>2. hi - 1 \in lo..hi - 1
      BY <1>1, <1>5, <2>2
    <3> DEFINE n == Of(hi - 1)
    <3>3. n \in heap /\ val[n] = hi - 1
      BY <1>2, <3>2
    <3> HIDE DEF n
    <3>4. next[n] = NULL
      BY <1>1, <3>2, <3>3
    <3> QED BY <1>0, <3>1, <3>3, <3>4 DEF n
  <2>3. CASE k > hi - lo
    BY <1>0, <1>1, <2>3
  <2> QED BY <1>1, <2>1, <2>2, <2>3
<1> HIDE DEF On
<1>6. IsWalk([k \in Nat |-> Passed(k)])
  <2> DEFINE w == [k \in Nat |-> Passed(k)]
  <2>1. ASSUME NEW k \in Nat PROVE Passed(k) = Step(w, k)
    <3>1. CASE k = 0
      BY <3>1, <1>4
    <3>2. CASE k # 0
      <4>1. w[k - 1] = Passed(k - 1)
        BY <3>2
      <4> HIDE DEF Passed, w
      <4> QED BY <3>2, <4>1, <1>5
    <3> QED BY <3>1, <3>2
  <2> HIDE DEF Passed, Step
  <2> QED BY <2>1
<1>7. walk = CHOOSE w : IsWalk(w)
  BY DEF walk, On
<1>8. IsWalk(walk)
  <2> HIDE DEF IsWalk
  <2> QED BY <1>6, <1>7
<1> HIDE DEF Passed
<1>9. \A k \in Nat : walk[k] = Passed(k)
  <2> DEFINE T == {k \in Nat : walk[k] # Passed(k)}
  <2> SUFFICES ASSUME T # {} PROVE FALSE
    OBVIOUS
  <2>0. T \subseteq Nat
    OBVIOUS
  <2> HIDE DEF T
  <2>1. PICK k \in T : \A j \in T : k =< j
    BY <2>0, LeastNumber
  <2> USE DEF T
  <2>2. k \in Nat /\ walk[k] # Passed(k)
    OBVIOUS
  <2>3. walk[0] = q.first
    BY <1>8
  <2>4. k # 0 /\ k - 1 \in Nat /\ k - 1 \notin T
    BY <1>4, <2>1, <2>2, <2>3
  <2>5. walk[k - 1] = Passed(k - 1)
    BY <2>4
  <2>6. walk[k] = On(walk[k - 1])
    BY <1>8, <2>2, <2>4
  <2> QED BY <1>5, <2>2, <2>4, <2>5, <2>6
<1> QED BY <1>9 DEF Passed, Of

(* Between the calls the list holds exactly the allocated nodes.           *)
LEMMA RestedList ==
  ASSUME RacyTypes, sent \in Nat, expected \in Nat, LastRight,
         Chained(heap, val, next, q.first, expected, sent, sent, expected)
  PROVE  LET d == sent - expected IN
         /\ d \in Nat /\ heap = {walk[k] : k \in 0..d - 1} /\ Cardinality(heap) = d
         /\ walk[d] = NULL /\ (d > 0 => q.last = walk[d - 1])
<1> DEFINE d == sent - expected
           Of(v) == CHOOSE n \in heap : val[n] = v
<1>1. /\ d \in Nat
      /\ \A n \in heap : val[n] \in expected..sent - 1
      /\ \A v \in expected..sent - 1 : \E n \in heap : val[n] = v
      /\ \A m, n \in heap : val[m] = val[n] => m = n
  BY DEF Chained
<1>2. \A k \in Nat : walk[k] = IF k < d THEN Of(expected + k) ELSE NULL
  BY WalkOfChain
<1>3. \A v \in expected..sent - 1 : Of(v) \in heap /\ val[Of(v)] = v
  BY <1>1
<1>4. \A n \in heap : Of(val[n]) = n
  BY <1>1, <1>3
<1> HIDE DEF Of
<1>5. \A k \in 0..d - 1 : expected + k \in expected..sent - 1 /\ walk[k] = Of(expected + k)
  BY <1>1, <1>2
<1>6. heap = {walk[k] : k \in 0..d - 1}
  <2>1. ASSUME NEW k \in 0..d - 1 PROVE walk[k] \in heap
    BY <1>3, <1>5
  <2>2. ASSUME NEW n \in heap PROVE \E k \in 0..d - 1 : walk[k] = n
    <3> DEFINE k == val[n] - expected
    <3>1. k \in 0..d - 1 /\ expected + k = val[n]
      BY <1>1
    <3>2. walk[k] = n
      BY <1>4, <1>5, <3>1
    <3> QED BY <3>1, <3>2
  <2> QED BY <2>1, <2>2
<1>7. Cardinality(heap) = d
  <2> DEFINE f == [v \in expected..sent - 1 |-> Of(v)]
  <2>1. f \in Bijection(expected..sent - 1, heap)
    <3>1. f \in [expected..sent - 1 -> heap]
      BY <1>3
    <3>2. \A v, w \in expected..sent - 1 : f[v] = f[w] => v = w
      BY <1>3
    <3>3. \A n \in heap : \E v \in expected..sent - 1 : f[v] = n
      BY <1>1, <1>4
    <3> HIDE DEF f
    <3> QED BY <3>1, <3>2, <3>3 DEF Bijection, Injection, Surjection, IsInjective
  <2>2. ExistsBijection(expected..sent - 1, heap)
    BY <2>1 DEF ExistsBijection
  <2>3. IsFiniteSet(expected..sent - 1) /\ Cardinality(expected..sent - 1) = d
    <3>1. expected \in Int /\ sent - 1 \in Int
      OBVIOUS
    <3>2. /\ IsFiniteSet(expected..sent - 1)
          /\ Cardinality(expected..sent - 1)
               = IF expected > sent - 1 THEN 0 ELSE (sent - 1) - expected + 1
      BY <3>1, FS_Interval
    <3> QED BY <1>1, <3>2
  <2> QED BY <2>2, <2>3, FS_Bijection
<1>8. walk[d] = NULL
  BY <1>1, <1>2
<1>9. d > 0 => q.last = walk[d - 1]
  <2> SUFFICES ASSUME d > 0 PROVE q.last = walk[d - 1]
    OBVIOUS
  <2>1. q.last \in heap /\ val[q.last] = sent - 1
    BY DEF LastRight
  <2>2. q.last = Of(sent - 1)
    BY <1>4, <2>1
  <2>3. d - 1 \in 0..d - 1 /\ expected + (d - 1) = sent - 1
    BY <1>1
  <2> HIDE DEF d
  <2>4. walk[d - 1] = Of(sent - 1)
    BY <1>5, <2>3
  <2> QED BY <2>2, <2>4
<1> QED BY <1>1, <1>6, <1>7, <1>8, <1>9

(* Between two calls it may be either thread's turn.                       *)
LEMMA RacyTurns ==
  ASSUME AddTurn \/ RacyTurn
  PROVE  /\ pc["reader"] = "idle" => AddTurn
         /\ pc["writer"] = "idle" => RacyTurn
<1>1. ASSUME RacyTurn, pc["reader"] = "idle" PROVE AddTurn
  <2>1. /\ pc["writer"] = "idle" /\ sent \in Nat /\ expected \in Nat /\ LastRight
        /\ Chained(heap, val, next, q.first, expected, sent, sent, expected)
        /\ q.count = sent - expected /\ q.add_count = sent /\ q.get_count = expected
    BY <1>1 DEF RacyTurn, GetTurn, RacyList, GetList, RacyCounted, GetCounts, Read, Shape
  <2>2. AddList
    BY <2>1 DEF AddList, Sent, Grown, Joined, Shape
  <2>3. AddPlaces /\ AddLast
    BY <2>1 DEF AddPlaces, AddLast, Grown, Renewed
  <2>4. AddCounts
    BY <2>1 DEF AddCounts, Sent
  <2> QED BY <1>1, <2>1, <2>2, <2>3, <2>4 DEF AddTurn
<1>2. ASSUME AddTurn, pc["writer"] = "idle" PROVE RacyTurn
  <2>1. /\ pc["reader"] = "idle" /\ sent \in Nat /\ expected \in Nat /\ LastRight
        /\ Chained(heap, val, next, q.first, expected, sent, sent, expected)
    BY <1>2 DEF AddTurn, AddList, AddLast, Sent, Grown, Joined, Renewed, Shape
  <2>2. q.count = sent - expected /\ q.add_count = sent /\ q.get_count = expected
    BY <1>2 DEF AddTurn, AddCounts, Sent
  <2>3. RacyList
    BY <2>1 DEF RacyList, GetList, Read, Shape
  <2>4. RacyPlaces
    BY <2>1 DEF RacyPlaces, GetPlaces
  <2>5. RacyCounted
    BY <2>1, <2>2 DEF RacyCounted, GetCounts, Read
  <2>6. expected =< sent
    BY <2>1 DEF Chained
  <2> QED BY <1>2, <2>1, <2>3, <2>4, <2>5, <2>6 DEF RacyTurn, GetTurn
<1> QED BY <1>1, <1>2

LEMMA FirstTurns ==
  ASSUME AddTurn \/ FirstTurn
  PROVE  /\ pc["reader"] = "idle" => AddTurn
         /\ pc["writer"] = "idle" => FirstTurn
<1>1. ASSUME FirstTurn, pc["reader"] = "idle" PROVE AddTurn
  <2>1. /\ pc["writer"] = "idle" /\ sent \in Nat /\ expected \in Nat /\ LastRight
        /\ Chained(heap, val, next, q.first, expected, sent, sent, expected)
        /\ q.count = sent - expected /\ q.add_count = sent /\ q.get_count = expected
    BY <1>1 DEF FirstTurn, GetTurn, FirstList, GetList, FirstCounted, GetCounts, Read, Shape
  <2>2. AddList
    BY <2>1 DEF AddList, Sent, Grown, Joined, Shape
  <2>3. AddPlaces /\ AddLast
    BY <2>1 DEF AddPlaces, AddLast, Grown, Renewed
  <2>4. AddCounts
    BY <2>1 DEF AddCounts, Sent
  <2> QED BY <1>1, <2>1, <2>2, <2>3, <2>4 DEF AddTurn
<1>2. ASSUME AddTurn, pc["writer"] = "idle" PROVE FirstTurn
  <2>1. /\ pc["reader"] = "idle" /\ sent \in Nat /\ expected \in Nat /\ LastRight
        /\ Chained(heap, val, next, q.first, expected, sent, sent, expected)
    BY <1>2 DEF AddTurn, AddList, AddLast, Sent, Grown, Joined, Renewed, Shape
  <2>2. q.count = sent - expected /\ q.add_count = sent /\ q.get_count = expected
    BY <1>2 DEF AddTurn, AddCounts, Sent
  <2>3. FirstList
    BY <2>1 DEF FirstList, GetList, Read, Shape
  <2>4. FirstPlaces
    BY <2>1 DEF FirstPlaces, GetPlaces
  <2>5. FirstCounted
    BY <2>1, <2>2 DEF FirstCounted, GetCounts, Read
  <2>6. expected =< sent
    BY <2>1 DEF Chained
  <2> QED BY <1>2, <2>1, <2>3, <2>4, <2>5, <2>6 DEF FirstTurn, GetTurn
<1> QED BY <1>1, <1>2

(* What the steps of queue_add do to the rest of the state.                *)
LEMMA AddsBusy ==
  ASSUME RacyTypes,
         \/ AddFull \/ AddMalloc \/ AddNoMemory \/ AddOnlyLast \/ AddOnlyFirst
         \/ AddLoadTail \/ AddLoadCount \/ AddStoreCount \/ AddReturn
  PROVE  /\ pc["writer"] # "idle" /\ pc'["writer"] # "settail"
         /\ overlapped' = overlapped /\ errors' = errors /\ crashed' \in {crashed, "malloc"}
<1>1. CASE AddFull
  BY <1>1, AddFullMoves DEF Moves, Threads, Still, StillNodes, locals, checks
<1>2. CASE AddMalloc
  BY <1>2, Mallocs DEF Moves, Threads, Still, StillNodes, locals, checks
<1>3. CASE AddNoMemory
  BY <1>3, AddNoMemoryMoves DEF Moves, Threads, Still, StillNodes, locals, checks
<1>4. CASE AddOnlyLast
  BY <1>4, AddOnlyLastMoves DEF Moves, Threads, Still, StillNodes, locals, checks
<1>5. CASE AddOnlyFirst
  BY <1>5, AddOnlyFirstMoves DEF Moves, Threads, Still, StillNodes, locals, checks
<1>6. CASE AddLoadTail
  BY <1>6, AddLoadTailMoves DEF Moves, Threads, Still, StillNodes, locals, checks
<1>7. CASE AddLoadCount
  BY <1>7, AddLoadCountMoves DEF Moves, Threads, Still, StillNodes, locals, checks
<1>8. CASE AddStoreCount
  BY <1>8, AddStoreCountMoves DEF Moves, Threads, Still, StillNodes, locals, checks
<1>9. CASE AddReturn
  BY <1>9, Returns DEF Moves, Threads, Still, StillNodes, locals, checks
<1> QED BY <1>1, <1>2, <1>3, <1>4, <1>5, <1>6, <1>7, <1>8, <1>9

LEMMA RacyAddsBusy ==
  ASSUME RacyTypes, AddEmpty \/ AddHasLast \/ AddLinkTail \/ AddSetLast
  PROVE  pc["writer"] # "idle" /\ overlapped' = overlapped /\ errors' = errors
<1>1. CASE AddEmpty
  BY <1>1, AddEmptyMoves DEF Moves, Still, StillNodes, checks
<1>2. CASE AddHasLast
  BY <1>2, AddHasLastMoves DEF Moves, Still, StillNodes, checks
<1>3. CASE AddLinkTail
  BY <1>3, AddLinkTailMoves DEF Moves, Still, StillNodes, checks
<1>4. CASE AddSetLast
  BY <1>4, AddSetLastMoves DEF Moves, Still, StillNodes, checks
<1> QED BY <1>1, <1>2, <1>3, <1>4

LEMMA FirstAddsBusy ==
  ASSUME RacyTypes,
         \/ First!AddEmpty \/ First!AddLinkTail \/ First!AddLoadLast \/ First!AddLoadNext \/ First!AddSetLast
  PROVE  pc["writer"] # "idle" /\ overlapped' = overlapped /\ errors' = errors
<1>1. CASE First!AddEmpty
  BY <1>1, FirstAddEmptyMoves DEF Moves, Still, StillNodes, checks
<1>2. CASE First!AddLinkTail
  BY <1>2, FirstAddLinkTailMoves DEF Moves, Still, StillNodes, checks
<1>3. CASE First!AddLoadLast
  BY <1>3, FirstAddLoadLastMoves DEF Moves, Still, StillNodes, checks
<1>4. CASE First!AddLoadNext
  BY <1>4, FirstAddLoadNextMoves DEF Moves, Still, StillNodes, checks
<1>5. CASE First!AddSetLast
  BY <1>5, FirstAddSetLastMoves DEF Moves, Still, StillNodes, checks
<1> QED BY <1>1, <1>2, <1>3, <1>4, <1>5

(* One thread at a time never comes to the repairs of queue_add.           *)
LEMMA NoRepairs ==
  ASSUME RacyTypes, AddTurn \/ RacyTurn,
         AddStillFirst \/ AddLoadFirst \/ AddOneNode \/ AddLoadRepair \/ AddLinkRepair
  PROVE  FALSE
<1>1. pc["writer"] \in Grown \cup {"idle", "full?", "malloc"}
  BY DEF AddTurn, AddPlaces, RacyTurn, GetTurn
<1>2. CASE AddStillFirst
  BY <1>1, <1>2, AddStillFirstMoves DEF Moves, Grown
<1>3. CASE AddLoadFirst
  BY <1>1, <1>3, AddLoadFirstMoves DEF Moves, Grown
<1>4. CASE AddOneNode
  BY <1>1, <1>4, AddOneNodeMoves DEF Moves, Grown
<1>5. CASE AddLoadRepair
  BY <1>1, <1>5, AddLoadRepairMoves DEF Moves, Grown
<1>6. CASE AddLinkRepair
  BY <1>1, <1>6, AddLinkRepairMoves DEF Moves, Grown
<1> QED BY <1>1, <1>2, <1>3, <1>4, <1>5, <1>6

LEMMA GetsBusy ==
  ASSUME RacyTypes, Get, ~GetCalled
  PROVE  pc["reader"] # "idle" /\ overlapped' = overlapped
<1>1. CASE GetCountTest
  BY <1>1, GetCountTestMoves DEF Moves, Still, StillNodes
<1>2. CASE GetFirstTest
  BY <1>2, GetFirstTestMoves DEF Moves, Still, StillNodes
<1>3. CASE GetZeroTest
  BY <1>3, GetZeroTestMoves DEF Moves, Still, StillNodes
<1>4. CASE GetLoadFirst
  BY <1>4, GetLoadFirstMoves DEF Moves, Still, StillNodes
<1>5. CASE GetLoadNode
  BY <1>5, GetLoadNodeMoves DEF Moves, Still, StillNodes
<1>6. CASE GetMove
  BY <1>6, GetMoveMoves DEF Moves, Still, StillNodes
<1>7. CASE GetEmptyTest
  BY <1>7, GetEmptyTestMoves DEF Moves, Still, StillNodes
<1>8. CASE GetClearLast
  BY <1>8, GetClearLastMoves DEF Moves, Still, StillNodes
<1>9. CASE GetFree("positive?")
  BY <1>9, Frees DEF Moves, Still, StillNodes
<1>10. CASE GetPositive
  BY <1>10, GetPositiveMoves DEF Moves, Still, StillNodes
<1>11. CASE GetLoadCount
  BY <1>11, GetLoadCountMoves DEF Moves, Still, StillNodes
<1>12. CASE GetStoreCount
  BY <1>12, GetStoreCountMoves DEF Moves, Still, StillNodes
<1>13. CASE GetReturn
  BY <1>13, GetReturnMoves DEF Moves, Still, StillNodes
<1> QED BY <1>1, <1>2, <1>3, <1>4, <1>5, <1>6, <1>7, <1>8, <1>9, <1>10, <1>11, <1>12, <1>13 DEF Get

LEMMA FirstGetsBusy ==
  ASSUME RacyTypes, First!Get, ~GetCalled
  PROVE  pc["reader"] # "idle" /\ overlapped' = overlapped
<1>1. CASE First!GetCountTest
  BY <1>1, FirstGetCountTestMoves DEF Moves, Still, StillNodes
<1>2. CASE First!GetLoadFirst
  BY <1>2, FirstGetLoadFirstMoves DEF Moves, Still, StillNodes
<1>3. CASE First!GetLoadVal
  BY <1>3, FirstGetLoadValMoves DEF Moves, Still, StillNodes
<1>4. CASE First!GetReloadFirst
  BY <1>4, FirstGetReloadFirstMoves DEF Moves, Still, StillNodes
<1>5. CASE First!GetLoadNext
  BY <1>5, FirstGetLoadNextMoves DEF Moves, Still, StillNodes
<1>6. CASE First!GetMove
  BY <1>6, FirstGetMoveMoves DEF Moves, Still, StillNodes
<1>7. CASE First!GetFree("count")
  BY <1>7, FirstSteps, Frees DEF Moves, Still, StillNodes
<1>8. CASE First!GetReturn
  BY <1>8, FirstGetReturnMoves DEF Moves, Still, StillNodes
<1>9. CASE GetLoadCount
  BY <1>9, GetLoadCountMoves DEF Moves, StillNodes
<1>10. CASE GetStoreCount
  BY <1>10, GetStoreCountMoves DEF Moves, StillNodes
<1> QED BY SharedSteps, <1>1, <1>2, <1>3, <1>4, <1>5, <1>6, <1>7, <1>8, <1>9, <1>10 DEF First!Get

LEMMA OrderStart == Init => RacyOrder /\ FirstOrder
<1> SUFFICES ASSUME Init PROVE RacyOrder /\ FirstOrder
  OBVIOUS
<1>1. /\ sent = 0 /\ expected = 0 /\ ~errors /\ crashed = "no"
      /\ pc["writer"] = "idle" /\ pc["reader"] = "idle"
      /\ q.first = NULL /\ q.count = 0 /\ q.add_count = 0 /\ q.get_count = 0 /\ heap = {}
  BY DEF Init
<1>2. Chained(heap, val, next, q.first, 0, 0, 0, 0)
  BY <1>1, ChainStart
<1>3. AddList
  BY <1>1, <1>2 DEF AddList, Shape, Sent, Grown, Joined
<1>4. AddLast /\ AddPlaces
  BY <1>1 DEF AddLast, LastRight, AddPlaces, Grown, Renewed
<1>5. AddCounts
  BY <1>1 DEF AddCounts, Sent
<1>6. AddTurn /\ FirstTail
  BY <1>1, <1>3, <1>4, <1>5 DEF AddTurn, FirstTail
<1> QED BY <1>1, <1>6 DEF RacyOrder, FirstOrder, Fine

(* A call that begins while the other thread is in one is the end of the   *)
(* order that is promised.                                                 *)
LEMMA RacyOrderStep ==
  ASSUME RacyTypes, RacyOrder, Next
  PROVE  RacyOrder'
<1> SUFFICES ASSUME ~overlapped'
             PROVE  (~errors /\ crashed \in {"no", "malloc"} /\ (AddTurn \/ RacyTurn))'
  BY DEF RacyOrder, Fine
<1>1. crashed = "no" /\ (Add \/ Get)
  BY DEF Next
<1>2. CASE AddCalled
  <2>1. ~overlapped /\ pc["reader"] = "idle" /\ errors' = errors /\ crashed' = crashed
    BY <1>2, AddCalledMoves, Zenon DEF checks
  <2>2. AddTurn
    BY <2>1, RacyTurns DEF RacyOrder
  <2> QED BY <1>1, <1>2, <2>1, <2>2, AddsShared DEF RacyOrder, Fine
<1>3. CASE GetCalled
  <2>1. ~overlapped /\ pc["writer"] = "idle"
    BY <1>3, GetCalledMoves, Zenon
  <2>2. RacyTurn
    BY <2>1, RacyTurns DEF RacyOrder
  <2>3. Get
    BY <1>3 DEF Get
  <2> QED BY <1>1, <2>1, <2>2, <2>3, RacyGets DEF RacyOrder, Fine
<1>4. CASE \/ AddFull \/ AddMalloc \/ AddNoMemory \/ AddOnlyLast \/ AddOnlyFirst
           \/ AddLoadTail \/ AddLoadCount \/ AddStoreCount \/ AddReturn
  <2>1. /\ pc["writer"] # "idle" /\ overlapped' = overlapped /\ errors' = errors
        /\ crashed' \in {crashed, "malloc"}
    BY <1>4, AddsBusy
  <2>2. AddTurn
    BY <2>1 DEF RacyOrder, RacyTurn, GetTurn
  <2>3. AddTurn'
    BY <1>4, <2>2, AddsShared
  <2> QED BY <1>1, <2>1, <2>3 DEF RacyOrder, Fine
<1>5. CASE AddEmpty \/ AddHasLast \/ AddLinkTail \/ AddSetLast
  <2>1. pc["writer"] # "idle" /\ overlapped' = overlapped /\ errors' = errors
    BY <1>5, RacyAddsBusy
  <2>2. AddTurn
    BY <2>1 DEF RacyOrder, RacyTurn, GetTurn
  <2>3. AddTurn' /\ crashed' = crashed
    BY <1>5, <2>2, RacyAdds
  <2> QED BY <1>1, <2>1, <2>3 DEF RacyOrder, Fine
<1>6. CASE AddStillFirst \/ AddLoadFirst \/ AddOneNode \/ AddLoadRepair \/ AddLinkRepair
  <2>1. ~overlapped
    BY <1>6, AddStillFirstMoves, AddLoadFirstMoves, AddOneNodeMoves, AddLoadRepairMoves, AddLinkRepairMoves DEF Still
  <2> QED BY <1>6, <2>1, NoRepairs DEF RacyOrder
<1>7. CASE Get /\ ~GetCalled
  <2>1. pc["reader"] # "idle" /\ overlapped' = overlapped
    BY <1>7, GetsBusy
  <2>2. RacyTurn
    BY <2>1, RacyTurns DEF RacyOrder, AddTurn
  <2> QED BY <1>1, <1>7, <2>1, <2>2, RacyGets DEF RacyOrder, Fine
<1> QED BY <1>1, <1>2, <1>3, <1>4, <1>5, <1>6, <1>7 DEF Add

LEMMA FirstOrderStep ==
  ASSUME RacyTypes, FirstOrder, First!Next
  PROVE  FirstOrder'
<1> SUFFICES ASSUME ~overlapped'
             PROVE  (~errors /\ crashed \in {"no", "malloc"} /\ ((AddTurn /\ FirstTail) \/ FirstTurn))'
  BY DEF FirstOrder, Fine
<1>1. crashed = "no" /\ (First!Add \/ First!Get)
  BY DEF First!Next
<1>2. CASE AddCalled
  <2>1. /\ ~overlapped /\ pc["reader"] = "idle" /\ errors' = errors /\ crashed' = crashed
        /\ pc'["writer"] = "full?"
    BY <1>2, AddCalledMoves, Zenon DEF checks, Moves
  <2>2. AddTurn
    BY <2>1, FirstTurns DEF FirstOrder
  <2> QED BY <1>1, <1>2, <2>1, <2>2, AddsShared DEF FirstOrder, Fine, FirstTail
<1>3. CASE GetCalled
  <2>1. ~overlapped /\ pc["writer"] = "idle"
    BY <1>3, GetCalledMoves, Zenon
  <2>2. FirstTurn
    BY <2>1, FirstTurns DEF FirstOrder
  <2>3. First!Get
    BY <1>3, SharedSteps DEF First!Get
  <2> QED BY <1>1, <2>1, <2>2, <2>3, FirstGets DEF FirstOrder, Fine
<1>4. CASE \/ AddFull \/ AddMalloc \/ AddNoMemory \/ AddOnlyLast \/ AddOnlyFirst
           \/ AddLoadTail \/ AddLoadCount \/ AddStoreCount \/ AddReturn
  <2>1. /\ pc["writer"] # "idle" /\ overlapped' = overlapped /\ errors' = errors
        /\ crashed' \in {crashed, "malloc"} /\ pc'["writer"] # "settail"
    BY <1>4, AddsBusy
  <2>2. AddTurn
    BY <2>1 DEF FirstOrder, FirstTurn, GetTurn
  <2>3. AddTurn'
    BY <1>4, <2>2, AddsShared
  <2> QED BY <1>1, <2>1, <2>3 DEF FirstOrder, Fine, FirstTail
<1>5. CASE First!AddEmpty \/ First!AddLinkTail \/ First!AddLoadLast \/ First!AddLoadNext \/ First!AddSetLast
  <2>1. pc["writer"] # "idle" /\ overlapped' = overlapped /\ errors' = errors
    BY <1>5, FirstAddsBusy
  <2>2. AddTurn /\ FirstTail
    BY <2>1 DEF FirstOrder, FirstTurn, GetTurn
  <2>3. AddTurn' /\ FirstTail' /\ crashed' = crashed
    BY <1>5, <2>2, FirstAdds
  <2> QED BY <1>1, <2>1, <2>3 DEF FirstOrder, Fine
<1>6. CASE First!Get /\ ~GetCalled
  <2>1. pc["reader"] # "idle" /\ overlapped' = overlapped
    BY <1>6, FirstGetsBusy
  <2>2. FirstTurn
    BY <2>1, FirstTurns DEF FirstOrder, AddTurn
  <2> QED BY <1>1, <1>6, <2>1, <2>2, FirstGets DEF FirstOrder, Fine
<1> QED BY <1>1, <1>2, <1>3, <1>4, <1>5, <1>6, SharedSteps DEF First!Add

(* The invariants, and what follows from them.                             *)
LEMMA OrderIsSequential ==
  ASSUME RacyTypes, RacyOrder \/ FirstOrder
  PROVE  Sequential
<1>1. Fine /\ (~overlapped => AddTurn \/ RacyTurn \/ FirstTurn)
  BY DEF RacyOrder, FirstOrder
<1> SUFFICES ASSUME Resting
             PROVE  /\ heap = {walk[k] : k \in 0..q.count - 1} /\ q.count = Cardinality(heap)
                    /\ walk[q.count] = NULL /\ (q.count > 0 => q.last = walk[q.count - 1])
                    /\ q.count = sent - expected /\ q.add_count = sent /\ q.get_count = expected
  BY <1>1, Zenon DEF Sequential, Fine
<1>2. ~overlapped /\ pc["reader"] = "idle" /\ pc["writer"] = "idle"
  BY DEF Resting, RacyTypes, Threads
<1>3. AddTurn
  BY <1>1, <1>2, RacyTurns, FirstTurns
<1>4. /\ sent \in Nat /\ expected \in Nat /\ LastRight
      /\ Chained(heap, val, next, q.first, expected, sent, sent, expected)
  BY <1>2, <1>3 DEF AddTurn, AddList, AddLast, Sent, Grown, Joined, Renewed, Shape
<1>5. q.count = sent - expected /\ q.add_count = sent /\ q.get_count = expected
  BY <1>2, <1>3 DEF AddTurn, AddCounts, Sent
<1> DEFINE d == sent - expected
<1>6. /\ heap = {walk[k] : k \in 0..d - 1} /\ Cardinality(heap) = d
      /\ walk[d] = NULL /\ (d > 0 => q.last = walk[d - 1])
  BY <1>4, RestedList
<1>7. q.count = d
  BY <1>5
<1> HIDE DEF d
<1>8. /\ heap = {walk[k] : k \in 0..q.count - 1} /\ q.count = Cardinality(heap)
      /\ walk[q.count] = NULL /\ (q.count > 0 => q.last = walk[q.count - 1])
  BY <1>6, <1>7
<1> QED BY <1>5, <1>8

LEMMA OrderStays ==
  ASSUME UNCHANGED vars
  PROVE  (RacyOrder => RacyOrder') /\ (FirstOrder => FirstOrder')
<1>1. /\ UNCHANGED <<q, heap, val, next, pc, mine, ptr, num, sent, expected, errors, crashed, overlapped>>
  BY DEF vars, nodes, locals, checks
<1>2. AddTurn' = AddTurn /\ FirstTail' = FirstTail
  BY <1>1 DEF AddTurn, FirstTail, AddList, AddLast, AddPlaces, AddCounts, LastRight, Shape, Sent
<1>3. GetTurn' = GetTurn
  BY <1>1 DEF GetTurn, LastRight
<1>4. RacyList' = RacyList /\ FirstList' = FirstList
  BY <1>1 DEF RacyList, FirstList, GetList, Read, Shape
<1>5. RacyPlaces' = RacyPlaces /\ FirstPlaces' = FirstPlaces
  BY <1>1 DEF RacyPlaces, FirstPlaces, GetPlaces
<1>6. RacyCounted' = RacyCounted /\ FirstCounted' = FirstCounted
  BY <1>1 DEF RacyCounted, FirstCounted, GetCounts, Read
<1> QED BY <1>1, <1>2, <1>3, <1>4, <1>5, <1>6 DEF RacyOrder, FirstOrder, Fine, RacyTurn, FirstTurn

-----------------------------------------------------------------------------
(* The theorems.                                                           *)
RacyInv == ReaderInv /\ CountInv /\ RacyOrder

LEMMA RacyInvariant == Spec => []RacyInv
<1>1. Init => RacyInv
  BY ReaderStart, CountStart, OrderStart DEF RacyInv
<1>2. RacyInv /\ [Next]_vars => RacyInv'
  <2> SUFFICES ASSUME RacyInv, [Next]_vars PROVE RacyInv'
    OBVIOUS
  <2>1. CASE Next
    BY <2>1, ReaderStep, RacyCounts, RacyOrderStep DEF RacyInv, ReaderInv, Next
  <2>2. CASE UNCHANGED vars
    <3>1. RacyTypes'
      BY <2>2 DEF RacyInv, ReaderInv, RacyTypes, vars, nodes, locals, Queue
    <3>2. ReaderInv'
      BY <3>1, <2>2, ReaderEnds DEF RacyInv, vars, nodes, locals, checks
    <3>3. CountInv'
      BY <2>2 DEF RacyInv, CountInv, vars, locals
    <3>4. RacyOrder'
      BY <2>2, OrderStays DEF RacyInv
    <3> QED BY <3>2, <3>3, <3>4 DEF RacyInv
  <2> QED BY <2>1, <2>2
<1> QED BY <1>1, <1>2, PTL DEF Spec

(* However the two threads' loads and stores interleave, and whatever      *)
(* updates of count are lost, it stays between 0 and max_count: the two    *)
(* asserts of queue.c hold.                                                *)
THEOREM CountInBounds == Spec => []CountBounds
<1>1. RacyInv => CountBounds
  BY BoundAssumption DEF RacyInv, CountInv, CountBounds
<1> QED BY <1>1, RacyInvariant, PTL

(* The reader never follows first, or its own tmp, into freed memory, and  *)
(* never frees a node twice.                                               *)
THEOREM ReaderIsSafe == Spec => []ReaderSafe
<1>1. RacyInv => ReaderSafe
  BY DEF RacyInv, ReaderInv, FirstAhead, Reading, Future, Taking, ReaderSafe
<1> QED BY <1>1, RacyInvariant, PTL

(* As long as calls have not overlapped, task2's queue is a queue: no      *)
(* value is lost or out of order, and between the calls the list holds the *)
(* allocated nodes and no others, and every counter is right.              *)
THEOREM OneAtATime == Spec => []Sequential
<1>1. RacyInv => Sequential
  BY OrderIsSequential DEF RacyInv, ReaderInv
<1> QED BY <1>1, RacyInvariant, PTL

FirstInv == RacyTypes /\ CountInv /\ FirstOrder

(* Both hold of task1's first version as well, which has no tests but its  *)
(* asserts.                                                                *)
THEOREM FirstVersionGuarantees == First!Spec => []Guarantees
<1>1. First!Init => FirstInv
  <2>1. First!Init <=> Init
    BY DEF First!Init, Init
  <2> QED BY <2>1, RacyStart, CountStart, OrderStart DEF FirstInv
<1>2. FirstInv /\ [First!Next]_First!vars => FirstInv'
  <2> SUFFICES ASSUME FirstInv, [First!Next]_First!vars PROVE FirstInv'
    OBVIOUS
  <2>1. CASE First!Next
    BY <2>1, FirstCounts, FirstOrderStep DEF FirstInv, First!Next
  <2>2. CASE UNCHANGED First!vars
    <3>1. UNCHANGED vars
      BY <2>2 DEF First!vars, First!nodes, First!locals, First!checks, vars, nodes, locals, checks
    <3>2. RacyTypes' /\ CountInv'
      BY <3>1 DEF FirstInv, RacyTypes, CountInv, vars, nodes, locals, Queue
    <3>3. FirstOrder'
      BY <3>1, OrderStays DEF FirstInv
    <3> QED BY <3>2, <3>3 DEF FirstInv
  <2> QED BY <2>1, <2>2
<1>3. FirstInv => Guarantees
  BY OrderIsSequential, BoundAssumption DEF FirstInv, CountInv, CountBounds, Guarantees
<1> QED BY <1>1, <1>2, <1>3, PTL DEF First!Spec
=============================================================================

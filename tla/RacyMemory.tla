----------------------------- MODULE RacyMemory -----------------------------
(***************************************************************************)
(* A queue with no synchronisation under the two threads of                *)
(* queue-threads.c, one writer and one reader.  Every load and every store *)
(* of shared memory is a step of its own, as the unoptimised build         *)
(* (CFLAGS = -g) performs them; memory is sequentially consistent.  This   *)
(* module has the memory, the kinds of step and what the two versions of   *)
(* queue.c share; RacyQueue and FirstQueue have the rest.                  *)
(*                                                                         *)
(* A store through a pointer to freed memory lands in the freed node.  A   *)
(* load or store through NULL, or through what a freed node holds, ends    *)
(* the program.                                                            *)
(***************************************************************************)
EXTENDS Integers, FiniteSets

CONSTANTS Node,       \* the addresses malloc can return
          NULL,
          Junk,       \* what the fields of a freed node hold
          max_count,
          MaxVal      \* bound: the writer stops after this many values

ASSUME PointerAssumption == NULL \notin Node /\ Junk \notin Node /\ NULL # Junk
ASSUME BoundAssumption == max_count \in Nat \ {0} /\ MaxVal \in Nat

VARIABLES
  q,                      \* *q: first, last, count, add_count, get_count
  next, val, heap,        \* the nodes' fields; the nodes allocated
  pc, mine, ptr, num,     \* of each thread: its place in the code, its node (new,
                          \* tmp), and the pointer and the count it has loaded
  sent, expected, errors, \* writer(): i; reader(): expected, and whether ERROR was printed
  crashed,                \* "no", or where the program has ended
  overlapped              \* auxiliary: two calls have been in progress at once

nodes  == <<next, val, heap>>
locals == <<mine, ptr, num>>
checks == <<sent, expected, errors>>
vars   == <<q, nodes, pc, locals, checks, crashed, overlapped>>

Init == /\ q = [first |-> NULL, last |-> NULL, count |-> 0, add_count |-> 0, get_count |-> 0]
        /\ next = [n \in Node |-> Junk] /\ val = [n \in Node |-> Junk] /\ heap = {}
        /\ pc = [t \in {"writer", "reader"} |-> "idle"]
        /\ mine = [t \in {"writer", "reader"} |-> NULL]
        /\ ptr = [t \in {"writer", "reader"} |-> NULL]
        /\ num = [t \in {"writer", "reader"} |-> 0]
        /\ sent = 0 /\ expected = 0 /\ errors = FALSE
        /\ crashed = "no" /\ overlapped = FALSE

-----------------------------------------------------------------------------
(* The kinds of step: a thread calls, tests, stores into *q, loads a       *)
(* pointer or the count, or comes to a bad end.                            *)
Go(t, from, to) == pc[t] = from /\ pc' = [pc EXCEPT ![t] = to]

Call(t, to) == /\ Go(t, "idle", to)
               /\ overlapped' = (overlapped \/ \E u \in DOMAIN pc : u # t /\ pc[u] # "idle")
               /\ UNCHANGED <<q, nodes, locals, checks, crashed>>

Test(t, from, test, yes, no) == /\ Go(t, from, IF test THEN yes ELSE no)
                                /\ UNCHANGED <<q, nodes, locals, checks, crashed, overlapped>>

Store(t, from, to, field, value) == /\ Go(t, from, to)
                                    /\ q' = [q EXCEPT ![field] = value]
                                    /\ UNCHANGED <<nodes, locals, checks, crashed, overlapped>>

Load(t, from, to, pointer) == /\ Go(t, from, to)
                              /\ ptr' = [ptr EXCEPT ![t] = pointer]
                              /\ UNCHANGED <<q, nodes, mine, num, checks, crashed, overlapped>>

LoadCount(t, from, to) == /\ Go(t, from, to)
                          /\ num' = [num EXCEPT ![t] = q.count]
                          /\ UNCHANGED <<q, nodes, mine, ptr, checks, crashed, overlapped>>

End(t, at) == /\ Go(t, at, at)
              /\ crashed' = at
              /\ UNCHANGED <<q, nodes, locals, checks, overlapped>>

-----------------------------------------------------------------------------
(* What both versions of queue_add and queue_get do alike.                 *)
AddCalled == sent < MaxVal /\ Call("writer", "full?")

\* mutant: an off-by-one in the test for room
AddTooFull == Test("writer", "full?", q.count > max_count, "idle", "malloc")

AddFull == Test("writer", "full?", q.count = max_count, "idle", "malloc")

AddMalloc == /\ Go("writer", "malloc", "empty?")
             /\ \E n \in Node \ heap : /\ mine' = [mine EXCEPT !["writer"] = n]
                                       /\ heap' = heap \cup {n}
                                       /\ val' = [val EXCEPT ![n] = sent]
                                       /\ next' = [next EXCEPT ![n] = NULL]
             /\ UNCHANGED <<q, ptr, num, checks, crashed, overlapped>>

\* printf and abort()
AddNoMemory == End("writer", "malloc")

\* q->first = q->last = new: two stores; the second stores new, or, as the
\* unoptimised build may, reloads q->last
AddOnlyLast == Store("writer", "only", "only2", "last", mine["writer"])
AddOnlyFirst == \E n \in {mine["writer"], q.last} : Store("writer", "only2", "count", "first", n)

\* a load of q->last, and the store of new into its next
AddLoadTail == Load("writer", "tail", "tail2", q.last)

LinkNew(at, to) == /\ ptr["writer"] \in Node
                   /\ Go("writer", at, to)
                   /\ next' = [next EXCEPT ![ptr["writer"]] = mine["writer"]]
                   /\ UNCHANGED <<q, val, heap, locals, checks, crashed, overlapped>>
LinkCrash(at) == ptr["writer"] \notin Node /\ End("writer", at)

\* q->count++ is a load and a store; then q->add_count++, and writer()'s i++
AddLoadCount == LoadCount("writer", "count", "count2")
AddStoreCount == Store("writer", "count2", "added", "count", num["writer"] + 1)
AddReturn == /\ Go("writer", "added", "idle")
             /\ q' = [q EXCEPT !.add_count = @ + 1]
             /\ sent' = sent + 1
             /\ UNCHANGED <<nodes, locals, expected, errors, crashed, overlapped>>

GetCalled == Call("reader", "count?")

\* *val = tmp->val, which reader() compares with expected
GetCheck == /\ errors' = (errors \/ val[mine["reader"]] # expected)
            /\ expected' = IF val[mine["reader"]] \in Nat THEN val[mine["reader"]] + 1 ELSE 0

\* q->first = the next that was loaded
GetSetFirst(to) == Store("reader", "move", to, "first", ptr["reader"])

\* free(tmp); that tmp is allocated is part of ReaderSafe
GetFree(to) == /\ mine["reader"] \in heap
               /\ Go("reader", "free", to)
               /\ heap' = heap \ {mine["reader"]}
               /\ next' = [next EXCEPT ![mine["reader"]] = Junk]
               /\ val' = [val EXCEPT ![mine["reader"]] = Junk]
               /\ UNCHANGED <<q, locals, checks, crashed, overlapped>>

GetLoadCount == LoadCount("reader", "count", "count2")
GetStoreCount == Store("reader", "count2", "got", "count", num["reader"] - 1)

-----------------------------------------------------------------------------
(* The asserts on count never fail with one writer and one reader,         *)
(* although count++ and count-- may lose each other's updates.             *)
CountBounds == 0 =< q.count /\ q.count =< max_count

(* The reader never follows a pointer to freed memory, and never frees a   *)
(* node twice: whatever the race does to the list, q->first is NULL or a   *)
(* node the reader has not freed.                                          *)
ReaderSafe == /\ q.first \in heap \cup {NULL}
              /\ pc["reader"] \in {"next", "move", "empty?", "clear", "free"} =>
                   mine["reader"] \in heap

(* Until two calls overlap the queue is in order, as in queue-example.c:   *)
(* nothing is lost or swapped, and between the calls the list holds        *)
(* exactly the allocated nodes and the counters are right.                 *)
walk[k \in Nat] == IF k = 0 THEN q.first
                   ELSE IF walk[k - 1] \in Node THEN next[walk[k - 1]] ELSE NULL

Resting == ~overlapped /\ \A t \in DOMAIN pc : pc[t] = "idle"

Sequential ==
  /\ ~overlapped => ~errors /\ crashed \in {"no", "malloc"}
  /\ Resting =>
       /\ heap = {walk[k] : k \in 0..q.count - 1}
       /\ q.count = Cardinality(heap)
       /\ walk[q.count] = NULL
       /\ q.count > 0 => q.last = walk[q.count - 1]
       /\ q.count = sent - expected
       /\ q.add_count = sent /\ q.get_count = expected

\* What the first version of the queue keeps: both asserts on count hold, whatever
\* updates are lost, and until two calls overlap the queue is exact (task1's queue.c:53
\* and queue.c:83).
Guarantees == CountBounds /\ Sequential

(* reader() never prints its ERROR line.                                   *)
NoSequenceError == ~errors
=============================================================================

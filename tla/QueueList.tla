----------------------------- MODULE QueueList -----------------------------
(***************************************************************************)
(* The linked list that every queue_*.c of 2nd_sem/task2/os/sync keeps     *)
(* (queue.h), its heap nodes, its counters, and the client threads of      *)
(* queue-threads.c that fill and drain it.  The modules that extend this   *)
(* one add the synchronisation: a mutex or spinlock (LockQueue), condition *)
(* variables (CvQueue), semaphores (SemQueue).                             *)
(*                                                                         *)
(* A value is <<w, i>>: writer() adds the plain int i; the writer is added *)
(* so that the sequences of several writers can be told apart.             *)
(***************************************************************************)
EXTENDS Integers, Sequences, FiniteSets, Functions

CONSTANTS Writers, Readers,   \* the threads running writer() and reader()
          Monitor,            \* the thread queue_init starts
          Main,               \* the thread that calls queue_destroy
          Node,               \* the addresses malloc can return
          NULL,
          max_count,
          MaxVal              \* bound: a writer stops after this many values

Clients == Writers \cup Readers
Threads == Clients \cup {Monitor, Main}

ASSUME ThreadAssumption ==
  /\ Writers \cap Readers = {}
  /\ Monitor \notin Clients
  /\ Main \notin Clients
  /\ Monitor # Main
  /\ NULL \notin Threads
ASSUME NodeAssumption == NULL \notin Node
ASSUME BoundAssumption == max_count \in Nat /\ MaxVal \in Nat

VARIABLES
  first, last,            \* q->first, q->last
  next, val,              \* the two fields of every node
  heap,                   \* the nodes malloc has handed out and free has not taken
  count,                  \* q->count
  add_count, get_count,   \* q->add_count, q->get_count
  pc,                     \* where each thread is in the code
  node,                   \* each thread's local node: node, tmp, n
  sent,                   \* writer(): i
  expected,               \* reader(): expected, one for each writer
  errors,                 \* reader() has printed its ERROR line
  cancelled,              \* pthread_cancel(q->qmonitor_tid) was called
  alive,                  \* FALSE after abort()
  chain                   \* auxiliary, read by no guard: the nodes linked into
                          \* the list, oldest first

linkVars == <<first, last, chain>>
heapVars == <<next, val, heap>>
statVars == <<count, add_count, get_count>>
readVars == <<expected, errors>>
runVars  == <<cancelled, alive>>
memVars  == <<linkVars, heapVars, statVars, node, sent, readVars, runVars>>
            \* everything but the place in the code
listVars == <<linkVars, heapVars, statVars, pc, node, sent, readVars, runVars>>

ListInit ==
  /\ first = NULL /\ last = NULL /\ chain = <<>>
  /\ next = [n \in Node |-> NULL]
  /\ val = [n \in Node |-> NULL]
  /\ heap = {}
  /\ count = 0 /\ add_count = 0 /\ get_count = 0
  /\ pc = [t \in Threads |-> IF t = Monitor THEN "sleep"
                             ELSE IF t = Main THEN "run" ELSE "idle"]
  /\ node = [t \in Threads |-> NULL]
  /\ sent = [w \in Writers |-> 0]
  /\ expected = [w \in Writers |-> 0]
  /\ errors = FALSE
  /\ cancelled = FALSE
  /\ alive = TRUE

\* thread t goes on from one place in the code to another
Goto(t, from, to) == pc[t] = from /\ pc' = [pc EXCEPT ![t] = to]

\* ... and touches nothing else
JustGoto(t, from, to) == Goto(t, from, to) /\ UNCHANGED memVars

-----------------------------------------------------------------------------
(* queue_add inside its critical section.  The chained assignment stores   *)
(* into last and then into first; the other branch stores into the old     *)
(* tail's next and then into last.                                         *)

\* node = malloc(...); node->val = val; node->next = NULL
Malloc(w) == /\ Goto(w, "add", "link")
             /\ \E n \in Node \ heap :
                  /\ heap' = heap \cup {n}
                  /\ val' = [val EXCEPT ![n] = <<w, sent[w]>>]
                  /\ next' = [next EXCEPT ![n] = NULL]
                  /\ node' = [node EXCEPT ![w] = n]
             /\ UNCHANGED <<linkVars, statVars, sent, readVars, runVars>>

\* first == NULL: q->last = node
LinkEmpty(w) == /\ Goto(w, "link", "head")
                /\ first = NULL
                /\ last' = node[w]
                /\ UNCHANGED <<first, chain, heapVars, statVars, node, sent, readVars, runVars>>

\* ... q->first = node
SetFirst(w) == /\ Goto(w, "head", "added")
               /\ first' = node[w]
               /\ chain' = Append(chain, node[w])
               /\ UNCHANGED <<last, heapVars, statVars, node, sent, readVars, runVars>>

\* mutant: the node goes to the front, as in a stack
LinkInFront(w) == /\ Goto(w, "link", "added")
                  /\ first # NULL
                  /\ next' = [next EXCEPT ![node[w]] = first]
                  /\ first' = node[w]
                  /\ chain' = <<node[w]>> \o chain
                  /\ UNCHANGED <<last, val, heap, statVars, node, sent, readVars, runVars>>

\* first != NULL: q->last->next = node
LinkBehind(w) == /\ Goto(w, "link", "tail")
                 /\ first # NULL
                 /\ next' = [next EXCEPT ![last] = node[w]]
                 /\ chain' = Append(chain, node[w])
                 /\ UNCHANGED <<first, last, val, heap, statVars, node, sent, readVars, runVars>>

\* ... q->last = node
SetLast(w) == /\ Goto(w, "tail", "added")
              /\ last' = node[w]
              /\ UNCHANGED <<first, chain, heapVars, statVars, node, sent, readVars, runVars>>

LinkStep(w) == LinkEmpty(w) \/ SetFirst(w) \/ LinkBehind(w) \/ SetLast(w)

\* mutant: q->count--, as in queue_get
CountAddedDown(w) == /\ count' = count - 1
                     /\ add_count' = add_count + 1
                     /\ sent' = [sent EXCEPT ![w] = @ + 1]
                     /\ node' = [node EXCEPT ![w] = NULL]
                     /\ UNCHANGED <<linkVars, heapVars, get_count, readVars, runVars>>

\* q->count++; q->add_count++; and, back in writer(), i++
CountAdded(w) == /\ count' = count + 1
                 /\ add_count' = add_count + 1
                 /\ sent' = [sent EXCEPT ![w] = @ + 1]
                 /\ node' = [node EXCEPT ![w] = NULL]
                 /\ UNCHANGED <<linkVars, heapVars, get_count, readVars, runVars>>

\* abort()
Abort == /\ alive' = FALSE
         /\ UNCHANGED <<linkVars, heapVars, statVars, pc, node, sent, readVars, cancelled>>

-----------------------------------------------------------------------------
(* queue_get inside its critical section.                                  *)

\* tmp = q->first; *val = tmp->val; q->first = tmp->next.  reader() compares
\* the value with expected; taking both at the moment the value leaves the
\* list lets several readers check one sequence.
Unlink(r) == /\ Goto(r, "get", "free")
             /\ node' = [node EXCEPT ![r] = first]
             /\ first' = next[first]
             /\ chain' = Tail(chain)
             /\ LET writer == val[first][1]
                    number == val[first][2]
                IN  /\ errors' = (errors \/ number # expected[writer])
                    /\ expected' = [expected EXCEPT ![writer] = number + 1]
             /\ UNCHANGED <<last, heapVars, statVars, sent, runVars>>

\* mutant: the last node leaves and q->last still points to it
FreeDangling(r) == /\ Goto(r, "free", "got")
                   /\ heap' = heap \ {node[r]}
                   /\ next' = [next EXCEPT ![node[r]] = NULL]
                   /\ val' = [val EXCEPT ![node[r]] = NULL]
                   /\ node' = [node EXCEPT ![r] = NULL]
                   /\ UNCHANGED <<linkVars, statVars, sent, readVars, runVars>>

\* mutant: no free(tmp)
FreeForgotten(r) == /\ Goto(r, "free", "got")
                    /\ last' = IF first = NULL THEN NULL ELSE last
                    /\ node' = [node EXCEPT ![r] = NULL]
                    /\ UNCHANGED <<first, chain, heapVars, statVars, sent, readVars, runVars>>

\* if (!q->first) q->last = NULL; free(tmp).  What a freed node holds is
\* unspecified, and NULL here.
FreeUnlinked(r) == /\ Goto(r, "free", "got")
                   /\ last' = IF first = NULL THEN NULL ELSE last
                   /\ heap' = heap \ {node[r]}
                   /\ next' = [next EXCEPT ![node[r]] = NULL]
                   /\ val' = [val EXCEPT ![node[r]] = NULL]
                   /\ node' = [node EXCEPT ![r] = NULL]
                   /\ UNCHANGED <<first, chain, statVars, sent, readVars, runVars>>

\* mutant: no q->count--
CountGotForgotten == /\ get_count' = get_count + 1
                     /\ UNCHANGED <<count, linkVars, heapVars, add_count, node, sent, readVars, runVars>>

\* q->count--; q->get_count++
CountGot == /\ count' = count - 1
            /\ get_count' = get_count + 1
            /\ UNCHANGED <<linkVars, heapVars, add_count, node, sent, readVars, runVars>>

\* a client that makes no further call
ClientStops(t) == JustGoto(t, "idle", "stopped")

-----------------------------------------------------------------------------
(* qmonitor outside queue_print_stats.  Its sleep(), like the printf it    *)
(* starts with, is a cancellation point.                                   *)
MonitorWakes == ~cancelled /\ JustGoto(Monitor, "sleep", "stats")

MonitorCancelledAsleep == cancelled /\ JustGoto(Monitor, "sleep", "dead")

\* mutant: no pthread_cancel
DestroyUncancelled == /\ \A t \in Clients : pc[t] = "stopped"
                      /\ JustGoto(Main, "run", "join")

(* queue_destroy up to the lock.  It is called when no client is left, as  *)
(* queue-example.c does.                                                   *)
DestroyCancel == /\ Goto(Main, "run", "join")
                 /\ \A t \in Clients : pc[t] = "stopped"
                 /\ cancelled' = TRUE
                 /\ UNCHANGED <<linkVars, heapVars, statVars, node, sent, readVars, alive>>

DestroyJoin == pc[Monitor] = "dead" /\ JustGoto(Main, "join", "joined")

\* n = q->first
DestroyWalk == /\ Goto(Main, "joined", "walk")
               /\ node' = [node EXCEPT ![Main] = first]
               /\ UNCHANGED <<linkVars, heapVars, statVars, sent, readVars, runVars>>

\* while (n) { next = n->next; free(n); n = next; }
DestroyFree == /\ pc[Main] = "walk"
               /\ node[Main] # NULL
               /\ heap' = heap \ {node[Main]}
               /\ node' = [node EXCEPT ![Main] = next[node[Main]]]
               /\ UNCHANGED <<linkVars, next, val, statVars, pc, sent, readVars, runVars>>

DestroyDone == node[Main] = NULL /\ JustGoto(Main, "walk", "returned")

-----------------------------------------------------------------------------
\* where the monitor and queue_destroy's caller can be in the code
MonitorPlaces == {"sleep", "stats", "print", "dead"}
MainPlaces == {"run", "join", "joined", "walk", "returned"}

\* ... and any thread, over all the queues
Places == {"idle", "add", "get", "wait", "relock", "reserved", "abort", "link", "head",
           "tail", "added", "free", "got", "post", "stopped", "sleep", "stats",
           "print", "dead", "run", "join", "joined", "walk", "returned"}

ListTypeOK ==
  /\ pc \in [Threads -> Places]
  /\ first \in Node \cup {NULL}
  /\ last \in Node \cup {NULL}
  /\ next \in [Node -> Node \cup {NULL}]
  /\ val \in [Node -> (Writers \X Nat) \cup {NULL}]
  /\ heap \subseteq Node
  /\ chain \in Seq(Node)
  /\ count \in Nat /\ add_count \in Nat /\ get_count \in Nat
  /\ node \in [Threads -> Node \cup {NULL}]
  /\ sent \in [Writers -> Nat]
  /\ expected \in [Writers -> Nat]
  /\ errors \in BOOLEAN /\ cancelled \in BOOLEAN /\ alive \in BOOLEAN

(* The threads inside their critical section.                              *)
Critical == {"add", "link", "head", "tail", "added", "get", "free", "got", "print", "walk"}
Inside(t) == pc[t] \in Critical

(* The nodes in the list are distinct and hold values.                     *)
ChainOK == /\ \A j, k \in 1..Len(chain) : chain[j] = chain[k] => j = k
           /\ \A k \in 1..Len(chain) : val[chain[k]] \in Writers \X Nat

(* q->first heads the list and the next pointers spell it out to a NULL.   *)
Spelled ==
  /\ first = IF chain = <<>> THEN NULL ELSE chain[1]
  /\ \A k \in 1..Len(chain) :
        next[chain[k]] = IF k = Len(chain) THEN NULL ELSE chain[k + 1]

(* q->last is the list's last node; it lags behind first and next only     *)
(* inside the step that moves it.                                          *)
Tailed ==
  /\ \A w \in Writers :
        /\ pc[w] = "head" => chain = <<>> /\ last = node[w]
        /\ pc[w] = "tail" => /\ Len(chain) > 1
                             /\ last = chain[Len(chain) - 1]
                             /\ node[w] = chain[Len(chain)]
  /\ \A r \in Readers :
        pc[r] = "free" => last = IF chain = <<>> THEN node[r] ELSE chain[Len(chain)]
  /\ \/ \E t \in Threads : pc[t] \in {"head", "tail", "free"}
     \/ last = IF chain = <<>> THEN NULL ELSE chain[Len(chain)]

(* first, last and the next pointers always describe one list, whatever    *)
(* adds and gets have interleaved: no node twice, no cycle, no pointer out *)
(* of the list.                                                            *)
ListShape == ChainOK /\ Spelled /\ Tailed

(* A thread's own node is its own: allocated, and in no list.              *)
Fresh == {w \in Writers : pc[w] \in {"link", "head"}}
Removing == {r \in Readers : pc[r] = "free"}

OwnNodes ==
  /\ \A w \in Fresh : /\ node[w] \in heap \ Range(chain)
                      /\ val[node[w]] = <<w, sent[w]>>
                      /\ next[node[w]] = NULL
  /\ \A r \in Removing : node[r] \in heap \ Range(chain)

(* Every allocated node is in the list, on its way in or on its way out,   *)
(* and the pointers the code follows lead to allocated nodes: no leak, no  *)
(* use after free.  queue_destroy frees the whole list, each node once.    *)
HeapOK ==
  /\ pc[Main] \in {"run", "join", "joined"} =>
       heap = Range(chain) \cup {node[t] : t \in Fresh \cup Removing}
  /\ pc[Main] = "walk" =>
       \E k \in 1..Len(chain) + 1 :
          /\ node[Main] = IF k > Len(chain) THEN NULL ELSE chain[k]
          /\ heap = {chain[j] : j \in k..Len(chain)}
  /\ pc[Main] = "returned" => heap = {}

(* count, add_count, get_count and the list agree, up to the thread that   *)
(* is between changing the list and changing the counters.                 *)
Adding == {w \in Writers : pc[w] \in {"tail", "added"}}
Getting == {r \in Readers : pc[r] \in {"free", "got"}}

CountsOK ==
  /\ count =< max_count            \* the assert of queue_add
  /\ add_count = get_count + count
  /\ Len(chain) = count + (IF Adding # {} THEN 1 ELSE 0)
                        - (IF Getting # {} THEN 1 ELSE 0)

(* The line the monitor prints is consistent: its size is the number of    *)
(* values in the list and the difference of the two counts it prints.      *)
StatsBalanced == pc[Monitor] = "print" => /\ count = Len(chain)
                                          /\ add_count - get_count = count

(* reader() never prints its ERROR line.                                   *)
NoSequenceError == ~errors

(* While queue_destroy works on the queue nobody else can: the clients     *)
(* have stopped and, once it is joined, the monitor is gone.               *)
Quiet == /\ pc[Main] # "run" => cancelled /\ \A t \in Clients : pc[t] = "stopped"
         /\ pc[Main] \in {"joined", "walk", "returned"} => pc[Monitor] = "dead"

(* Nobody waits for ever: a value that is in the queue is taken, as long   *)
(* as some reader goes on calling queue_get (and memory lasts).            *)
Delivered ==
  \A w \in Writers, i \in 0..MaxVal - 1 :
     sent[w] > i ~> \/ expected[w] > i
                    \/ ~alive
                    \/ \A r \in Readers : pc[r] = "stopped"

-----------------------------------------------------------------------------
(* The queue is a bounded FIFO.  A value is in it once first or the old    *)
(* tail's next points to its node.                                         *)
Items == [k \in 1..Len(chain) |-> val[chain[k]]]

sentInto == [w \in Writers |-> IF w \in Adding THEN sent[w] + 1 ELSE sent[w]]

Fifo == INSTANCE BoundedFifo WITH items <- Items, sent <- sentInto, got <- expected

Implements == Fifo!Spec
=============================================================================

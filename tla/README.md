# Ocu-labs in TLA+

The repository is a set of operating-systems exercises in C: two semesters, one
small program for each file. Most of the weight lies where
threads or processes share memory: the five queues of
`2nd_sem/task2/os/sync`, the benchmarks beside them, and the shared-memory
ring of `1st_sem/lab6`. Around them are some thirty small programs that start,
cancel and signal threads, fork, talk over pipes and sockets, or work on files. This
directory models all of these, checks the models with TLC and proves their safety properties with
TLAPS. Paths below are relative to the repository's root.

## The system

### Parts, their state and their operations

| part | state | operations |
|---|---|---|
| queue (`queue.h`) | `first`, `last`, nodes with `val` and `next`, `count`, `max_count`, `add_count`, `get_count`, attempts | `queue_init`, `queue_add`, `queue_get`, `queue_print_stats`, `queue_destroy` |
| monitor thread | the queue | `qmonitor`: print the statistics, sleep a second, for ever, until cancelled |
| `queue_mutex.c`, `queue_spin.c` | one lock | add returns 0 when full, get returns 0 when empty |
| `queue_cv.c` | a mutex, `not_full`, `not_empty` | add waits for room, get for a value |
| `queue_semaphor.c` | `mutex`, `items`, `spaces` | the same, with counting semaphores |
| `queue.c` | none | the same operations with defensive tests instead of a lock; in `2nd_sem/task1/os/sync` without the tests |
| `queue-threads.c` | `i` of the writer, `expected` of the reader | one writer adds 0, 1, 2, ...; one reader checks that nothing is missing |
| `queue-example.c` | | ten adds, twelve gets and `queue_destroy`, in one thread |
| `sp_vs_mu/bench_tpark.c` | `seq`, `seen`, a mutex and a condition variable | main signals ITERS events, the waiter measures ITERS wakeups |
| `sp_vs_mu/bench_lock.c` | `stop_flag`, `ops` | two workers take a lock until main stops them |
| `lab6/sep_memory_fix.c` | a page with two semaphores, `head`, `tail`, `buf` | the child writes numbers, the parent checks their sequence |
| `lab6/sep_memory.c` | the page, `idx` and `cnt` of the writer, `idx` and `prev` of the reader | the same check with nothing to pace the two |
| `lab6/pipe.c` | a pipe, who holds its ends, `cnt`, `prev` | the same check with a pipe in between |
| `lab5/main.c`, `main1.c`, `main3.c` | the child's state, what wait has to report, `status` | fork, wait; in `main3.c` stop, continue and three waits, with a handler of SIGCHLD |
| `lab7/tcp` | sockets, the server's descriptors, one child for each client | accept, fork, close; echo until the client goes |
| `lab7/udp` | datagrams on their way, one buffer | the client sends and waits, the server answers the last sender |
| `lab3/main.c` | the new directory, `file_size`, `i` | copy every file backwards under its name backwards |
| `lab3/Task2/main1.c` | a directory: files, packages, hard and symbolic links, rights | fourteen commands, chosen by `argv[0]` |
| `2nd_sem/task1/join_detached`, `cancel_thread`, `os/threads` | threads, blocks of the heap, main's frame | create, join, detach, cancel, exit, malloc, free |
| `2nd_sem/task1/signal_thread` | masks, a handler, pending signals | SIGINT for one thread, SIGQUIT for another |
| `lab4`, `lab1`, `lab2` | memory maps | page faults, first programs |

The queue's clients call it through `queue.h` and are linked with one of the five
implementations: the Makefile builds `queue-threads-%` from `queue_%.c`, and
`queue-example` from `queue.c`. `queue_init` starts the monitor thread inside the
library, so that even the one-thread example runs two threads on the queue;
`queue_destroy` cancels and joins it before it frees the list.

### What is hard

* The list is changed in several stores, and `count` in others: every
  interleaving of an add, a get and the monitor's print has to find them
  consistent, or be kept out.
* Room and values are promised before they exist: a woken thread finds that
  another has overtaken it; a semaphore is posted after the mutex is released.
* `pthread_cancel` meets the monitor anywhere, the critical section included.
* malloc may fail, with the lock held.
* `queue.c` has no protection, and defends itself with tests.
* Numbers wrap in the ring, out of phase with its slots.
* A condition variable remembers nothing: who is not waiting misses the signal.
* A thread outlives, or does not outlive, the memory it was given, and is cancelled
  wherever it happens to be.
* A signal goes to any thread that does not block it, and interrupts what waits.
* fork and pthread_create may fail; a datagram is lost; a client or a child is killed.
* What was learnt of a file, its size or its inode, is old by the time it is used.

### What makes each part correct

* Every synchronised queue is a bounded first-in first-out channel, whichever
  way it is synchronised; nothing leaks, nothing is used after it is freed; the
  counters agree; nobody sleeps beside work he could do; `queue_destroy`
  frees all and returns.
* `queue.c` must at least not crash in its asserts or its reader.
* The ring delivers the numbers without a gap, for ever, and never lets the two
  processes touch one slot at once.
* The benchmarks end.
* A thread uses memory while it is there; everything allocated is freed once; what main
  says of a thread it has joined is so.
* A parent tells the truth about its child, however that was stopped, continued or killed.
* An echo is what was sent; a server keeps nothing it no longer serves.
* A copy is the mirror image of the original; a command loses no data beyond the file it names
  (and some lose that although nobody asked them to).

## The modules

| module | what it is |
|---|---|
| `BoundedFifo` | the promise: put at one end while there is room, take at the other |
| `QueueList` | the list, the heap and the counters of `queue.h`, the steps of `queue_add` and `queue_get` inside the critical section, of the monitor and of `queue_destroy`, and the properties all queues share |
| `GuardedList` | one lock around it: shared by the mutex, spinlock and condition-variable queues |
| `LockQueue` | `queue_mutex.c` and `queue_spin.c` |
| `CvQueue` | `queue_cv.c` |
| `SemQueue` | `queue_semaphor.c` |
| `RacyMemory` | the memory, the kinds of step and the clients of a queue without a lock, load by load and store by store |
| `RacyQueue` | `queue.c` of `task2`, on `RacyMemory` |
| `FirstQueue` | `queue.c` of `task1`, its first version, on `RacyMemory` |
| `SharedRing` | `lab6/sep_memory_fix.c` |
| `TPark` | `sp_vs_mu/bench_tpark.c` |
| `ThreadScripts` | 25 thread programs, each as the calls that main and its threads make |
| `Threads` | what those calls do: the machine that runs a script |
| `ForkWait` | `lab5` |
| `NumberPipe`, `RawRing` | `lab6/pipe.c`, `lab6/sep_memory.c` |
| `TcpEcho`, `UdpEcho` | `lab7/tcp`, `lab7/udp` |
| `ReverseCopy` | `lab3/main.c` |
| `FileTools` | `lab3/Task2/main1.c` |
| `FirstSemester` | the programs of the first semester side by side, with their fairness and their properties |
| `QueueListProofs`, `GuardedListProofs` | lemmas about the steps of all queues, and of those with one lock |
| `BoundedFifoProofs`, `LockQueueProofs`, `CvQueueProofs`, `SemQueueProofs`, `RacyQueueProofs` | theorems and proofs of one queue each |
| `ProgramProofs` | theorems and proofs of everything else: the ring, the first semester, the thread programs |
| `MC*` | the same modules under TLC, one `.cfg` for each question |

### How state and actions correspond to the code

The queue's variables have the names of the fields of `queue_t`. `next` and
`val` are functions on `Node`, the addresses; `heap` is the set malloc has
handed out. `pc[t]` is a thread's place in the code and `node[t]` its local
pointer (`node`, `tmp`, `n`). `sent[w]` is the writer's `i`; `expected[w]` is the
reader's `expected`, one for each writer, so that several readers can check
one sequence. Values are `<<writer, i>>` instead of plain ints for the same
reason; with one writer the model is the program of `queue-threads.c`.

`queue_add` is lock, test, malloc with the two stores into the new node, the
stores into the list, the counters with unlock:

    AddLock  AddFull | AddMalloc | AddNoMemory
    LinkEmpty SetFirst | LinkBehind SetLast    (two stores each, two steps)
    AddReturn

and `queue_get` is `GetLock`, `GetEmpty | GetUnlink`, `GetFree`, `GetReturn`.
Every store into `first`, `last` and an old node's `next` that another thread
could come between is a step of its own; that no other thread does come
between is what the properties have to say, not the granularity. Stores that
nothing but the same thread's next store could tell apart are together: the two
fields of a fresh node, the counters, the last store and the unlock behind it.
In `CvQueue` waiting is a place, `"wait"`; a signal moves one waiting thread to
`"relock"`, where it competes for the mutex with everyone else, and a spurious
wakeup moves it there without a signal. In `SemQueue` the semaphores are
numbers.

The `chain` variable is auxiliary: the nodes in the list in order. No guard
reads it. It is what `first`, `last` and `next` are compared with (`ListShape`) and what the
refinement mapping reads.

Main waits for the clients to stop and calls `queue_destroy`, as
`queue-example.c` does. In `queue-threads.c` the clients never stop; a
behaviour in which no client stops is that program.

Left out of the queues: the attempts counters (only printed), the text that is printed,
CPU affinity, the final `free(w)` and the destruction of the lock (nothing
runs after them), failures of `queue_init`.

The thread programs differ only in which library calls they make in which order, so each is
written as what it is: two lists of calls, with the jumps between them
(`ThreadScripts`). `Threads` gives the calls their meaning. Thread 0 is
main's; `mem` says of each block whether it is live, freed or NULL; `"frame"` is
main's own, which is there while main runs. A cancellation takes effect at the next
cancellation point of the thread, and then runs the cleanup handlers. `claim w` and
`early w` change nothing: they are the places where a program prints, or says in a
comment, that a thread has ended, and the properties look there. `program` says which one
a behaviour runs.

The programs of the first semester are a module each. They share nothing, so that one
run checks them together: `FirstSemester` has the variable `family`, chosen in the
initial state, and only the variables of that family move. In these modules the user, the network,
another program and the kernel's refusals are actions of their own (`UserStops`, `Lose`,
`Resize`, `Edit`, `ForkFails`, ...); everything else is the repository's code. A byte
is a number that says which byte of the file or the stream it is, so that a copy or an echo shows
where its bytes came from.

## The runs

| run | question | instance | result |
|---|---|---|---|
| `lock_queue` | Is the mutex queue a bounded FIFO that keeps its list, heap and counters, and does `queue_destroy` return unless the monitor dies with the lock? | 2 writers, 2 readers, capacity 2, 3 nodes, 2 values each | holds, 41 493 states |
| `lock_destroy` | Does `queue_destroy` always return? | 1 writer, 1 reader, 1 node | violated, see below |
| `cv_queue` | Is it a bounded FIFO, do the condition variables lose a wakeup, is every value taken, and is no place left free while a writer waits? | as `lock_queue` | holds, 86 421 states |
| `sem_queue` | Are places and values conserved, is every value taken, and does `queue_destroy` return unless the monitor dies with `mutex`? | as `lock_queue` | holds, 69 165 states |
| `racy_bounds` | What does the unsynchronised queue still guarantee? | capacity 2, 4 nodes, 4 values | holds, 427 163 states |
| `first_queue` | And its first version? | the same | holds, 199 671 states |
| `first_error` | Does the reader's check ever fail on it? | capacity 2, 3 nodes, 3 values | violated, see below |
| `shm_ring` | Is the ring free of races and gaps, also across both wraps, and does it go on for ever? | 3 slots, numbers modulo 7 | holds, 1 085 states |
| `tpark` | Does the benchmark end? | 3 events | violated, see below |
| `threads` | Do the thread programs keep to the lifetimes of memory and threads, route their signals, and end? | all 25, at most 3 threads | holds, 1 538 states |
| `measure_tail` | Has the thread returned when `measure_tail.c` says so? | that program | violated, see below |
| `first_semester` | Do the seven families of the first semester do what they say? | below | holds, 75 557 states |

### What the properties say

* `TypeOK`, of `lock_queue`: types, and that every thread is in its own code. It is
  the one the proofs need.
* `Mutex`: who is inside holds the lock.
* `ListShape`: `first`, `last` and `next` describe one acyclic list at every
  store, `last` being one step behind only inside the step that moves it.
* `HeapOK`: allocated = in the list + on the way in + on the way out: no leak, no
  use after free, no double free, up to the end of `queue_destroy`.
* `CountsOK`: the counters and the list agree up to the thread in between, and
  the assert of `queue_add` holds.
* `StatsBalanced`: what the monitor prints adds up; `MutexOK`: the semaphore `mutex` is up
  exactly when nobody is inside and the monitor did not die there. Neither is checked by a
  run; both are proved (`StatsHold`, `MutexHolds`).
* `Implements`: the queue implements `BoundedFifo`, with `items` mapped to the
  values along the chain.
* `NoSequenceError`: `reader()` never prints ERROR.
* `NoLostWakeup`: while a reader waits, every value in the queue has an awake
  reader on its way to it; the same for writers and places. This is the
  inductive reason why one `pthread_cond_signal` is enough, and fails at once if the signal
  is sent only when the queue was empty.
* `SemBalance`: the conservation law of `items` and `spaces`; from it follows
  that the untested `q->first` of `queue_get` is never NULL.
* `Delivered`: every value added is taken. `Admitted`: while a writer waits, some writer is
  let in. It need not be the one that waits: a writer that comes later may take the place it was
  woken for, again and again (`queue_cv.c:69` sends it back to sleep), so that one given writer
  may starve although the queue goes on.
* `CleanDestroyReturns`, of the lock queue and of the semaphore queue: `queue_destroy` returns, or
  the monitor was cancelled holding the lock.
* `CountBounds`, `ReaderSafe`, `Sequential`, and `Guarantees` of the first version: what is left in `queue.c`: with one
  writer and one reader both asserts hold although `count++` and `count--` lose
  updates, in both versions; the reader of the second version never touches a
  freed node, nor NULL; and until two calls overlap the queue is exact. More
  does not hold: values are lost, and the writer may store through a
  pointer to freed memory or through NULL, where the model ends the program.
* `NoSlotRace`, `NoGap`, `GoesRound`: the ring.
* `AccessLive`: a thread about to use or free memory finds it there. Two frames are left behind
  in the code, and the property names them (`FrameLeft`): `struct_main.c`, whose main has left its
  frame by `pthread_exit` when the thread reads it, and `os/threads/thread.c`, which returns from
  main when a `pthread_create` fails although threads that write into its arrays run.
* `NothingLost`: a process that ends with none of its threads cut off has freed all.
* `ClaimsTrue`: what main says of a thread after joining it is so.
* `SignalsRouted`: SIGINT runs its handler in the second thread only; neither signal
  ends the process once main has set the mask.
* `Returns`: every program that should end does: the joins, the stop flag of
  `bench_lock.c`, the limit of a loop that creates threads, a cancelled thread.
* `ReportsTruth`: when the parent reports, the child is gone and `status` tells how it
  ended, whichever of the waits failed on the way.
* `GapsAreReal`: the reader of the pipe never complains, also when the numbers wrap; that of the raw
  ring does, but if both slots were written the numbers are whole laps apart.
* `NothingKept`: waiting for the next client, the TCP server holds open no connection that a
  child serves or served.
* `Echoed`: the echo a UDP client shows is of the line it sent last; over TCP what is heard, on its
  way down, in the buffer of the child and on its way up is, in this order, what was written.
* `CopyReversed`: each copy holds the bytes of its source from the last one down, all of them
  unless an error was reported, whatever others do to the source meanwhile. "All" is what int
  makes of the size, see below.
* `NamesMirrored`: names are mirrored, by the swap in place.
* `NamedDataLost`: the ways in which data becomes unreachable or a file is emptied: `rmfile_link`, and
  `rmdir_link` on the directory itself, are called for that (`Asked`); five other commands do it as
  well (`Unasked`), see below. No command takes more than the file its name leads to, or a
  namesake of what is in the package, and `rm_hard_link` does not take the last name with the others.
* `Ending`: a parent ends unless somebody leaves its child stopped; when one end of the pipe is
  gone the other process ends too.
* `Answering`: a client is answered, unless the datagram is lost, its fork has failed, or
  the server has lost all its descriptors to forks that failed.

### Disagreements the runs show

* `lock_destroy`. `queue_destroy` cancels the monitor; the `printf` in
  `queue_print_stats` may be a cancellation point (POSIX allows it, glibc's
  ends in `write`, which is one), and no cleanup handler unlocks. The lock is
  then held by a dead thread and `queue_destroy` waits for ever.
  `CleanDestroyReturns` says that this is the only way it can hang. All four
  synchronised queues have the sequence.
* `first_error`. `queue-threads`, as `task1` builds it, reports values out of
  sequence: the reader loads `first->next`, which is NULL, the writer links
  a node behind that node, and the reader stores the NULL it loaded. The node is
  lost. The version of `task2` loses values too; its Makefile no longer
  builds that pair.
* `tpark`. Two events signalled before the waiter looks are one event to it
  (`seen = seq`); the waiter, which counts wakeups, then waits for an
  event that does not come, and `main` for the waiter. The comment at the
  `usleep` says that the start of the waiter no longer matters.

* `measure_tail`. `measure_tail.c:82` says that on reading "E" the thread has
  already returned; it writes "E" (line 47) before it returns (line 52), and what main measures as
  "after thread returned" (lines 85-86) may be measured while it runs.

Some things the models show that no comment or test of the repository denies:

* A file of more than 2^31 bytes and less than 2^32 has a negative `file_size` in `lab3/main.c`: its copy
  is empty, and the program says that it has succeeded. At 2^31 exactly `file_size` is the least int and
  `file_size - 1` (line 44) overflows, which is undefined: the binary beside the source wraps and copies
  everything, another build may copy nothing, and the model has both (`BelowSize`). `CopyReversed`
  allows for this (`Whole`, `Top`).
* Five file commands (`lab3/Task2/main1.c`) lose data that nobody asked them to remove.
  `rmdir_link` passes the names found in the package to `remove` without the package's (line 31): the
  namesakes in the current directory are removed. `info_about_link` removes the file it is asked
  about (line 207). `create_file_link` empties a file that is there (line 10), `rm_sym_link` unlinks
  what it is given although it is no link (line 150), and `rm_hard_link`, given a symbolic link,
  unlinks the file that it leads to, every name of it (line 185).
* A writer waiting on the condition variable may starve while others are served, see `Admitted`.
* An empty line typed at `tcp_client` writes nothing, and the client then waits for an
  echo of nothing; so does its child for a line. `Answering` speaks of clients that are owed bytes.
* `pthread_create` fails in `thread_cancel*.c`, `thread_mem.c` or `bench_lock.c`: the id that is
  cancelled or joined next was never set (`WildId`).

### Bounds, and why they are enough

* `MaxVal` (values a writer adds) only cuts the counting: 2 values from each of 2
  writers fill a queue of capacity 2 twice over and bring two writers to a full
  queue and two readers to an empty one. It is a guard of `AddLock`,
  `AddReserve` and `AddCalled`. It also bounds how often a writer is overtaken, which
  `Admitted` does not rest on: overtaking is another writer let in.
* `Node` has one node more than the capacity, so that an add can hold a node
  while the list is full, and malloc fails when one more is out.
* `MaxThreads = 3` places for threads is the limit the system sets, which the loops of
  `break_limit*.c` and their like have to meet; no program needs more than 3 at once except
  `thread.c` with 5 and `test_dead_threads.c` with 1000, whose number is `Few = 3`.
* `first_semester`: `PipeSize = 2`, `PipeWrap = 4`: the numbers wrap while some are in the pipe.
  3 slots and `Laps = 3`: the writer of the ring may be several laps ahead, and wraps.
  2 clients with 2 lines or bytes each (`Lines`, `Bytes`): a read may cut what one write put in, two
  clients are in the server at once, and with `MaxFd = 2` failed forks use up the descriptors. 2 files of up to
  `MaxSize = 4` bytes where an int goes from -3 to 2 (`IntHalf = 3`): a size below the overflow, the
  one that becomes the least int, one beyond it, and changes of length at every moment. 4 names and 3 inodes: a file, its
  symbolic link, its hard link and a package with a namesake.
* Deadlock is not checked where the system stops: after `queue_destroy`, after
  an abort, or with the clients stopped. `NoLostWakeup`, `Delivered` and `Admitted` say that it does
  not stop earlier. `SharedRing` never stops, and is checked for deadlock.
* `Wrap = 7` stands for 2^32: more than the capacity and prime to it, so that the
  numbers wrap at every slot.
* `Junk` is what a freed node holds in `RacyMemory`; in the synchronised queues
  nobody reads it.
* In `RacyMemory` memory is sequentially consistent and every load and store of
  the unoptimised build (`CFLAGS := -g -Wall`) is a step. C calls these races undefined;
  the model has the outcomes this build can produce, one of which is that
  the chained assignment of line 84 reloads `last`.

### Fairness

* Weak fairness of each thread's steps: the kernel schedules every thread again
  and again. A thread that sleeps or waits for a lock has no step enabled.
* Strong fairness of taking a lock in `CvQueue`, `TPark` and of `sem_wait` in
  `SemQueue`: a thread that finds the lock free again and again gets it at
  some time. glibc's mutex and semaphores are not fair, but a futex waiter
  is woken by each unlock, and competes; it does not lose for ever.
* None for spurious wakeups, for cancellation at a particular point, for
  malloc, and none that a client ever stops: `Delivered` and `Admitted` name
  the readers' stopping as an alternative.
* `Threads`: weak fairness of each thread; strong of `Cancelled`, since `printf`
  is a cancellation point only when it writes its buffer out, which it does again and again.
  The lock of `bench_lock.c` may starve one worker until the flag is set; not after.
* `FirstSemester`: weak fairness of each process and, in the echo services, of the client that
  receives. None of the user, of kills, of failures, of losses, and none for the
  reverse copy and the file commands, of which only safety is claimed.
* `LockQueue` has only weak fairness. Its clients spin, so that a lock handed
  out unfairly may starve one for ever; only `CleanDestroyReturns` is claimed,
  when the clients have stopped.

## The proofs

Of the queues everything here is for any sets of writers and readers, any capacity and any
heap, from `ThreadAssumption` (the threads are distinct), `NodeAssumption` (NULL is
not an address) and `BoundAssumption` (the two bounds are natural numbers); where threads are
counted, also from `FiniteAssumption` (there are finitely many).

`BoundedFifoProofs`: the abstract queue's own invariant `FifoInv`. `InOrder`, that the
head is the next number of its writer, is not inductive: it needs that the
values between `got[w]` and `sent[w]` are all there (`Dense`), only they are
(`Window`), and in their order (`Sorted`).

`QueueListProofs`: one lemma for each step on the list, free of any
synchronisation: if the thread is alone inside (`Solo`), the step preserves
`HeapInv`, which is `ListInv` (types, `ListShape`, `OwnNodes`) and `HeapOK`. `OwnNodes` is the
strengthening: a thread's local node is allocated and in no list. Then the same steps as the
abstract queue sees them: `LinkIsPut`, `UnlinkIsTake`, and the rest `Silent`. The facts on
sequences (`AppendFacts`, `TailFacts`, `ItemsGrow`, `ItemsShrink`) are stated once.

`GuardedListProofs`, for the queues with one lock: the invariant in three layers, each inductive
relative to the ones before.

1. `LockInv`: types of `pc` and `lock`, each thread in its own code, `Mutex`, and `Quiet`
   (nobody else is left once `queue_destroy` walks). `Mutex` alone is not inductive, since
   the walk of `queue_destroy` needs `Quiet`, and `Quiet` the places.
2. `HeapInv`: `Mutex` says that the thread that moves is alone inside, which is what the lemmas
   of `QueueListProofs` ask for.
3. `CountInv`: `CountsOK` with the room a writer has found (`Room`).

A step of such a queue is one of a few kinds: it moves and touches the lock only (`Moves`), works
on the list, returns from a critical section (`Returns`, after which a sleeper may
have been woken), or is the monitor's or `queue_destroy`'s. There is a lemma for each kind that it
keeps the invariant and one that it is a step of the FIFO; `LockQueueProofs` and
`CvQueueProofs` say of which kind each action is, and what is their own.

| theorem | states |
|---|---|
| `LockQueueProofs` `MutualExclusion`, `TypeCorrect`, `ListShapeHolds`, `HeapHolds` | `Mutex`, `TypeOK`, `ListShape`, `HeapOK` |
| `CountsHold`, `StatsHold` | `CountsOK`, `StatsBalanced` |
| `LockQueueImplements` | `Implements`: a `SetFirst` or `LinkBehind` is a `Put`, an `Unlink` a `Take`, everything else a stutter |
| `NoError` | `NoSequenceError`, from the refinement and `FifoOrder`: the reader's check is a theorem of the abstract queue |
| `CvQueueProofs` `NoWakeupLost` | `NoLostWakeup` |
| `TypeCorrect`, `HeapHolds`, `CountsHold`, `CvQueueImplements` | `TypeOK`, `HeapOK`, `CountsOK`, `Implements` |
| `SemQueueProofs` `MutexHolds`, `BalanceHolds` | `MutexOK`, which no run checks, and `SemBalance` |
| `TypeCorrect`, `HeapHolds`, `SemQueueImplements` | `TypeOK`, `HeapOK`, `Implements` |

`NoLostWakeup` is inductive relative to the three layers. It compares a number of values with a
number of awake threads, and what keeps it is that one step changes both by one: a
`queue_add` that returns adds a value and sends a sleeping reader off, if there is one
(`AddReturnWakes`); a reader that returns takes one of each away (`GetReturnWakes`); and a
thread goes to sleep only where its side of the comparison is 0 (`WaitIsSafe`). A spurious
wakeup only adds an awake thread.

`SemQueueProofs` has no lock to hold: `SemLock` says that one thread at most is inside and that
`mutex` is up only when none is, with `Quiet`. `SemBalance` is inductive together with
`HeapInv` and the counters' `Tally`, and they with it: a reader inside has
taken from `items`, so that by `SemBalance` the list is not empty (`ThereIsValue`), which the
unlinking needs; a writer has taken from `spaces`, so that there is room (`ThereIsRoom`), which the
refinement needs. `WriterBalanced` and `ReaderBalanced` are the arithmetic of one move.

`RacyQueueProofs`: the queues without a lock, for any capacity, any heap and any number of
values, from `PointerAssumption` (NULL, the addresses and what a freed node holds are different)
and the bounds. Every load and store is a step here, and no
two of them are protected from each other, so that each invariant says at every place of the two
threads what the other may have done meanwhile.

* `CountInv`, for `CountBounds`: a thread that has loaded `num` will store one more or one less,
  whatever was stored in between. What it has loaded and what it is sure of (a writer behind its test
  that there is room, a reader behind its test that there is a value) bound what it stores. Updates are lost;
  the range is not left.
* `ReaderInv`, for `ReaderSafe`: where `first`, the reader's `tmp` and the writer's loaded pointers
  may point. Nodes come into the list with growing values, so that the ones not yet read,
  `Future`, are told by their value; `next` leads forward in them or nowhere (`Forward`); `first` and `tmp`
  stay in them (`FirstAhead`, `Reading`), and what the writer still means to store keeps it so (`Writing`).
* `RacyOrder`, for `Sequential`: until two calls overlap, either the reader is between calls and
  the list is what the place of the writer says (`AddTurn`), or the other way round (`RacyTurn`). That the list holds
  exactly the values not yet read needs a walk from `first`: `Chained` says, node by node, that
  the node of value `k` is followed by that of `k + 1`.

`FirstInv` is the same for the first version, whose reader has no tests (`FirstTurn`); `ReaderInv` has no
counterpart there, since it does not hold.

`ProgramProofs` has a part for each program or group of programs. All the programs of the first semester but
the ring are proved over `AllSpec`: each has an invariant over its own variables, which the other
families leave alone.

* The ring, for any capacity and any `Wrap` that `RingAssumption` allows. `RingInv`: every slot is
  free, full or in the hands of one of the two (`Balance`); `counter` is ahead of `expected` by the
  numbers counted and not yet checked (`CounterAhead`), `tail` of `head` by the slots in use
  (`TailAhead`), both round and round; and from `head` on the slots hold `expected` and what follows
  it (`Window`), as does the value loaded (`Loaded`).
* `lab5`: `ForkInv` says, for each place of the parent, what is known of the child, of what wait has to
  report and of `status`.
* `lab6/pipe.c`, for any size of the pipe and any wrap: the numbers in the pipe are the one the
  reader expects and those after it (`Numbered`), and the writer's next one is the one behind them. `sep_memory.c`:
  what the writer left in each slot is congruent to its place (`RawInv`), so that a gap is a number of
  whole laps.
* `lab7`, for any clients. UDP: a datagram carries the line of its client that is
  still waiting (`Carries`), and a client has one on its way at most (`Alone`). TCP: what the server holds open and
  what its children serve (`Handled`, `Waits`), and that a child has echoed all of what it read
  before it reads again (`Emptied`), from which the stream is in order at every cut.
* `lab3/main.c`, for any directory, any lengths up to any `MaxSize` and any width of int, from
  `CopyAssumption` and `NameAssumption`. `CopyInvariant`: a copy lies under the reversed name of its source
  (`Named`), its bytes descend (`Descend`), the copy being written is there with the size the loop
  started from, and its bytes and `i` add up to that size, or the loop is not entered (`LoopHolds`),
  and every other copy is finished or broken (`Finished`). No step of `Resize` can disturb these, since
  nothing is read of the source's length after `Open` but whether the byte is still there. The names
  are mirrored because after `n` swaps the outer `n` places of either side are exchanged
  (`ReverseMirrors`).
* `lab3/Task2/main1.c`, for any names and inodes: `FilesInv` (types, and that a package has no
  data of its own), and for each command that it loses nothing, or only in one of the ways that
  `LossIsNamed` lists.

The thread programs, for any `MaxThreads` of at least 3, any `Few` and any choice of programs
(`ThreadAssumption`, `ProgramAssumption`). The scripts are data, so that what is said of all
of them is checked script by script: every one is `WellFormed` (a call has another to go on with, a jump
leads into the script, threads and blocks exist), from which every thread stays in its own (`Types`, `Located`).

* `ClaimsTrue`: between a join and the claim about the thread it joined, main goes `Straight`, with neither a create nor a
  way in from elsewhere; so while main is on that stretch the thread is done (`Joined`).
* `SignalsRouted`: by main's place, the mask is there before the threads are, and the handler before
  SIGINT is unblocked (`Guarded`); in the other programs nothing is ever pending (`Unsignalled`).
* `AccessLive` and `NothingLost` rest on who owns a block when. `Minding` says it for each
  program: in `num_thread.c` and `str_thread.c` the block is the thread's until the
  join and main's after it (`Handing`); in `struct_thread.c` main's until the detached thread
  is made, and that thread's to free from then on (`Giving`); in `thread_cancel_malloc.c` the
  buffer goes with the thread, by its cleanup handler when it is cancelled (`Cancelling`); in `struct_thread_stack.c` main waits in its
  join while the thread reads its frame (`Framed`); in `thread.c` main returns normally only when all
  its threads are joined (`FewOnly`, with `AllJoined`); in `struct_main.c` a thread is there only
  where main leaves with `pthread_exit`, or has not left (`Behind`). The other programs have no blocks (`Untouched`).

| theorem | states |
|---|---|
| `RacyQueueProofs` `CountInBounds`, `ReaderIsSafe`, `OneAtATime` | `CountBounds`, `ReaderSafe`, `Sequential` of the second version |
| `FirstVersionGuarantees` | `Guarantees` of the first |
| `ProgramProofs` `RingHasNoRace`, `RingHasNoGap` | `NoSlotRace`, `NoGap` |
| `ReportsAreTrue`, `GapsReal` | `ReportsTruth`, `GapsAreReal` |
| `ConnectionsClosed`, `EchoesTrue` | `NothingKept`, `Echoed` |
| `CopiesReversed`, `NamesAreMirrored`, `DataIsLostByName` | `CopyReversed`, `NamesMirrored`, and the action property `NamedDataLost` |
| `ClaimsAreTrue`, `SignalsAreRouted` | `ClaimsTrue`, `SignalsRouted` |
| `AccessIsLive`, `NothingIsLost` | `AccessLive`, `NothingLost` |

Every invariant and every action property that a passing run checks is stated by a theorem.
Only model-checked: the liveness properties (`Delivered`, `Admitted`, `CleanDestroyReturns`,
`GoesRound`, `Returns`, `Ending`, `Answering`), which rest on fairness and are out of the
prover's reach, and therefore all of `TPark`, whose one property is of that kind.

## Not modelled

* `ctx_switch.c`, `quant.c`: they measure time and have no other behaviour.
* `lab1`, `lab2`, `lab4`: hello world, linking, addresses and page faults; what
  they show is the kernel's and the linker's doing. `lab5/checker.c` prints
  alignments, `pthread_size.c` the size of a structure.
* `lab7/udp/64kb_*.c`: one datagram that is too long for UDP, and the kernel's error.
* The commands of `lab3/Task2/main1.c` that only print, arguments with slashes in them,
  special files and `..`.
* The children of the TCP server being killed, the sockets that cannot be made, and
  lines longer than the buffers.
* The Enter that `measure_tail.c` and `thread_mem.c` wait for (`getchar`): it is taken to come, so that
  `Returns` speaks of a user who presses it.
* The values that are measured (memory, time, operations per second), and sleeps: a step may
  be delayed for as long as one likes, so that no property rests on a sleep.

## Plan

In this order; all of it is done.

1. `QueueList`, `GuardedList`, `LockQueue`, `BoundedFifo`, with the refinement.
2. `CvQueue`, `SemQueue` on the same list.
3. `RacyMemory`, `RacyQueue`, `FirstQueue`, `SharedRing`, `TPark`.
4. Proofs of the abstract queue, of the list's lemmas and of `LockQueue`.
5. Proofs of `CvQueue` and `SemQueue` from the same lemmas: the heap, the counters,
   `NoLostWakeup`, `SemBalance`, both refinements.
6. Proofs of `SharedRing`: `NoSlotRace` and `NoGap` for any capacity.
7. `ThreadScripts` and `Threads`: the thread programs and `bench_lock.c`.
8. The first semester: processes, pipe, raw ring, sockets, files; the proof of the reverse copy.
9. Proofs of the queues without a lock: `CountBounds`, `ReaderSafe`, `Sequential`, `Guarantees`.
10. Proofs of the other programs of the first semester, and of the thread programs.

What could come next: a bound on the values the queues without a lock may lose, and the safety half of the
liveness properties (what `CleanDestroyReturns` allows a stuck `queue_destroy` to look like), as
invariants that can be proved.

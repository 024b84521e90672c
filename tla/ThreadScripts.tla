--------------------------- MODULE ThreadScripts ---------------------------
(***************************************************************************)
(* The thread programs of the second semester, each as two lists of calls: *)
(* what main does and what each thread it starts does.  Threads runs them. *)
(* A call is a tuple, its name first:                                      *)
(*                                                                         *)
(*   create w k, spawn w k   pthread_create, joinable or detached, of       *)
(*                           worker w (0: whichever is free); an error goes *)
(*                           to call k, and is overlooked when k is 0       *)
(*   join w, cancel w, detach, exit     the pthread calls of these names    *)
(*   return, fail            the end of a routine; of main, with an error   *)
(*   malloc b, free b, use b a block of the heap, or main's own "frame"     *)
(*   ifnull b k, ifset k, goto k        go on at call k                     *)
(*   push b                  pthread_cleanup_push(free, b)                  *)
(*   print, testcancel       cancellation points                            *)
(*   lock, unlock, set       the lock and the stop_flag of bench_lock.c     *)
(*   read p, write p         one byte of pipe p                             *)
(*   block, unblock, sigaction, sigwait, pause    the signal calls          *)
(*   claim w, early w        the program says that thread w has ended: after *)
(*                           a join, or without one                         *)
(*                                                                         *)
(* Left out: what is printed and measured, and sleeps, since any step may  *)
(* be delayed for as long as one likes.                                    *)
(***************************************************************************)
EXTENDS Integers, Sequences

CONSTANTS MaxThreads,   \* bound: places for threads, the limit of the system
          Few           \* bound: stands for the 5 threads of thread.c and the 1000 of test_dead_threads.c

ASSUME ThreadAssumption == MaxThreads \in Nat /\ MaxThreads >= 3 /\ Few \in 1..MaxThreads

Workers == 1..MaxThreads
Each(calls) == [w \in Workers |-> calls]
ForEach(call(_)) == [w \in 1..Few |-> call(w)]

-----------------------------------------------------------------------------
(* Joined threads and what they return or borrow.                          *)
WaitThread ==
  [main |-> << <<"create", 1, 5>>, <<"join", 1>>, <<"claim", 1>>, <<"return">>, <<"fail">> >>,
   work |-> Each(<< <<"return">> >>)]

NumWork == Each(<< <<"malloc", "ret">>, <<"ifnull", "ret", 4>>, <<"use", "ret">>, <<"return">> >>)

\* mutant: the number is not freed
NumThreadKeeps ==
  [main |-> << <<"create", 1, 7>>, <<"join", 1>>, <<"claim", 1>>,
               <<"ifnull", "ret", 6>>, <<"use", "ret">>, <<"return">>, <<"fail">> >>,
   work |-> NumWork]

NumThread ==
  [main |-> << <<"create", 1, 8>>, <<"join", 1>>, <<"claim", 1>>,
               <<"ifnull", "ret", 7>>, <<"use", "ret">>, <<"free", "ret">>, <<"return">>, <<"fail">> >>,
   work |-> NumWork]

\* strdup allocates
StrThread ==
  [main |-> << <<"create", 1, 8>>, <<"join", 1>>, <<"claim", 1>>,
               <<"ifnull", "ret", 7>>, <<"use", "ret">>, <<"free", "ret">>, <<"return">>, <<"fail">> >>,
   work |-> Each(<< <<"malloc", "ret">>, <<"return">> >>)]

StructOwner ==
  << <<"malloc", "msg">>, <<"use", "msg">>, <<"malloc", "str">>, <<"use", "msg">>, <<"spawn", 1, 7>>,
     <<"return">>, <<"use", "msg">>, <<"free", "str">>, <<"free", "msg">>, <<"fail">> >>

\* mutant: the struct is freed before the string that it points to
StructThreadSwapped ==
  [main |-> StructOwner,
   work |-> Each(<< <<"use", "msg">>, <<"ifnull", "str", 4>>, <<"use", "str">>,
                    <<"free", "msg">>, <<"use", "msg">>, <<"free", "str">>, <<"return">> >>)]

\* a struct and its string on the heap; the detached thread frees both, the string
\* through the struct, and so does main when there is no thread
StructThread ==
  [main |-> StructOwner,
   work |-> Each(<< <<"use", "msg">>, <<"ifnull", "str", 4>>, <<"use", "str">>,
                    <<"use", "msg">>, <<"free", "str">>, <<"free", "msg">>, <<"return">> >>)]

\* the struct in main's frame: main joins before it returns
StructThreadStack ==
  [main |-> << <<"create", 1, 4>>, <<"join", 1>>, <<"return">>, <<"fail">> >>,
   work |-> Each(<< <<"use", "frame">>, <<"return">> >>)]

\* the same struct, but main leaves with pthread_exit
StructMain ==
  [main |-> << <<"create", 1, 3>>, <<"exit">>, <<"fail">> >>,
   work |-> Each(<< <<"use", "frame">>, <<"return">> >>)]

\* each thread writes its id into an array of main's frame; main compares after the joins
SelfIds ==
  [main |-> ForEach(LAMBDA w : <<"create", w, 3 * Few + 2>>) \o ForEach(LAMBDA w : <<"join", w>>)
            \o ForEach(LAMBDA w : <<"claim", w>>) \o << <<"return">>, <<"fail">> >>,
   work |-> Each(<< <<"use", "frame">>, <<"use", "frame">>, <<"return">> >>)]

\* the id of a thread that could not be made is joined
StackSize ==
  [main |-> << <<"create", 1, 0>>, <<"join", 1>>, <<"return">> >>,
   work |-> Each(<< <<"return">> >>)]

\* main does not wait at all
HelloThread ==
  [main |-> << <<"create", 1, 3>>, <<"return">>, <<"fail">> >>, work |-> Each(<< <<"return">> >>)]

-----------------------------------------------------------------------------
(* Cancelled threads.  The error of pthread_create is kept and not looked  *)
(* at.                                                                     *)
ThreadCancel ==
  [main |-> << <<"create", 1, 0>>, <<"cancel", 1>>, <<"return">> >>,
   work |-> Each(<< <<"print">>, <<"goto", 1>> >>)]

\* mutant: a loop without a cancellation point
ThreadCancelDeaf ==
  [main |-> << <<"create", 1, 0>>, <<"cancel", 1>>, <<"join", 1>>, <<"return">> >>,
   work |-> Each(<< <<"goto", 1>> >>)]

\* the first million rounds, which do nothing, are left out
ThreadCancelCount ==
  [main |-> << <<"create", 1, 0>>, <<"cancel", 1>>, <<"join", 1>>, <<"return">> >>,
   work |-> Each(<< <<"testcancel">>, <<"goto", 1>> >>)]

ThreadCancelMalloc ==
  [main |-> << <<"create", 1, 0>>, <<"cancel", 1>>, <<"join", 1>>, <<"return">> >>,
   work |-> Each(<< <<"malloc", "ret">>, <<"push", "ret">>, <<"print">>, <<"goto", 3>> >>)]

-----------------------------------------------------------------------------
(* Threads without end: how many can there be?                             *)
Loop(create, over, calls) == [main |-> << create, <<"goto", 1>>, over >>, work |-> Each(calls)]

BreakLimit  == Loop(<<"create", 0, 3>>, <<"pause">>, << <<"pause">> >>)
BreakLimit2 == Loop(<<"create", 0, 3>>, <<"pause">>, << <<"return">> >>)
BreakLimit3 == Loop(<<"create", 0, 3>>, <<"fail">>, << <<"return">> >>)
WhileOverflowThread == Loop(<<"create", 0, 3>>, <<"fail">>, << <<"return">> >>)
WhileThread == Loop(<<"create", 0, 3>>, <<"fail">>, << <<"detach">>, <<"return">> >>)
CreateDetached == Loop(<<"spawn", 0, 3>>, <<"fail">>, << <<"return">> >>)

TestDeadThreads ==
  [main |-> ForEach(LAMBDA w : <<"create", 0, Few + 2>>) \o << <<"return">>, <<"fail">> >>,
   work |-> Each(<< <<"return">> >>)]

-----------------------------------------------------------------------------
(* Measurements around the life of a thread.                               *)
TailWork == Each(<< <<"write", 2>>, <<"read", 1>>, <<"write", 2>>, <<"return">> >>)

\* mutant: the last report comes before the join
MeasureTailUnjoined ==
  [main |-> << <<"create", 1, 9>>, <<"read", 2>>, <<"write", 1>>, <<"read", 2>>, <<"early", 1>>,
               <<"claim", 1>>, <<"join", 1>>, <<"return">>, <<"fail">> >>, work |-> TailWork]

\* the thread writes S on pipe 2, waits for Q on pipe 1, writes E and returns
MeasureTail ==
  [main |-> << <<"create", 1, 9>>, <<"read", 2>>, <<"write", 1>>, <<"read", 2>>, <<"early", 1>>,
               <<"join", 1>>, <<"claim", 1>>, <<"return">>, <<"fail">> >>, work |-> TailWork]

ThreadMem ==
  [main |-> << <<"create", 1, 0>>, <<"early", 1>>, <<"join", 1>>, <<"claim", 1>>, <<"return">> >>,
   work |-> Each(<< <<"return">> >>)]

\* the thread looks at what main has left behind: early 0
DestroyMainStack ==
  [main |-> << <<"create", 1, 3>>, <<"exit">>, <<"fail">> >>,
   work |-> Each(<< <<"early", 0>>, <<"return">> >>)]

\* two workers count how often they get the lock until main sets the flag; main then
\* adds up what they have stored, after the joins
BenchLock ==
  [main |-> << <<"create", 1, 0>>, <<"create", 2, 0>>, <<"set">>, <<"join", 1>>, <<"join", 2>>,
               <<"claim", 1>>, <<"claim", 2>>, <<"return">> >>,
   work |-> Each(<< <<"ifset", 5>>, <<"lock">>, <<"unlock">>, <<"goto", 1>>, <<"return">> >>)]

-----------------------------------------------------------------------------
(* Signals: everything is blocked before there is a thread; then thread 2  *)
(* unblocks SIGINT for the handler, and thread 3 accepts SIGQUIT.          *)
SignalThreads ==
  [w \in Workers |-> CASE w = 1 -> << <<"block">>, <<"pause">> >>
                      [] w = 2 -> << <<"unblock">>, <<"pause">> >>
                      [] OTHER -> << <<"sigwait">> >>]

\* mutant: the threads are there before main blocks the signals
SignalsLate ==
  [main |-> << <<"sigaction">>, <<"create", 1, 7>>, <<"create", 2, 7>>, <<"create", 3, 7>>,
               <<"block">>, <<"pause">>, <<"fail">> >>, work |-> SignalThreads]

Signals ==
  [main |-> << <<"block">>, <<"sigaction">>, <<"create", 1, 7>>, <<"create", 2, 7>>, <<"create", 3, 7>>,
               <<"pause">>, <<"fail">> >>, work |-> SignalThreads]

\* the same calls with pause instead of sleep and with SA_RESTART
HandlerSignal == Signals

-----------------------------------------------------------------------------
Script ==
  [wait_thread |-> WaitThread, num_thread |-> NumThread, str_thread |-> StrThread,
   struct_thread |-> StructThread, struct_thread_stack |-> StructThreadStack,
   struct_main |-> StructMain, thread |-> SelfIds, stack_size |-> StackSize, hello |-> HelloThread,
   thread_cancel |-> ThreadCancel, thread_cancel_count |-> ThreadCancelCount,
   thread_cancel_malloc |-> ThreadCancelMalloc,
   break_limit |-> BreakLimit, break_limit_2 |-> BreakLimit2, break_limit_3 |-> BreakLimit3,
   while_overflow_thread |-> WhileOverflowThread, while_thread |-> WhileThread,
   create_DETACHED |-> CreateDetached, test_dead_threads |-> TestDeadThreads,
   measure_tail |-> MeasureTail, thread_mem |-> ThreadMem,
   destroy_main_stack |-> DestroyMainStack, bench_lock |-> BenchLock,
   signal |-> Signals, handler_signal |-> HandlerSignal]

\* the program runs until somebody stops it
Endless == {"while_thread", "create_DETACHED", "signal", "handler_signal"}
=============================================================================

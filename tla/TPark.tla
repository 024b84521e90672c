------------------------------- MODULE TPark -------------------------------
(***************************************************************************)
(* bench_tpark.c of sp_vs_mu: main signals ITERS events to a thread that   *)
(* measures how long each wakeup takes, and then joins it.  seq numbers    *)
(* the events; the waiter remembers in seen the last one it noticed.       *)
(***************************************************************************)
EXTENDS Integers

CONSTANT ITERS

VARIABLES seq, m,               \* the event number and the mutex
          wpc, i, seen,         \* the waiter, its loop counter and its local seen
          mpc, j                \* main and its loop counter

vars == <<seq, m, wpc, i, seen, mpc, j>>

Init == /\ seq = 0 /\ m = "free"
        /\ wpc = "loop" /\ i = 0 /\ seen = 0
        /\ mpc = "loop" /\ j = 0

-----------------------------------------------------------------------------
(* waiter().                                                               *)
Waiter(from, to) == wpc = from /\ wpc' = to /\ UNCHANGED <<seq, mpc, j>>

WaiterLocks == /\ i < ITERS
               /\ \/ Waiter("loop", "test")
                  \/ Waiter("woken", "test")
               /\ m = "free" /\ m' = "waiter"
               /\ UNCHANGED <<i, seen>>

\* while (seq == seen) pthread_cond_wait(&c, &m)
WaiterSleeps == /\ Waiter("test", "asleep")
                /\ seq = seen
                /\ m' = "free"
                /\ UNCHANGED <<i, seen>>

SpuriousWakeup == Waiter("asleep", "woken") /\ UNCHANGED <<m, i, seen>>

\* seen = seq: every event signalled so far is taken for one
WaiterNotices == /\ Waiter("test", "loop")
                 /\ seq # seen
                 /\ seen' = seq
                 /\ i' = i + 1
                 /\ m' = "free"

WaiterReturns == i = ITERS /\ Waiter("loop", "returned") /\ UNCHANGED <<m, i, seen>>

WaiterStep == WaiterLocks \/ WaiterSleeps \/ WaiterNotices \/ WaiterReturns

-----------------------------------------------------------------------------
(* main.                                                                   *)
MainLocks == /\ mpc = "loop" /\ mpc' = "signal"
             /\ j < ITERS
             /\ m = "free" /\ m' = "main"
             /\ UNCHANGED <<seq, wpc, i, seen, j>>

\* seq++; pthread_cond_signal(&c); unlock
MainSignals == /\ mpc = "signal" /\ mpc' = "loop"
               /\ seq' = seq + 1
               /\ wpc' = IF wpc = "asleep" THEN "woken" ELSE wpc
               /\ m' = "free"
               /\ j' = j + 1
               /\ UNCHANGED <<i, seen>>

MainJoins == /\ mpc = "loop" /\ mpc' = "joined"
             /\ j = ITERS /\ wpc = "returned"
             /\ UNCHANGED <<seq, m, wpc, i, seen, j>>

MainStep == MainLocks \/ MainSignals \/ MainJoins

Next == WaiterStep \/ SpuriousWakeup \/ MainStep

(* Both threads are scheduled, and one that finds the mutex free again and *)
(* again gets it some time.                                                *)
Fairness == /\ WF_vars(WaiterStep) /\ SF_vars(WaiterLocks)
            /\ WF_vars(MainStep) /\ SF_vars(MainLocks)

Spec == Init /\ [][Next]_vars /\ Fairness

-----------------------------------------------------------------------------
(* The benchmark ends: the waiter collects its ITERS samples and main's    *)
(* join returns, however late the waiter starts (the comment at the usleep *)
(* says that its start does not matter).                                   *)
Finishes == <>(mpc = "joined")
=============================================================================

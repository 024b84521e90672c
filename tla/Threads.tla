------------------------------ MODULE Threads ------------------------------
(***************************************************************************)
(* What the calls of ThreadScripts do: threads are started, end, are       *)
(* collected by a join or, detached, on their own; a cancelled thread ends *)
(* at its next cancellation point; the process ends when main returns, or  *)
(* with its last thread.  The library and the kernel are outside the       *)
(* repository and are modelled as the programs use them.                   *)
(***************************************************************************)
EXTENDS ThreadScripts, FiniteSets

CONSTANT Programs    \* the programs to run, each on its own

ASSUME ProgramAssumption == Programs \subseteq DOMAIN Script

VARIABLES
  program,   \* the one that runs
  thread,    \* thread 0 is main's
  mem,       \* the blocks of the heap
  sync,      \* a lock, a flag and the bytes in two pipes
  sig,       \* signals: pending, the handler, and which threads have run it
  over       \* "no", or how the process has ended

vars == <<program, thread, mem, sync, sig, over>>

Thread == {0} \cup Workers
Block == {"msg", "str", "ret"}
SIGNALS == {"INT", "QUIT"}
Unborn == [life |-> "none", at |-> 1, detached |-> FALSE, cancelled |-> FALSE,
           cleanup |-> {}, mask |-> {}]

Init == /\ program \in Programs
        /\ thread = [t \in Thread |-> IF t = 0 THEN [Unborn EXCEPT !.life = "run"] ELSE Unborn]
        /\ mem = [b \in Block |-> "none"]
        /\ sync = [lock |-> "free", stop |-> FALSE, bytes |-> <<0, 0>>]
        /\ sig = [pending |-> {}, handler |-> FALSE, ranIn |-> {}]
        /\ over = "no"

Code(t) == IF t = 0 THEN Script[program].main ELSE Script[program].work[t]
Running(t) == over = "no" /\ thread[t].life = "run"
Op(t) == Code(t)[thread[t].at]
Is(t, op) == Running(t) /\ Op(t)[1] = op
Arg(t) == Op(t)[2]

At(t, k) == [thread EXCEPT ![t].at = k]
Beyond(t) == At(t, thread[t].at + 1)
Proceed(t) == thread' = Beyond(t)

-----------------------------------------------------------------------------
(* The life of a thread.                                                   *)
Started(w, detached) == [Beyond(0) EXCEPT ![w] = [Unborn EXCEPT !.life = "run", !.detached = detached,
                                                                !.mask = thread[0].mask]]

Places == IF Arg(0) = 0 THEN Workers ELSE {Arg(0)}

Create == /\ \/ /\ Is(0, "create")
                /\ \E w \in Places : thread[w].life = "none" /\ thread' = Started(w, FALSE)
             \/ /\ Is(0, "spawn")
                /\ \E w \in Places : thread[w].life = "none" /\ thread' = Started(w, TRUE)
          /\ UNCHANGED <<program, mem, sync, sig, over>>

\* the system may be short of threads or memory at any time, and is when no place is free
CreateFails == /\ Is(0, "create") \/ Is(0, "spawn")
               /\ thread' = IF Op(0)[3] = 0 THEN Beyond(0) ELSE At(0, Op(0)[3])
               /\ UNCHANGED <<program, mem, sync, sig, over>>

\* a thread ends: a detached one is gone, the others stay until they are joined
Ended(t) == IF thread[t].detached THEN Unborn ELSE [thread[t] EXCEPT !.life = "done"]

Return(w) == /\ w # 0 /\ Is(w, "return")
             /\ thread' = [thread EXCEPT ![w] = Ended(w)]
             /\ UNCHANGED <<program, mem, sync, sig, over>>

Detach(w) == /\ Is(w, "detach")
             /\ thread' = [Beyond(w) EXCEPT ![w].detached = TRUE]
             /\ UNCHANGED <<program, mem, sync, sig, over>>

Join == /\ Is(0, "join") /\ thread[Arg(0)].life = "done"
        /\ thread' = [Beyond(0) EXCEPT ![Arg(0)] = Unborn]
        /\ UNCHANGED <<program, mem, sync, sig, over>>

Cancel == /\ Is(0, "cancel") /\ thread[Arg(0)].life # "none"
          /\ thread' = [Beyond(0) EXCEPT ![Arg(0)].cancelled = TRUE]
          /\ UNCHANGED <<program, mem, sync, sig, over>>

\* an id that no pthread_create has filled in: the call fails, or the process crashes
WildId == /\ \E op \in {"join", "cancel"} : Is(0, op) /\ thread[Arg(0)].life = "none"
          /\ \/ Proceed(0) /\ UNCHANGED over
             \/ over' = "crashed" /\ UNCHANGED thread
          /\ UNCHANGED <<program, mem, sync, sig>>

\* printf is a cancellation point only when it writes its buffer out
Printf(t) == /\ \/ Is(t, "print")
                \/ Is(t, "testcancel") /\ ~thread[t].cancelled
             /\ Proceed(t)
             /\ UNCHANGED <<program, mem, sync, sig, over>>

\* the cleanup handlers run, and the thread ends
Cancelled(t) == /\ Is(t, "print") \/ Is(t, "testcancel")
                /\ thread[t].cancelled
                /\ thread' = [thread EXCEPT ![t] = Ended(t)]
                /\ mem' = [b \in Block |-> IF b \in thread[t].cleanup /\ mem[b] = "live"
                                           THEN "freed" ELSE mem[b]]
                /\ UNCHANGED <<program, sync, sig, over>>

\* main leaves, with its frame; the process ends a moment later, or with its last thread
MainReturns == /\ \/ Is(0, "return") /\ thread' = [thread EXCEPT ![0].life = "returned"]
                  \/ Is(0, "fail") /\ thread' = [thread EXCEPT ![0].life = "failed"]
                  \/ Is(0, "exit") /\ thread' = [thread EXCEPT ![0].life = "done"]
               /\ UNCHANGED <<program, mem, sync, sig, over>>

ProcessEnds == /\ over = "no"
               /\ \/ thread[0].life \in {"returned", "failed"}
                  \/ thread[0].life = "done" /\ \A t \in Thread : ~Running(t)
               /\ over' = "ended"
               /\ UNCHANGED <<program, thread, mem, sync, sig>>

-----------------------------------------------------------------------------
(* Memory, control, the lock, the flag and the pipes.                      *)
Store(b, states) == \E s \in states : mem' = [mem EXCEPT ![b] = s]

Memory(t) == /\ \/ Is(t, "malloc") /\ Store(Arg(t), {"live", "null"})
                \/ Is(t, "free") /\ Store(Arg(t), {IF mem[Arg(t)] = "null" THEN "null" ELSE "freed"})
                \/ Is(t, "use") /\ Arg(t) = "frame" /\ UNCHANGED mem
                \/ Is(t, "use") /\ Arg(t) \in Block /\ mem[Arg(t)] # "null" /\ UNCHANGED mem
             /\ Proceed(t)
             /\ UNCHANGED <<program, sync, sig, over>>

NullPointer(t) == /\ Is(t, "use") /\ Arg(t) \in Block /\ mem[Arg(t)] = "null"
                  /\ over' = "crashed"
                  /\ UNCHANGED <<program, thread, mem, sync, sig>>

Control(t) == /\ \/ Is(t, "goto") /\ thread' = At(t, Arg(t))
                 \/ Is(t, "ifnull") /\ thread' = IF mem[Arg(t)] = "null" THEN At(t, Op(t)[3]) ELSE Beyond(t)
                 \/ Is(t, "ifset") /\ thread' = IF sync.stop THEN At(t, Arg(t)) ELSE Beyond(t)
                 \/ Is(t, "push") /\ thread' = [Beyond(t) EXCEPT ![t].cleanup = @ \cup {Arg(t)}]
                 \/ Is(t, "claim") /\ Proceed(t)
                 \/ Is(t, "early") /\ Proceed(t)
              /\ UNCHANGED <<program, mem, sync, sig, over>>

Synchronise(t) == /\ \/ Is(t, "lock") /\ sync.lock = "free" /\ sync' = [sync EXCEPT !.lock = "taken"]
                     \/ Is(t, "unlock") /\ sync' = [sync EXCEPT !.lock = "free"]
                     \/ Is(t, "set") /\ sync' = [sync EXCEPT !.stop = TRUE]
                     \/ Is(t, "write") /\ sync' = [sync EXCEPT !.bytes[Arg(t)] = @ + 1]
                     \/ /\ Is(t, "read") /\ sync.bytes[Arg(t)] > 0
                        /\ sync' = [sync EXCEPT !.bytes[Arg(t)] = @ - 1]
                  /\ Proceed(t)
                  /\ UNCHANGED <<program, mem, sig, over>>

-----------------------------------------------------------------------------
(* Signals.                                                                *)
Mask(t) == /\ \/ Is(t, "block") /\ thread' = [Beyond(t) EXCEPT ![t].mask = SIGNALS]
              \/ Is(t, "unblock") /\ thread' = [Beyond(t) EXCEPT ![t].mask = @ \ {"INT"}]
           /\ UNCHANGED <<program, mem, sync, sig, over>>

SigAction == /\ Is(0, "sigaction") /\ Proceed(0)
             /\ sig' = [sig EXCEPT !.handler = TRUE]
             /\ UNCHANGED <<program, mem, sync, over>>

SigWait(t) == /\ Is(t, "sigwait") /\ "QUIT" \in sig.pending
              /\ sig' = [sig EXCEPT !.pending = @ \ {"QUIT"}]
              /\ UNCHANGED <<program, thread, mem, sync, over>>

\* somebody types ^C or ^\; a second one before the first is delivered is lost
Send == /\ program \in {"signal", "handler_signal"} /\ over = "no"
        /\ \E s \in SIGNALS \ sig.pending : sig' = [sig EXCEPT !.pending = @ \cup {s}]
        /\ UNCHANGED <<program, thread, mem, sync, over>>

\* the kernel gives the signal to some thread that does not block it
Deliver == /\ \E t \in Thread, s \in sig.pending :
                /\ Running(t) /\ s \notin thread[t].mask
                /\ IF s = "INT" /\ sig.handler
                   THEN /\ sig' = [sig EXCEPT !.pending = @ \ {s}, !.ranIn = @ \cup {t}]
                        /\ UNCHANGED over
                   ELSE over' = "killed" /\ UNCHANGED sig
           /\ UNCHANGED <<program, thread, mem, sync>>

-----------------------------------------------------------------------------
MainStep == Create \/ CreateFails \/ Join \/ Cancel \/ WildId \/ MainReturns \/ SigAction

ThreadStep(t) == \/ Return(t) \/ Detach(t) \/ Printf(t) \/ Memory(t) \/ NullPointer(t)
                 \/ Control(t) \/ Synchronise(t) \/ Mask(t) \/ SigWait(t)

Next == \/ MainStep \/ ProcessEnds \/ Send \/ Deliver
        \/ \E t \in Thread : ThreadStep(t) \/ Cancelled(t)

\* every thread is scheduled; printf writes its buffer out again and again, and a
\* cancelled thread ends there
Spec == /\ Init /\ [][Next]_vars
        /\ WF_vars(MainStep) /\ WF_vars(ProcessEnds)
        /\ \A t \in Thread : WF_vars(ThreadStep(t)) /\ SF_vars(Cancelled(t))

-----------------------------------------------------------------------------
(* Properties.                                                             *)
FrameLives == thread[0].life = "run"

\* The two programs that leave threads behind with pointers into main's frame:
\* struct_main.c ends its main with pthread_exit, and thread.c returns when a
\* pthread_create fails.
FrameLeft == \/ program = "struct_main" /\ thread[0].life = "done"
             \/ program = "thread" /\ thread[0].life = "failed"

\* A thread about to touch memory finds it there: a block is not freed while another
\* thread will still use or free it, nor freed twice, and main's frame is used while
\* main is in it, or else it is one of the two frames left behind.
AccessLive ==
  \A t \in Thread : Is(t, "use") \/ Is(t, "free") =>
    IF Arg(t) = "frame" THEN FrameLives \/ FrameLeft
                        ELSE mem[Arg(t)] \in {"live", "null"}

\* A process that ends by itself, with no thread cut off in its work, has freed what
\* it allocated: the number and the string that a thread returns (num_thread.c,
\* str_thread.c), the struct a detached thread is given (struct_thread.c), the buffer
\* of a cancelled thread (thread_cancel_malloc.c).
NothingLost == over = "ended" /\ (\A w \in Workers : thread[w].life # "run")
               => \A b \in Block : mem[b] # "live"

\* What main says after a join holds: the thread it speaks of has ended ("thread is
\* finished!", "RSS after pthread_join", the sums of bench_lock.c, the ids that
\* thread.c compares).
ClaimsTrue == Is(0, "claim") => thread[Arg(0)].life \in {"done", "none"}

\* The same of what a program says without a join (the comment at measure_tail.c:82).
EarlyClaimsTrue == \A t \in Thread : Is(t, "early") => thread[Arg(t)].life \in {"done", "none"}

\* SIGINT is handled in the second thread only, SIGQUIT is only ever accepted by the
\* third one's sigwait; neither ends the process once main has blocked them
\* (signal.c, handler_signal.c).
SignalsRouted == /\ sig.ranIn \subseteq {2}
                 /\ over = "killed" => thread[0].at = 1

\* Every other program comes to its end, or to the pause at the end of break_limit.c:
\* no join waits for ever, no worker misses the stop flag of bench_lock.c, a loop of
\* pthread_create meets its limit when the threads are not detached, and a cancelled
\* thread that its main joins does end.
Returns == program \notin Endless ~> (over # "no" \/ Is(0, "pause"))
=============================================================================

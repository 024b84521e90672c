----------------------------- MODULE SharedRing -----------------------------
(***************************************************************************)
(* sep_memory_fix.c of 1st_sem/lab6: a ring of numbers in a page shared by *)
(* two processes.  The child waits on sem_empty, fills buf[tail] and posts *)
(* sem_full; the parent waits on sem_full, reads buf[head] and posts       *)
(* sem_empty.  head, tail and buf have no other protection.                *)
(***************************************************************************)
EXTENDS Integers

CONSTANTS capacity,   \* how many numbers fit in the page
          Wrap        \* counter and expected are uint32_t: Wrap stands for 2^32

\* the program exits when capacity < 2, and no page holds 2^32 numbers
ASSUME RingAssumption == /\ capacity \in Nat \ {0, 1}
                         /\ Wrap \in Nat /\ Wrap > capacity

VARIABLES
  sem_empty, sem_full, head, tail, buf,   \* struct shm
  cpc, counter,                           \* the child
  ppc, val, expected, errors              \* the parent; errors: it printed its error line

semVars == <<sem_empty, sem_full>>
childVars == <<cpc, counter, tail, buf>>
parentVars == <<ppc, val, expected, errors, head>>
sharedVars == <<semVars, childVars, parentVars>>

Slots == 0..capacity - 1
Numbers == 0..Wrap - 1

\* mmap gives a page of zeros
SharedInit == /\ sem_empty = capacity /\ sem_full = 0
              /\ head = 0 /\ tail = 0
              /\ buf = [s \in Slots |-> 0]
              /\ cpc = "wait" /\ counter = 0
              /\ ppc = "wait" /\ val = 0 /\ expected = 0 /\ errors = FALSE

-----------------------------------------------------------------------------
ChildGoto(from, to) == cpc = from /\ cpc' = to /\ UNCHANGED parentVars

\* mutant: the child does not wait for a free slot
ChildUnpaced == /\ ChildGoto("wait", "store")
                /\ UNCHANGED <<semVars, counter, tail, buf>>

ChildWait == /\ ChildGoto("wait", "store")
             /\ sem_empty > 0
             /\ sem_empty' = sem_empty - 1
             /\ UNCHANGED <<sem_full, counter, tail, buf>>

\* buf[tail] = counter
ChildStore == /\ ChildGoto("store", "advance")
              /\ buf' = [buf EXCEPT ![tail] = counter]
              /\ UNCHANGED <<semVars, counter, tail>>

\* mutant: tail runs one slot too far before it wraps
ChildOverrun == /\ ChildGoto("advance", "post")
                /\ tail' = IF tail = capacity - 1 THEN 1 ELSE tail + 1
                /\ UNCHANGED <<semVars, counter, buf>>

ChildAdvance == /\ ChildGoto("advance", "post")
                /\ tail' = (tail + 1) % capacity
                /\ UNCHANGED <<semVars, counter, buf>>

\* sem_post(&sem_full); counter++
ChildPost == /\ ChildGoto("post", "wait")
             /\ sem_full' = sem_full + 1
             /\ counter' = (counter + 1) % Wrap
             /\ UNCHANGED <<sem_empty, tail, buf>>

ChildStep == ChildWait \/ ChildStore \/ ChildAdvance \/ ChildPost

-----------------------------------------------------------------------------
ParentGoto(from, to) == ppc = from /\ ppc' = to /\ UNCHANGED childVars

ParentWait == /\ ParentGoto("wait", "load")
              /\ sem_full > 0
              /\ sem_full' = sem_full - 1
              /\ UNCHANGED <<sem_empty, val, expected, errors, head>>

\* val = buf[head]
ParentLoad == /\ ParentGoto("load", "check")
              /\ val' = buf[head]
              /\ UNCHANGED <<semVars, expected, errors, head>>

\* an unexpected number is reported, and the check resumes behind it
ParentCheck == /\ ParentGoto("check", "advance")
               /\ errors' = (errors \/ val # expected)
               /\ expected' = IF val # expected THEN (val + 1) % Wrap
                                                ELSE (expected + 1) % Wrap
               /\ UNCHANGED <<semVars, val, head>>

ParentAdvance == /\ ParentGoto("advance", "post")
                 /\ head' = (head + 1) % capacity
                 /\ UNCHANGED <<semVars, val, expected, errors>>

\* mutant: the slot is not given back
ParentKeeps == /\ ParentGoto("post", "wait")
               /\ UNCHANGED <<semVars, val, expected, errors, head>>

ParentPost == /\ ParentGoto("post", "wait")
              /\ sem_empty' = sem_empty + 1
              /\ UNCHANGED <<sem_full, val, expected, errors, head>>

ParentStep == ParentWait \/ ParentLoad \/ ParentCheck \/ ParentAdvance \/ ParentPost

SharedNext == ChildStep \/ ParentStep

(* Both processes are scheduled.  Each semaphore has one waiter, which     *)
(* nobody can overtake, so that weak fairness is enough.                   *)
Fairness == WF_sharedVars(ChildStep) /\ WF_sharedVars(ParentStep)

SharedSpec == SharedInit /\ [][SharedNext]_sharedVars /\ Fairness

-----------------------------------------------------------------------------
(* The child never stores into the slot the parent is loading.             *)
NoSlotRace == cpc = "store" /\ ppc = "load" => head # tail

(* The parent never prints its error line, also where the numbers wrap.    *)
NoGap == ~errors

(* The ring never stops: head and tail go round for ever.                  *)
GoesRound == \A s \in Slots : []<>(head = s) /\ []<>(tail = s)
=============================================================================

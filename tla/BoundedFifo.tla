---------------------------- MODULE BoundedFifo ----------------------------
(***************************************************************************)
(* What the queue promises, whichever way its operations are synchronised: *)
(* a bounded first-in first-out channel.  Every writer numbers the values  *)
(* it adds 0, 1, 2, ... (writer() in queue-threads.c); a value is the pair *)
(* <<writer, number>>.  LockQueue, CvQueue and SemQueue are shown to       *)
(* implement this specification.                                           *)
(***************************************************************************)
EXTENDS Integers, Sequences

CONSTANTS Writers,    \* the threads that add
          max_count   \* the capacity given to queue_init

VARIABLES items,      \* the queue's content, oldest first
          sent,       \* per writer, how many values it has put in
          got         \* per writer, the number after the last one taken out

fifoVars == <<items, sent, got>>

Init == /\ items = <<>>
        /\ sent = [w \in Writers |-> 0]
        /\ got = [w \in Writers |-> 0]

Put(w) == /\ Len(items) < max_count
          /\ items' = Append(items, <<w, sent[w]>>)
          /\ sent' = [sent EXCEPT ![w] = @ + 1]
          /\ UNCHANGED got

Take == /\ items # <<>>
        /\ LET writer == Head(items)[1]
               number == Head(items)[2]
           IN  got' = [got EXCEPT ![writer] = number + 1]
        /\ items' = Tail(items)
        /\ UNCHANGED sent

Next == Take \/ \E w \in Writers : Put(w)

Spec == Init /\ [][Next]_fifoVars

-----------------------------------------------------------------------------
Values == Writers \X Nat

FifoTypeOK == /\ items \in Seq(Values)
              /\ sent \in [Writers -> Nat]
              /\ got \in [Writers -> Nat]

(* What is in the queue is exactly what was sent and not yet taken, and    *)
(* one writer's values stand in the order it sent them.                    *)
Window == \A k \in 1..Len(items) :
             /\ got[items[k][1]] =< items[k][2]
             /\ items[k][2] < sent[items[k][1]]

Sorted == \A j, k \in 1..Len(items) :
             j < k /\ items[j][1] = items[k][1] => items[j][2] < items[k][2]

Dense == \A w \in Writers, i \in Nat :
            got[w] =< i /\ i < sent[w] =>
               \E k \in 1..Len(items) : items[k] = <<w, i>>

Behind == \A w \in Writers : got[w] =< sent[w]

FifoInv == FifoTypeOK /\ Behind /\ Window /\ Sorted /\ Dense

(* The next value taken from a writer is the one after the last: nothing   *)
(* lost, nothing twice, nothing out of order.  It is what reader() in      *)
(* queue-threads.c checks with its variable expected.                      *)
InOrder == items # <<>> => Head(items)[2] = got[Head(items)[1]]

(* The capacity is never exceeded.                                         *)
WithinCapacity == Len(items) =< max_count
=============================================================================

---------------------------- MODULE ProgramProofs ----------------------------
(***************************************************************************)
(* What the runs of MCSharedRing, MCFirstSemester and MCThreads check on   *)
(* small instances, for every value of the constants: the programs other   *)
(* than the queue.  The ring of lab6 is SharedSpec of SharedRing, the      *)
(* programs of the other labs are AllSpec of FirstSemester, each with an   *)
(* invariant of its own, which the steps of the others leave alone, and    *)
(* the thread programs are Spec of Threads.                                *)
(***************************************************************************)
EXTENDS FirstSemester, SharedRing, Threads, SequenceTheorems, WellFoundedInduction, TLAPS

-----------------------------------------------------------------------------
(* Numbers and remainders.                                                 *)
(* Every set of numbers has a least one.                                   *)
LEMMA LeastNumber ==
  ASSUME NEW T, T \subseteq Nat, T # {}
  PROVE  \E x \in T : \A y \in T : x =< y
<1> DEFINE R == OpToRel(<, Nat)
<1>1. IsWellFoundedOn(R, Nat)
  BY NatLessThanWellFounded, Zenon
<1>2. \A x, y \in Nat : <<y, x>> \in R <=> y < x
  BY DEF OpToRel
<1> HIDE DEF R
<1>3. PICK x \in T : \A y \in T : ~ (<<y, x>> \in R)
  BY <1>1, WFMin
<1>4. x \in Nat /\ \A y \in T : y \in Nat /\ ~(y < x)
  BY <1>2, <1>3
<1> QED BY <1>4

(* A number is a multiple and a remainder in one way only.                 *)
LEMMA OneRemainder ==
  ASSUME NEW w \in Nat \ {0}, NEW p \in Int, NEW q \in Int, NEW r \in 0..w - 1, NEW s \in 0..w - 1,
         w * p + r = w * q + s
  PROVE  p = q /\ r = s
<1>1. w * (p - q) = s - r
  OBVIOUS
<1> DEFINE d == p - q
<1>2. d \in Int /\ w * d = s - r
  BY <1>1
<1>3. ASSUME d >= 1 PROVE w * d >= w
  BY <1>2, <1>3
<1>4. ASSUME d =< -1 PROVE w * d =< -w
  BY <1>2, <1>4
<1> HIDE DEF d
<1>5. d = 0
  BY <1>2, <1>3, <1>4
<1> QED BY <1>5, <1>2 DEF d

LEMMA Division ==
  ASSUME NEW w \in Nat \ {0}, NEW a \in Int
  PROVE  /\ a % w \in 0..w - 1 /\ a \div w \in Int
         /\ a = w * (a \div w) + (a % w)
OBVIOUS

LEMMA Remainder ==
  ASSUME NEW w \in Nat \ {0}, NEW k \in Int, NEW r \in 0..w - 1
  PROVE  (w * k + r) % w = r
<1> DEFINE a == w * k + r
           q == a \div w
           t == a % w
<1>1. a \in Int
  OBVIOUS
<1>2. t \in 0..w - 1 /\ q \in Int /\ a = w * q + t
  BY <1>1, Division
<1> HIDE DEF q, t
<1>3. t = r
  BY <1>2, OneRemainder
<1> QED BY <1>3 DEF t

(* A remainder taken on the way changes nothing.                           *)
LEMMA RemainderOfSum ==
  ASSUME NEW w \in Nat \ {0}, NEW a \in Int, NEW b \in Int
  PROVE  ((a % w) + b) % w = (a + b) % w
<1> DEFINE q == a \div w
           r == a % w
           p == (r + b) \div w
           s == (r + b) % w
<1>1. r \in 0..w - 1 /\ q \in Int /\ a = w * q + r
  BY Division
<1>2. r + b \in Int
  BY <1>1
<1>3. s \in 0..w - 1 /\ p \in Int /\ r + b = w * p + s
  BY <1>2, Division
<1> HIDE DEF q, r, p, s
<1>4. a + b = w * (q + p) + s
  BY <1>1, <1>3
<1>5. (w * (q + p) + s) % w = s
  BY <1>1, <1>3, Remainder
<1> QED BY <1>4, <1>5 DEF s, r

LEMMA RemainderNext ==
  ASSUME NEW w \in Nat \ {0}, NEW a \in Int
  PROVE  ((a % w) + 1) % w = (a + 1) % w
<1>1. PICK b \in Int : b = 1
  OBVIOUS
<1> QED BY <1>1, RemainderOfSum

LEMMA RemainderOfMultiple ==
  ASSUME NEW w \in Nat \ {0}, NEW l \in Nat \ {0}, NEW a \in Int
  PROVE  (a % (l * w)) % w = a % w
<1> DEFINE m == l * w
           q == a \div m
           r == a % m
           p == r \div w
           s == r % w
<1>1. m \in Nat \ {0}
  OBVIOUS
<1>2. r \in 0..m - 1 /\ q \in Int /\ a = m * q + r
  BY <1>1, Division
<1>3. s \in 0..w - 1 /\ p \in Int /\ r = w * p + s
  BY <1>2, Division
<1>4. l * q + p \in Int
  BY <1>2, <1>3
<1>5. m * q = w * (l * q)
  BY <1>2
<1> HIDE DEF q, r, p, s, m
<1>6. a = w * (l * q + p) + s
  BY <1>2, <1>3, <1>5
<1>7. (w * (l * q + p) + s) % w = s
  BY <1>3, <1>4, Remainder
<1> QED BY <1>6, <1>7 DEF s, r, m

LEMMA RemainderOfDifference ==
  ASSUME NEW w \in Nat \ {0}, NEW a \in Int, NEW b \in Int, a % w = b % w
  PROVE  (a - b) % w = 0
<1> DEFINE q == a \div w
           p == b \div w
           s == a % w
<1>1. s \in 0..w - 1 /\ q \in Int /\ a = w * q + s
  BY Division
<1>2. b % w = s /\ p \in Int /\ b = w * p + (b % w)
  BY Division
<1> HIDE DEF q, p, s
<1>3. a - b = w * (q - p) + 0
  BY <1>1, <1>2
<1>4. PICK z \in 0..w - 1 : z = 0
  OBVIOUS
<1>5. (w * (q - p) + z) % w = z
  BY <1>1, <1>2, <1>4, Remainder
<1> QED BY <1>3, <1>4, <1>5

-----------------------------------------------------------------------------
(* The ring with semaphores (lab6/sep_memory_fix.c).  head and tail go     *)
(* round in steps of capacity, counter and expected in steps of Wrap: the  *)
(* invariant says how far one is ahead of the other, by what the           *)
(* semaphores count.                                                       *)
\* k places on from x, on a circle of n
Round(x, k, n) == IF x + k < n THEN x + k ELSE x + k - n
One(condition) == IF condition THEN 1 ELSE 0

RingTypes == /\ sem_empty \in Nat /\ sem_full \in Nat
             /\ head \in Slots /\ tail \in Slots /\ buf \in [Slots -> Numbers]
             /\ cpc \in {"wait", "store", "advance", "post"} /\ counter \in Numbers
             /\ ppc \in {"wait", "load", "check", "advance", "post"}
             /\ val \in Numbers /\ expected \in Numbers

\* every slot is free, full, or in the hands of one of the two
Balance == sem_empty + sem_full + One(cpc # "wait") + One(ppc # "wait") = capacity

\* numbers the child has counted and the parent not
Counted == sem_full + One(ppc \in {"load", "check"})
CounterAhead == counter = Round(expected, Counted, Wrap)

\* slots from head to tail, the first of which the parent may have checked
Checked == One(ppc = "advance")
TailAhead == tail = Round(head, Counted + Checked + One(cpc = "post"), capacity)

\* the slots behind the checked ones hold the numbers the parent expects
Written == Counted + One(cpc \in {"advance", "post"})
Window == \A k \in 0..Written - 1 :
            buf[Round(head, k + Checked, capacity)] = Round(expected, k, Wrap)

Loaded == ppc = "check" => val = expected

RingInv == RingTypes /\ Balance /\ CounterAhead /\ TailAhead /\ Window /\ Loaded /\ NoGap

-----------------------------------------------------------------------------
(* Going round.                                                            *)
LEMMA RoundNext ==
  ASSUME NEW n \in Nat \ {0}, NEW x \in 0..n - 1
  PROVE  /\ (x + 1) % n = Round(x, 1, n)
         /\ (x + 1) % n \in 0..n - 1
BY DEF Round

(* One step more is one step more of either end.                           *)
LEMMA RoundMore ==
  ASSUME NEW n \in Nat \ {0}, NEW x \in 0..n - 1, NEW k \in 0..n - 1
  PROVE  /\ Round(x, k, n) \in 0..n - 1
         /\ Round(x, 0, n) = x
         /\ Round(Round(x, k, n), 1, n) = Round(x, k + 1, n)
         /\ Round(Round(x, 1, n), k, n) = Round(x, k + 1, n)
BY DEF Round

(* Less than once round, different distances lead to different places.     *)
LEMMA RoundApart ==
  ASSUME NEW n \in Nat \ {0}, NEW x \in 0..n - 1, NEW j \in 0..n - 1, NEW k \in 0..n - 1, j # k
  PROVE  Round(x, j, n) # Round(x, k, n)
BY DEF Round

-----------------------------------------------------------------------------
(* The page of zeros satisfies the invariant.                              *)
LEMMA InitRing == SharedInit => RingInv
<1> SUFFICES ASSUME SharedInit PROVE RingInv
  OBVIOUS
<1>1. RingTypes /\ Balance
  BY RingAssumption DEF SharedInit, RingTypes, Balance, Slots, Numbers, One
<1>2. Counted = 0 /\ Checked = 0 /\ Written = 0 /\ One(cpc = "post") = 0
  BY DEF SharedInit, Counted, Checked, Written, One
<1>3. CounterAhead /\ TailAhead
  BY <1>2, RingAssumption DEF SharedInit, CounterAhead, TailAhead, Round
<1>4. Window /\ Loaded /\ NoGap
  BY <1>2 DEF SharedInit, Window, Loaded, NoGap
<1> QED BY <1>1, <1>3, <1>4 DEF RingInv

(* What the balance says of the numbers in the other conjuncts.            *)
LEMMA Bounds ==
  ASSUME RingInv
  PROVE  /\ Counted \in Nat /\ Checked \in Nat /\ Written \in Nat
         /\ Written + Checked + One(cpc = "store") =< capacity
         /\ Counted + Checked + One(cpc # "wait") =< capacity
         /\ Written + Checked =< capacity
         /\ capacity \in Nat \ {0} /\ Wrap \in Nat \ {0} /\ capacity < Wrap
         /\ head \in 0..capacity - 1 /\ tail \in 0..capacity - 1
         /\ counter \in 0..Wrap - 1 /\ expected \in 0..Wrap - 1
BY RingAssumption DEF RingInv, RingTypes, Balance, Counted, Checked, Written, One, Slots, Numbers

-----------------------------------------------------------------------------
(* The child.                                                              *)
LEMMA ChildWaitRing == RingInv /\ ChildWait => RingInv'
<1> SUFFICES ASSUME RingInv, ChildWait PROVE RingInv'
  OBVIOUS
<1>1. /\ cpc = "wait" /\ cpc' = "store" /\ sem_empty > 0 /\ sem_empty' = sem_empty - 1
      /\ UNCHANGED <<sem_full, counter, tail, buf, parentVars>>
  BY DEF ChildWait, ChildGoto
<1>2. RingTypes' /\ Balance'
  BY <1>1 DEF RingInv, RingTypes, Balance, One, parentVars
<1>3. UNCHANGED <<Counted, Checked, Written>> /\ One(cpc = "post")' = One(cpc = "post")
  BY <1>1 DEF Counted, Checked, Written, One, parentVars
<1>4. CounterAhead' /\ TailAhead' /\ Window' /\ Loaded' /\ NoGap'
  BY <1>1, <1>3 DEF RingInv, CounterAhead, TailAhead, Window, Loaded, NoGap, Round, parentVars
<1> QED BY <1>2, <1>4 DEF RingInv

(* The number goes into the slot behind the window, which makes it longer. *)
LEMMA ChildStoreRing == RingInv /\ ChildStore => RingInv'
<1> SUFFICES ASSUME RingInv, ChildStore PROVE RingInv'
  OBVIOUS
<1>1. /\ cpc = "store" /\ cpc' = "advance" /\ buf' = [buf EXCEPT ![tail] = counter]
      /\ UNCHANGED <<semVars, counter, tail, parentVars>>
  BY DEF ChildStore, ChildGoto
<1>2. RingTypes' /\ Balance'
  BY <1>1 DEF RingInv, RingTypes, Balance, One, parentVars, semVars
<1>3. /\ UNCHANGED <<Counted, Checked>> /\ One(cpc = "post")' = 0 /\ One(cpc = "post") = 0
      /\ Written = Counted /\ Written' = Counted + 1 /\ One(cpc = "store") = 1
  BY <1>1 DEF Counted, Checked, Written, One, parentVars, semVars, RingInv, RingTypes
<1>4. CounterAhead' /\ TailAhead' /\ Loaded' /\ NoGap'
  BY <1>1, <1>3 DEF RingInv, CounterAhead, TailAhead, Loaded, NoGap, Round, parentVars
<1>5. Window'
  <2> SUFFICES ASSUME NEW k \in 0..Counted
               PROVE  buf'[Round(head, k + Checked, capacity)] = Round(expected, k, Wrap)
    BY <1>1, <1>3, Bounds DEF Window, Round, parentVars
  <2> USE Bounds
  <2>1. tail = Round(head, Counted + Checked, capacity) /\ counter = Round(expected, Counted, Wrap)
    BY <1>3 DEF RingInv, TailAhead, CounterAhead
  <2>2. tail \in Slots /\ buf \in [Slots -> Numbers]
    BY DEF RingInv, RingTypes
  <2>3. CASE k = Counted
    BY <2>1, <2>2, <2>3, <1>1
  <2>4. CASE k # Counted
    <3>1. k \in 0..Written - 1
      BY <2>4, <1>3
    <3>2. buf[Round(head, k + Checked, capacity)] = Round(expected, k, Wrap)
      BY <3>1 DEF RingInv, Window
    <3>3. k + Checked \in 0..capacity - 1 /\ Counted + Checked \in 0..capacity - 1
      BY <1>3
    <3>4. Round(head, k + Checked, capacity) # tail
      BY <3>3, <2>4, <2>1, RoundApart
    <3>5. Round(head, k + Checked, capacity) \in Slots
      BY <3>3, RoundMore DEF Slots
    <3> QED BY <3>2, <3>4, <3>5, <2>2, <1>1
  <2> QED BY <2>3, <2>4
<1> QED BY <1>2, <1>4, <1>5 DEF RingInv

LEMMA ChildAdvanceRing == RingInv /\ ChildAdvance => RingInv'
<1> SUFFICES ASSUME RingInv, ChildAdvance PROVE RingInv'
  OBVIOUS
<1>1. /\ cpc = "advance" /\ cpc' = "post" /\ tail' = (tail + 1) % capacity
      /\ UNCHANGED <<semVars, counter, buf, parentVars>>
  BY DEF ChildAdvance, ChildGoto
<1>2. tail' = Round(tail, 1, capacity) /\ tail' \in Slots
  BY <1>1, Bounds, RoundNext DEF Slots
<1>3. RingTypes' /\ Balance'
  BY <1>1, <1>2 DEF RingInv, RingTypes, Balance, One, parentVars, semVars
<1>4. /\ UNCHANGED <<Counted, Checked, Written>>
      /\ One(cpc = "post")' = 1 /\ One(cpc = "post") = 0 /\ One(cpc # "wait") = 1
  BY <1>1 DEF Counted, Checked, Written, One, parentVars, semVars
<1>5. CounterAhead' /\ Window' /\ Loaded' /\ NoGap'
  BY <1>1, <1>4 DEF RingInv, CounterAhead, Window, Loaded, NoGap, Round, parentVars
<1>6. TailAhead'
  <2>1. tail = Round(head, Counted + Checked, capacity)
    BY <1>4, Bounds DEF RingInv, TailAhead
  <2>2. Round(tail, 1, capacity) = Round(head, Counted + Checked + 1, capacity)
    BY <2>1, <1>4, Bounds, RoundMore
  <2> QED BY <2>2, <1>1, <1>2, <1>4 DEF TailAhead, Round, parentVars
<1> QED BY <1>3, <1>5, <1>6 DEF RingInv

LEMMA ChildPostRing == RingInv /\ ChildPost => RingInv'
<1> SUFFICES ASSUME RingInv, ChildPost PROVE RingInv'
  OBVIOUS
<1>1. /\ cpc = "post" /\ cpc' = "wait" /\ sem_full' = sem_full + 1
      /\ counter' = (counter + 1) % Wrap
      /\ UNCHANGED <<sem_empty, tail, buf, parentVars>>
  BY DEF ChildPost, ChildGoto
<1>2. counter' = Round(counter, 1, Wrap) /\ counter' \in Numbers
  BY <1>1, Bounds, RoundNext DEF Numbers
<1>3. RingTypes' /\ Balance'
  BY <1>1, <1>2 DEF RingInv, RingTypes, Balance, One, parentVars
<1>4. /\ Counted' = Counted + 1 /\ UNCHANGED Checked /\ Written' = Written
      /\ One(cpc = "post")' = 0 /\ One(cpc = "post") = 1 /\ One(cpc # "wait") = 1
  BY <1>1 DEF Counted, Checked, Written, One, parentVars, RingInv, RingTypes
<1>5. TailAhead' /\ Window' /\ Loaded' /\ NoGap'
  BY <1>1, <1>4, Bounds DEF RingInv, TailAhead, Window, Loaded, NoGap, Round, parentVars
<1>6. CounterAhead'
  <2>1. Round(counter, 1, Wrap) = Round(expected, Counted + 1, Wrap)
    BY <1>4, Bounds, RoundMore DEF RingInv, CounterAhead
  <2> QED BY <2>1, <1>1, <1>2, <1>4 DEF CounterAhead, Round, parentVars
<1> QED BY <1>3, <1>5, <1>6 DEF RingInv

-----------------------------------------------------------------------------
(* The parent.                                                             *)
LEMMA ParentWaitRing == RingInv /\ ParentWait => RingInv'
<1> SUFFICES ASSUME RingInv, ParentWait PROVE RingInv'
  OBVIOUS
<1>1. /\ ppc = "wait" /\ ppc' = "load" /\ sem_full > 0 /\ sem_full' = sem_full - 1
      /\ UNCHANGED <<sem_empty, val, expected, errors, head, childVars>>
  BY DEF ParentWait, ParentGoto
<1>2. RingTypes' /\ Balance'
  BY <1>1 DEF RingInv, RingTypes, Balance, One, childVars
<1>3. UNCHANGED <<Counted, Checked, Written>> /\ One(cpc = "post")' = One(cpc = "post")
  BY <1>1 DEF Counted, Checked, Written, One, childVars, RingInv, RingTypes
<1>4. CounterAhead' /\ TailAhead' /\ Window' /\ Loaded' /\ NoGap'
  BY <1>1, <1>3 DEF RingInv, CounterAhead, TailAhead, Window, Loaded, NoGap, Round, childVars
<1> QED BY <1>2, <1>4 DEF RingInv

(* The slot at head is the first of the window.                            *)
LEMMA ParentLoadRing == RingInv /\ ParentLoad => RingInv'
<1> SUFFICES ASSUME RingInv, ParentLoad PROVE RingInv'
  OBVIOUS
<1>1. /\ ppc = "load" /\ ppc' = "check" /\ val' = buf[head]
      /\ UNCHANGED <<semVars, expected, errors, head, childVars>>
  BY DEF ParentLoad, ParentGoto
<1>2. /\ UNCHANGED <<Counted, Checked, Written>> /\ One(cpc = "post")' = One(cpc = "post")
      /\ Written >= 1 /\ Checked = 0
  BY <1>1 DEF Counted, Checked, Written, One, childVars, semVars, RingInv, RingTypes
<1>3. buf[Round(head, 0, capacity)] = Round(expected, 0, Wrap)
  BY <1>2, Bounds DEF RingInv, Window
<1>4. val' = expected
  BY <1>1, <1>3, Bounds DEF Round
<1>5. RingTypes' /\ Balance'
  BY <1>1, <1>4 DEF RingInv, RingTypes, Balance, One, childVars, semVars
<1>6. CounterAhead' /\ TailAhead' /\ Window' /\ Loaded' /\ NoGap'
  BY <1>1, <1>2, <1>4 DEF RingInv, CounterAhead, TailAhead, Window, Loaded, NoGap, Round, childVars
<1> QED BY <1>5, <1>6 DEF RingInv

(* The window loses its first number, and expected goes on to the next.    *)
LEMMA ParentCheckRing == RingInv /\ ParentCheck => RingInv'
<1> SUFFICES ASSUME RingInv, ParentCheck PROVE RingInv'
  OBVIOUS
<1>0. val = expected /\ ~errors
  BY DEF ParentCheck, ParentGoto, RingInv, Loaded, NoGap
<1>1. /\ ppc = "check" /\ ppc' = "advance" /\ expected' = (expected + 1) % Wrap
      /\ UNCHANGED <<semVars, val, head, childVars>>
  BY <1>0 DEF ParentCheck, ParentGoto
<1>2. expected' = Round(expected, 1, Wrap) /\ expected' \in Numbers
  BY <1>1, Bounds, RoundNext DEF Numbers
<1>3. RingTypes' /\ Balance'
  BY <1>1, <1>2 DEF RingInv, RingTypes, Balance, One, childVars, semVars
<1>4. /\ Counted = Counted' + 1 /\ Counted' \in Nat /\ Checked = 0 /\ Checked' = 1
      /\ Written' = Written - 1 /\ One(cpc = "post")' = One(cpc = "post")
  BY <1>1 DEF Counted, Checked, Written, One, childVars, semVars, RingInv, RingTypes
<1>5. CounterAhead'
  <2>1. Counted' \in 0..Wrap - 1
    BY <1>4, Bounds DEF One
  <2>2. Round(Round(expected, 1, Wrap), Counted', Wrap) = Round(expected, Counted' + 1, Wrap)
    BY <2>1, Bounds, RoundMore
  <2> QED BY <2>2, <1>1, <1>2, <1>4 DEF RingInv, CounterAhead, childVars, Round
<1>6. TailAhead'
  <2>1. Counted + Checked + One(cpc = "post") = Counted' + Checked' + One(cpc = "post")'
    BY <1>4, Bounds DEF One
  <2> QED BY <2>1, <1>1 DEF RingInv, TailAhead, childVars, Round
<1>7. Window'
  <2> SUFFICES ASSUME NEW k \in 0..Written - 2
               PROVE  buf[Round(head, k + 1, capacity)] = Round(expected', k, Wrap)
    BY <1>1, <1>4, Bounds DEF Window, Round, childVars
  <2>1. k + 1 \in 0..Written - 1 /\ k \in 0..Wrap - 1
    BY Bounds
  <2>2. buf[Round(head, k + 1, capacity)] = Round(expected, k + 1, Wrap)
    BY <2>1, <1>4 DEF RingInv, Window
  <2>3. Round(Round(expected, 1, Wrap), k, Wrap) = Round(expected, k + 1, Wrap)
    BY <2>1, Bounds, RoundMore
  <2> QED BY <2>2, <2>3, <1>2
<1>8. Loaded'
  BY <1>1 DEF Loaded
<1>9. NoGap'
  BY <1>0, Zenon DEF ParentCheck, NoGap
<1> QED BY <1>3, <1>5, <1>6, <1>7, <1>8, <1>9 DEF RingInv

(* head follows: the same slots, from one place further on.                *)
LEMMA ParentAdvanceRing == RingInv /\ ParentAdvance => RingInv'
<1> SUFFICES ASSUME RingInv, ParentAdvance PROVE RingInv'
  OBVIOUS
<1>1. /\ ppc = "advance" /\ ppc' = "post" /\ head' = (head + 1) % capacity
      /\ UNCHANGED <<semVars, val, expected, errors, childVars>>
  BY DEF ParentAdvance, ParentGoto
<1>2. head' = Round(head, 1, capacity) /\ head' \in Slots
  BY <1>1, Bounds, RoundNext DEF Slots
<1>3. RingTypes' /\ Balance'
  BY <1>1, <1>2 DEF RingInv, RingTypes, Balance, One, childVars, semVars
<1>4. /\ UNCHANGED <<Counted, Written>> /\ Checked = 1 /\ Checked' = 0
      /\ One(cpc = "post")' = One(cpc = "post") /\ One(cpc = "post") \in 0..1
      /\ One(cpc = "post") =< One(cpc # "wait")
  BY <1>1 DEF Counted, Checked, Written, One, childVars, semVars, RingInv, RingTypes
<1>5. \A k \in 0..capacity - 1 : Round(head', k, capacity) = Round(head, k + 1, capacity)
  BY <1>2, Bounds, RoundMore
<1>6. CounterAhead' /\ Loaded' /\ NoGap'
  BY <1>1, <1>4 DEF RingInv, CounterAhead, Loaded, NoGap, childVars, Round
<1>7. TailAhead'
  <2> DEFINE k == Counted + One(cpc = "post")
  <2>1. k \in 0..capacity - 1 /\ k + 1 = Counted + Checked + One(cpc = "post")
        /\ (Counted + Checked + One(cpc = "post"))' = k
    BY <1>4, Bounds DEF One
  <2>2. Round(head', k, capacity) = tail
    BY <2>1, <1>5 DEF RingInv, TailAhead
  <2> QED BY <2>1, <2>2, <1>1 DEF TailAhead, childVars, Round
<1>8. Window'
  <2> SUFFICES ASSUME NEW k \in 0..Written - 1
               PROVE  buf[Round(head', k, capacity)] = Round(expected, k, Wrap)
    BY <1>1, <1>4 DEF Window, Round, childVars
  <2>1. k \in 0..capacity - 1
    BY <1>4, Bounds DEF One
  <2> QED BY <2>1, <1>4, <1>5 DEF RingInv, Window
<1> QED BY <1>3, <1>6, <1>7, <1>8 DEF RingInv

LEMMA ParentPostRing == RingInv /\ ParentPost => RingInv'
<1> SUFFICES ASSUME RingInv, ParentPost PROVE RingInv'
  OBVIOUS
<1>1. /\ ppc = "post" /\ ppc' = "wait" /\ sem_empty' = sem_empty + 1
      /\ UNCHANGED <<sem_full, val, expected, errors, head, childVars>>
  BY DEF ParentPost, ParentGoto
<1>2. RingTypes' /\ Balance'
  BY <1>1 DEF RingInv, RingTypes, Balance, One, childVars
<1>3. UNCHANGED <<Counted, Checked, Written>> /\ One(cpc = "post")' = One(cpc = "post")
  BY <1>1 DEF Counted, Checked, Written, One, childVars
<1>4. CounterAhead' /\ TailAhead' /\ Window' /\ Loaded' /\ NoGap'
  BY <1>1, <1>3 DEF RingInv, CounterAhead, TailAhead, Window, Loaded, NoGap, Round, childVars
<1> QED BY <1>2, <1>4 DEF RingInv

-----------------------------------------------------------------------------
LEMMA StepRing == RingInv /\ [SharedNext]_sharedVars => RingInv'
<1> SUFFICES ASSUME RingInv, [SharedNext]_sharedVars PROVE RingInv'
  OBVIOUS
<1>1. CASE ChildStep
  BY <1>1, ChildWaitRing, ChildStoreRing, ChildAdvanceRing, ChildPostRing DEF ChildStep
<1>2. CASE ParentStep
  BY <1>2, ParentWaitRing, ParentLoadRing, ParentCheckRing, ParentAdvanceRing, ParentPostRing
     DEF ParentStep
<1>3. CASE UNCHANGED sharedVars
  BY <1>3 DEF sharedVars, semVars, childVars, parentVars, RingInv, RingTypes, Balance, CounterAhead,
              TailAhead, Window, Loaded, NoGap, Counted, Checked, Written, Round, One
<1> QED BY <1>1, <1>2, <1>3 DEF SharedNext

(* The invariant of the ring: how far tail is ahead of head, and counter   *)
(* of expected, and what the slots in between hold.                        *)
THEOREM RingInvariant == SharedSpec => []RingInv
BY InitRing, StepRing, PTL DEF SharedSpec

(* The check of the sequence in the parent never fails, also where head,   *)
(* tail, counter and expected wrap (sep_memory_fix.c:60).                  *)
THEOREM RingHasNoGap == SharedSpec => []NoGap
<1>1. RingInv => NoGap
  BY DEF RingInv
<1> QED BY RingInvariant, <1>1, PTL

(* The child never stores into the slot that the parent is loading         *)
(* (sep_memory_fix.c:50, sep_memory_fix.c:59).                             *)
THEOREM RingHasNoRace == SharedSpec => []NoSlotRace
<1>1. RingInv => NoSlotRace
  <2> SUFFICES ASSUME RingInv, cpc = "store", ppc = "load" PROVE head # tail
    BY DEF NoSlotRace
  <2>1. Counted \in 1..capacity - 1 /\ Checked = 0 /\ One(cpc = "post") = 0
    BY Bounds DEF Counted, Checked, One, RingInv, RingTypes
  <2>2. tail = Round(head, Counted, capacity)
    BY <2>1 DEF RingInv, TailAhead
  <2>3. Round(head, 0, capacity) # Round(head, Counted, capacity)
    BY <2>1, Bounds, RoundApart
  <2> QED BY <2>2, <2>3, Bounds, RoundMore
<1> QED BY RingInvariant, <1>1, PTL

-----------------------------------------------------------------------------
(* Fork and wait.                                                          *)
Parents == [program : {"once", "thrice"}, at : 1..6,
            status : {"garbage", "stopped", "continued", "exit", "killed"},
            over : {"no", "failed", "reported"}]
Children == [life : {"none", "running", "stopped", "exit", "killed", "gone"}, at : {1, 2},
             news : {"none", "stopped", "continued"}, signal : BOOLEAN, meddled : BOOLEAN]
ForkTypes == /\ parent \in Parents /\ child \in Children
             /\ parent.program = "once" => parent.at =< 3

\* there is a child from the fork on; a dead one has no news but its death, a child that
\* is gone has left its death in status, and no other can come out of the last wait
ForkInv ==
  /\ ForkTypes
  /\ child.life = "none" <=> parent.at = 1
  /\ child.life \notin {"running", "stopped"} => child.news = "none"
  /\ child.life = "gone" => parent.status \in {"exit", "killed"}
  /\ parent.at = (IF parent.program = "once" THEN 3 ELSE 6) => child.life = "gone"
  /\ parent.over = "reported" => child.life = "gone"

LEMMA ForkStart == Forking!Init => ForkInv
BY DEF Forking!Init, ForkInv, ForkTypes, Parents, Children

(* Where the two programs are when they make a call.                       *)
LEMMA CallFacts ==
  ASSUME ForkTypes
  PROVE  /\ Forking!Call[1] = "fork" => parent.at = 1
         /\ Forking!Call[1] = "continue" => parent.at = 3 /\ parent.program = "thrice"
         /\ Forking!Call[1] = "report" => parent.at = IF parent.program = "once" THEN 3 ELSE 6
         /\ Forking!Call[1] = "wait" =>
              /\ parent.at \in {2, 4, 5} /\ (parent.program = "once" => parent.at = 2)
              /\ Forking!Call[2] \subseteq {"stopped", "continued"}
              /\ Forking!Call[2] # {} => parent.program = "thrice" /\ parent.at \in {2, 4}
<1>1. CASE parent.program = "once"
  <2>1. Forking!Call = << <<"fork">>, <<"wait", {}>>, <<"report">> >>[parent.at]
    BY <1>1 DEF Forking!Call, Forking!Calls, Forking!WaitFor
  <2>2. parent.at \in {1, 2, 3}
    BY <1>1 DEF ForkTypes, Parents
  <2> QED BY <1>1, <2>1, <2>2
<1>2. CASE parent.program = "thrice"
  <2>1. Forking!Call =
          << <<"fork">>, <<"wait", {"stopped"}>>, <<"continue">>, <<"wait", {"continued"}>>,
             <<"wait", {}>>, <<"report">> >>[parent.at]
    BY <1>2 DEF Forking!Call, Forking!Calls, Forking!WaitFor
  <2>2. parent.at \in {1, 2, 3, 4, 5, 6}
    BY <1>2 DEF ForkTypes, Parents
  <2> QED BY <1>2, <2>1, <2>2
<1> QED BY <1>1, <1>2 DEF ForkTypes, Parents

(* A call that returns leaves a parent at another call.                    *)
LEMMA CallReturns ==
  ASSUME NEW p \in Parents, NEW a \in 1..6,
         NEW s \in {"garbage", "stopped", "continued", "exit", "killed"}
  PROVE  /\ [p EXCEPT !.at = a] \in Parents
         /\ [p EXCEPT !.at = a, !.status = s] \in Parents
BY DEF Parents

LEMMA ForkStep == ForkInv /\ (Forking!Next \/ UNCHANGED forkV) => ForkInv'
<1> SUFFICES ASSUME ForkInv, Forking!Next \/ UNCHANGED forkV PROVE ForkInv'
  OBVIOUS
<1>0. /\ ForkTypes /\ parent \in Parents /\ child \in Children
      /\ parent.program \in {"once", "thrice"} /\ parent.at \in 1..6
  BY DEF ForkInv, ForkTypes, Parents
<1>1. CASE UNCHANGED forkV
  BY <1>1 DEF forkV, ForkInv, ForkTypes
<1>2. CASE Forking!Fork
  <2>1. parent.at = 1 /\ parent.over = "no"
    BY <1>0, <1>2, CallFacts DEF Forking!Fork, Forking!Calling
  <2>2. parent' = [parent EXCEPT !.at = 2] /\ child' = [child EXCEPT !.life = "running"]
    BY <1>2 DEF Forking!Fork
  <2>3. parent' \in Parents /\ child' \in Children
    BY <1>0, <2>2 DEF Parents, Children
  <2>4. /\ parent'.program = parent.program /\ parent'.at = 2 /\ parent'.over = "no"
        /\ child'.life = "running"
    BY <1>0, <2>1, <2>2 DEF Parents, Children
  <2>5. ForkTypes'
    BY <2>3, <2>4 DEF ForkTypes
  <2>6. parent'.at # IF parent'.program = "once" THEN 3 ELSE 6
    BY <2>4
  <2> QED BY <2>4, <2>5, <2>6 DEF ForkInv
<1>3. CASE Forking!ForkFails
  BY <1>0, <1>3 DEF Forking!ForkFails, ForkInv, ForkTypes, Parents
<1>4. CASE Forking!WaitNews
  <2>1. /\ parent.program = "thrice" /\ parent.at \in {2, 4} /\ parent.over = "no"
        /\ child.news \in {"stopped", "continued"}
    BY <1>0, <1>4, CallFacts DEF Forking!WaitNews, Forking!Calling, Children
  <2>2. /\ parent' = [parent EXCEPT !.at = parent.at + 1, !.status = child.news]
        /\ child' = [child EXCEPT !.news = "none"]
    BY <1>4 DEF Forking!WaitNews
  <2>3. parent' \in Parents /\ child' \in Children
    <3>1. parent.at + 1 \in 1..6
      BY <2>1
    <3>2. parent' \in Parents
      BY <1>0, <2>1, <2>2, <3>1, CallReturns
    <3> QED BY <1>0, <2>2, <3>2 DEF Children
  <2>4. /\ parent'.program = "thrice" /\ parent'.at = parent.at + 1 /\ parent'.over = "no"
        /\ child'.life = child.life /\ child'.news = "none"
    BY <1>0, <2>1, <2>2 DEF Parents, Children
  <2> QED BY <1>0, <2>1, <2>3, <2>4 DEF ForkInv, ForkTypes
<1>5. CASE Forking!WaitEnd
  <2>1. /\ parent.at \in {2, 4, 5} /\ parent.over = "no"
        /\ (parent.program = "once" => parent.at = 2)
        /\ child.life \in {"exit", "killed"}
    BY <1>0, <1>5, CallFacts DEF Forking!WaitEnd, Forking!Dead, Forking!Calling, ForkTypes
  <2>2. /\ parent' = [parent EXCEPT !.at = parent.at + 1, !.status = child.life]
        /\ child' = [child EXCEPT !.life = "gone"]
    BY <1>5 DEF Forking!WaitEnd
  <2>3. parent' \in Parents /\ child' \in Children
    <3>1. parent.at + 1 \in 1..6
      BY <2>1
    <3>2. parent' \in Parents
      BY <1>0, <2>1, <2>2, <3>1, CallReturns
    <3> QED BY <1>0, <2>2, <3>2 DEF Children
  <2>4. /\ parent'.program = parent.program /\ parent'.at = parent.at + 1 /\ parent'.over = "no"
        /\ parent'.status = child.life /\ child'.life = "gone" /\ child'.news = child.news
    BY <1>0, <2>1, <2>2 DEF Parents, Children
  <2> QED BY <1>0, <2>1, <2>3, <2>4 DEF ForkInv, ForkTypes
<1>6. CASE Forking!WaitNothing
  <2>1. /\ parent.at \in {2, 4, 5} /\ parent.over = "no" /\ child.life = "gone"
        /\ (parent.program = "once" => parent.at = 2)
    BY <1>0, <1>6, CallFacts DEF Forking!WaitNothing, Forking!Calling, ForkTypes
  <2>2. parent' = [parent EXCEPT !.at = parent.at + 1] /\ child' = child
    BY <1>6 DEF Forking!WaitNothing
  <2>3. parent' \in Parents
    <3>1. parent.at + 1 \in 1..6
      BY <2>1
    <3> QED BY <1>0, <2>2, <3>1, CallReturns DEF Parents
  <2>4. /\ parent'.program = parent.program /\ parent'.at = parent.at + 1 /\ parent'.over = "no"
        /\ parent'.status = parent.status
    BY <1>0, <2>1, <2>2 DEF Parents
  <2> QED BY <1>0, <2>1, <2>2, <2>3, <2>4 DEF ForkInv, ForkTypes
<1>7. CASE Forking!Handler
  <2>1. parent' = parent /\ child' = [child EXCEPT !.signal = FALSE]
    BY <1>7 DEF Forking!Handler, Forking!Restart
  <2> QED BY <1>0, <2>1 DEF ForkInv, ForkTypes, Children
<1>8. CASE Forking!KillCont
  <2>1. parent.program = "thrice" /\ parent.at = 3 /\ parent.over = "no"
    BY <1>0, <1>8, CallFacts DEF Forking!KillCont, Forking!Calling
  <2>2. /\ parent' = [parent EXCEPT !.at = parent.at + 1]
        /\ child' = IF child.life = "stopped" THEN Forking!Continued ELSE child
    BY <1>8 DEF Forking!KillCont
  <2>3. parent' \in Parents /\ parent'.program = "thrice" /\ parent'.at = 4 /\ parent'.over = "no"
        /\ parent'.status = parent.status
    <3>0. parent.at + 1 \in 1..6
      BY <2>1
    <3>1. parent' \in Parents
      BY <1>0, <2>2, <3>0, CallReturns
    <3> QED BY <1>0, <2>1, <2>2, <3>1 DEF Parents
  <2>4. /\ child' \in Children
        /\ \/ child'.life = child.life /\ child'.news = child.news
           \/ child'.life = "running" /\ child.life = "stopped"
    BY <1>0, <2>2 DEF Children, Forking!Continued
  <2> QED BY <1>0, <2>1, <2>3, <2>4 DEF ForkInv, ForkTypes
<1>9. CASE Forking!Report
  <2>1. parent.at = IF parent.program = "once" THEN 3 ELSE 6
    BY <1>0, <1>9, CallFacts DEF Forking!Report, Forking!Calling, ForkTypes
  <2>2. parent' = [parent EXCEPT !.over = "reported"] /\ child' = child
    BY <1>9 DEF Forking!Report
  <2> QED BY <1>0, <2>1, <2>2 DEF ForkInv, ForkTypes, Parents
<1>10. CASE Forking!ChildStops \/ Forking!ChildExits \/ Forking!User
  <2>1. /\ parent' = parent /\ child.life \in {"running", "stopped"}
        /\ child' \in Children
        /\ \/ child'.life \in {"running", "stopped"}
           \/ child'.life \in {"exit", "killed"} /\ child'.news = "none"
    BY <1>0, <1>10 DEF Forking!ChildStops, Forking!ChildExits, Forking!User, Forking!UserStops,
                      Forking!UserContinues, Forking!UserKills, Forking!Stopped,
                      Forking!Continued, Forking!Died, Forking!Alive, Children
  <2> QED BY <1>0, <2>1 DEF ForkInv, ForkTypes
<1> QED BY <1>1, <1>2, <1>3, <1>4, <1>5, <1>6, <1>7, <1>8, <1>9, <1>10
        DEF Forking!Next, Forking!Parent, Forking!Child

(* Whatever stops, continues and kills the child: what the parent reports  *)
(* of it is so.                                                            *)
THEOREM ReportsAreTrue == AllSpec => []ReportsTruth
<1>1. AllInit => ForkInv
  BY ForkStart DEF AllInit
<1>2. ForkInv /\ [AllNext]_allVars => ForkInv'
  BY ForkStep DEF AllNext, allVars, ForkNext, PipeNext, RingNext, UdpNext, TcpNext, CopyNext, FilesNext
<1>3. ForkInv => ReportsTruth
  BY DEF ForkInv, ReportsTruth, Forking!ReportsTruth
<1> QED BY <1>1, <1>2, <1>3, PTL DEF AllSpec

-----------------------------------------------------------------------------
(* The numbers in the pipe.                                                *)
Expected == IF reader.at = "next" THEN reader.prev + 1 ELSE 0

PipeTypes ==
  /\ pipe \in Seq(Int)
  /\ writer \in [at : {"none", "close", "write", "dead"}, cnt : Int]
  /\ reader \in [at : {"fork", "close", "first", "next", "wait", "dead"}, prev : Int, gap : {FALSE}]

\* from the number the reader expects on, up to the one the writer comes to
Numbered == /\ \A k \in 1..Len(pipe) : pipe[k] = (Expected + (k - 1)) % PipeWrap
            /\ writer.cnt = (Expected + Len(pipe)) % PipeWrap

PipeInv == PipeTypes /\ (reader.at \in {"fork", "close", "first", "next"} => Numbered)

LEMMA PipeStart == Piping!Init => PipeInv
<1> SUFFICES ASSUME Piping!Init PROVE PipeInv
  OBVIOUS
<1>1. PipeTypes /\ Len(pipe) = 0 /\ Expected = 0
  BY DEF Piping!Init, PipeTypes, Expected
<1>2. 0 % PipeWrap = 0
  BY NumberAssumption
<1> QED BY <1>1, <1>2 DEF Piping!Init, PipeInv, Numbered

(* The reader takes the number it expects.                                 *)
LEMMA ReadNumber ==
  ASSUME PipeInv, reader.at \in {"first", "next"}, pipe # <<>>, pipe' = Tail(pipe),
         writer' = writer,
         reader' = [at |-> "next", prev |-> Head(pipe), gap |-> FALSE]
  PROVE  PipeInv'
<1>1. PipeTypes /\ Numbered
  BY DEF PipeInv
<1>2. /\ Len(pipe) \in Nat \ {0} /\ Head(pipe) = pipe[1] /\ Head(pipe) \in Int
      /\ pipe' \in Seq(Int) /\ Len(pipe') = Len(pipe) - 1
      /\ \A k \in 1..Len(pipe') : pipe'[k] = pipe[k + 1]
  BY <1>1 DEF PipeTypes
<1>3. Expected \in Int /\ PipeWrap \in Nat \ {0}
  BY <1>1, NumberAssumption DEF PipeTypes, Expected
<1>4. Head(pipe) = Expected % PipeWrap
  <2>1. Head(pipe) = (Expected + (1 - 1)) % PipeWrap
    BY <1>1, <1>2 DEF Numbered
  <2> QED BY <2>1, <1>3
<1>5. Expected' = Head(pipe) + 1
  BY DEF Expected
<1>6. \A n \in Int : (Expected' + (n - 1)) % PipeWrap = (Expected + n) % PipeWrap
  <2> SUFFICES ASSUME NEW n \in Int PROVE (Expected' + (n - 1)) % PipeWrap = (Expected + n) % PipeWrap
    OBVIOUS
  <2>1. Expected' + (n - 1) = (Expected % PipeWrap) + n
    BY <1>2, <1>4, <1>5
  <2> QED BY <2>1, <1>3, RemainderOfSum
<1>7. PipeTypes'
  BY <1>1, <1>2 DEF PipeTypes
<1>8. \A k \in 1..Len(pipe') : pipe'[k] = (Expected' + (k - 1)) % PipeWrap
  <2> SUFFICES ASSUME NEW k \in 1..Len(pipe') PROVE pipe'[k] = (Expected' + (k - 1)) % PipeWrap
    OBVIOUS
  <2>1. k + 1 \in 1..Len(pipe) /\ pipe'[k] = pipe[k + 1] /\ (k + 1) - 1 = k /\ k \in Int
    BY <1>2
  <2>2. pipe[k + 1] = (Expected + ((k + 1) - 1)) % PipeWrap
    BY <1>1, <2>1 DEF Numbered
  <2> QED BY <2>1, <2>2, <1>6
<1>9. writer'.cnt = (Expected' + Len(pipe')) % PipeWrap
  <2>1. writer.cnt = (Expected + Len(pipe)) % PipeWrap
    BY <1>1 DEF Numbered
  <2>2. (Expected' + (Len(pipe) - 1)) % PipeWrap = (Expected + Len(pipe)) % PipeWrap
    BY <1>2, <1>6
  <2> QED BY <2>1, <2>2, <1>2
<1> QED BY <1>7, <1>8, <1>9 DEF PipeInv, Numbered

(* The writer puts the next number behind them.                            *)
LEMMA WriteNumber == PipeInv /\ Piping!Write => PipeInv'
<1> SUFFICES ASSUME PipeInv, Piping!Write PROVE PipeInv'
  OBVIOUS
<1>1. /\ PipeTypes /\ pipe' = Append(pipe, writer.cnt) /\ reader' = reader
      /\ writer' = [writer EXCEPT !.cnt = (writer.cnt + 1) % PipeWrap]
  BY DEF PipeInv, Piping!Write
<1>2. /\ PipeWrap \in Nat \ {0} /\ writer.cnt \in Int /\ Len(pipe) \in Nat
      /\ (writer.cnt + 1) % PipeWrap \in Int
  <2>1. writer.cnt \in Int /\ Len(pipe) \in Nat
    BY <1>1 DEF PipeTypes
  <2>2. PipeWrap \in Nat \ {0} /\ writer.cnt + 1 \in Int
    BY <2>1, NumberAssumption
  <2>3. (writer.cnt + 1) % PipeWrap \in 0..PipeWrap - 1
    BY <2>2, Division
  <2> QED BY <2>1, <2>2, <2>3
<1>3. /\ pipe' \in Seq(Int) /\ Len(pipe') = Len(pipe) + 1
      /\ pipe'[Len(pipe) + 1] = writer.cnt
      /\ \A k \in 1..Len(pipe) : pipe'[k] = pipe[k]
  BY <1>1, <1>2 DEF PipeTypes
<1>4. PipeTypes' /\ writer'.cnt = (writer.cnt + 1) % PipeWrap
  BY <1>1, <1>2, <1>3 DEF PipeTypes
<1>5. ASSUME Numbered PROVE Numbered'
  <2>1. Expected' = Expected /\ Expected \in Int
    BY <1>1 DEF Expected, PipeTypes
  <2>2. writer.cnt = (Expected + Len(pipe)) % PipeWrap
    BY <1>5 DEF Numbered
  <2>3. ASSUME NEW k \in 1..Len(pipe') PROVE pipe'[k] = (Expected + (k - 1)) % PipeWrap
    <3>1. CASE k = Len(pipe) + 1
      <4>1. Expected + (k - 1) = Expected + Len(pipe)
        BY <3>1, <1>2
      <4> QED BY <4>1, <3>1, <1>3, <2>2
    <3>2. CASE k # Len(pipe) + 1
      <4>1. k \in 1..Len(pipe)
        BY <3>2, <1>2, <1>3
      <4> QED BY <4>1, <1>3, <1>5 DEF Numbered
    <3> QED BY <3>1, <3>2
  <2>4. (((Expected + Len(pipe)) % PipeWrap) + 1) % PipeWrap = ((Expected + Len(pipe)) + 1) % PipeWrap
    <3> DEFINE e == Expected + Len(pipe)
    <3>1. e \in Int
      BY <1>2, <2>1
    <3> HIDE DEF e
    <3>2. ((e % PipeWrap) + 1) % PipeWrap = (e + 1) % PipeWrap
      BY <3>1, <1>2, RemainderNext
    <3> QED BY <3>2 DEF e
  <2>5. (Expected + Len(pipe)) + 1 = Expected + Len(pipe')
    BY <1>2, <1>3, <2>1
  <2>6. writer'.cnt = (Expected + Len(pipe')) % PipeWrap
    BY <1>4, <2>2, <2>4, <2>5
  <2> QED BY <2>1, <2>3, <2>6 DEF Numbered
<1> QED BY <1>1, <1>4, <1>5 DEF PipeInv

LEMMA PipeStep == PipeInv /\ (Piping!Next \/ UNCHANGED pipeV) => PipeInv'
<1> SUFFICES ASSUME PipeInv, Piping!Next \/ UNCHANGED pipeV PROVE PipeInv'
  OBVIOUS
<1>0. PipeTypes
  BY DEF PipeInv
<1>1. CASE UNCHANGED pipeV
  BY <1>1 DEF pipeV, PipeInv, PipeTypes, Numbered, Expected
<1>2. CASE Piping!Write
  BY <1>2, WriteNumber
<1>3. CASE Piping!ReadFirst
  <2>1. /\ reader.at = "first" /\ pipe # <<>> /\ pipe' = Tail(pipe) /\ writer' = writer
        /\ reader' = [reader EXCEPT !.at = "next", !.prev = Head(pipe)]
    BY <1>3 DEF Piping!ReadFirst
  <2>2. reader' = [at |-> "next", prev |-> Head(pipe), gap |-> FALSE]
    BY <1>0, <2>1 DEF PipeTypes
  <2> QED BY <2>1, <2>2, ReadNumber
<1>4. CASE Piping!ReadNext
  <2>1. /\ reader.at = "next" /\ pipe # <<>> /\ pipe' = Tail(pipe) /\ writer' = writer
        /\ reader' = [reader EXCEPT !.prev = Head(pipe), !.gap = Head(pipe) # (reader.prev + 1) % PipeWrap]
    BY <1>4 DEF Piping!ReadNext
  <2>2. Head(pipe) = (reader.prev + 1) % PipeWrap
    <3>1. Numbered /\ Expected = reader.prev + 1 /\ reader.prev \in Int
      BY <1>0, <2>1 DEF PipeInv, Expected, PipeTypes
    <3>2. 1 \in 1..Len(pipe) /\ Head(pipe) = pipe[1]
      BY <1>0, <2>1 DEF PipeTypes
    <3>3. Head(pipe) = (Expected + (1 - 1)) % PipeWrap
      BY <3>1, <3>2 DEF Numbered
    <3> QED BY <3>1, <3>3
  <2>3. reader' = [at |-> "next", prev |-> Head(pipe), gap |-> FALSE]
    BY <1>0, <2>1, <2>2 DEF PipeTypes
  <2> QED BY <2>1, <2>3, ReadNumber
<1>5. CASE Piping!Fork \/ Piping!ForkFails \/ Piping!ReaderCloses \/ Piping!WriterCloses \/ Piping!WriterDies
  <2>1. /\ pipe' = pipe /\ writer'.cnt = writer.cnt
        /\ \/ reader' = reader
           \/ reader.at \in {"fork", "close"} /\ reader'.at \in {"close", "first"}
        /\ PipeTypes'
    BY <1>0, <1>5 DEF Piping!Fork, Piping!ForkFails, Piping!ReaderCloses, Piping!WriterCloses,
                      Piping!WriterDies, PipeTypes
  <2> QED BY <2>1 DEF PipeInv, Numbered, Expected
<1>6. CASE Piping!EndOfFile \/ Piping!Wait \/ Piping!ReaderKilled
  <2>1. pipe' = pipe /\ writer' = writer /\ reader'.at \in {"wait", "dead"} /\ PipeTypes'
    BY <1>0, <1>6 DEF Piping!EndOfFile, Piping!Wait, Piping!ReaderKilled, PipeTypes
  <2> QED BY <2>1 DEF PipeInv
<1> QED BY <1>1, <1>2, <1>3, <1>4, <1>5, <1>6 DEF Piping!Next, Piping!Reader, Piping!Writer

(* No gap in what the invariant says.                                      *)
LEMMA PipeOrder == PipeInv => Piping!PipeNoGap
<1> SUFFICES ASSUME PipeInv PROVE Piping!PipeNoGap
  OBVIOUS
<1>1. PipeTypes
  BY DEF PipeInv
<1>2. ASSUME reader.at = "next", NEW k \in 1..Len(pipe)
      PROVE  pipe[k] = (reader.prev + k) % PipeWrap
  <2>1. pipe[k] = (Expected + (k - 1)) % PipeWrap
    BY <1>2 DEF PipeInv, Numbered
  <2>2. Expected + (k - 1) = reader.prev + k
    BY <1>1, <1>2 DEF Expected, PipeTypes
  <2> QED BY <2>1, <2>2
<1> QED BY <1>1, <1>2 DEF Piping!PipeNoGap, PipeTypes

-----------------------------------------------------------------------------
(* The raw ring.                                                           *)
RawTypes ==
  /\ ring \in [buf : [Ringing!Slots -> Int], idx : Ringing!Slots, cnt : Int, filled : SUBSET Ringing!Slots]
  /\ scan \in [idx : Ringing!Slots, prev : Int, known : BOOLEAN, off : Int, both : BOOLEAN]

\* a number lies in the slot that is its remainder, and so does the one the reader expects
RawInv == /\ RawTypes
          /\ ring.cnt % PAGE_ENTRIES = ring.idx
          /\ \A s \in ring.filled : ring.buf[s] % PAGE_ENTRIES = s
          /\ scan.known => (scan.prev + 1) % PAGE_ENTRIES = scan.idx
          /\ scan.both => scan.off % PAGE_ENTRIES = 0

LEMMA RawStart == Ringing!Init => RawInv
<1> SUFFICES ASSUME Ringing!Init PROVE RawInv
  OBVIOUS
<1>1. 0 % PAGE_ENTRIES = 0 /\ 0 \in Ringing!Slots
  BY NumberAssumption DEF Ringing!Slots
<1> QED BY <1>1 DEF Ringing!Init, RawInv, RawTypes

LEMMA RawWrite == RawInv /\ Ringing!Write => RawInv'
<1> SUFFICES ASSUME RawInv, Ringing!Write PROVE RawInv'
  OBVIOUS
<1> DEFINE P == PAGE_ENTRIES
           m == Laps * P
<1>1. /\ ring.buf \in [Ringing!Slots -> Int] /\ ring.idx \in Ringing!Slots /\ ring.cnt \in Int
      /\ ring.filled \subseteq Ringing!Slots
      /\ ring.cnt % P = ring.idx
      /\ P \in Nat \ {0} /\ Laps \in Nat \ {0} /\ m \in Nat \ {0}
  BY NumberAssumption DEF RawInv, RawTypes
<1>2. /\ ring' = [buf |-> [ring.buf EXCEPT ![ring.idx] = ring.cnt], idx |-> (ring.idx + 1) % P,
                  cnt |-> (ring.cnt + 1) % m, filled |-> ring.filled \cup {ring.idx}]
      /\ scan' = scan
  BY DEF Ringing!Write, Ringing!Modulus
<1> HIDE DEF m
<1>3. ring.cnt + 1 \in Int /\ ring.idx + 1 \in Int
  BY <1>1 DEF Ringing!Slots
<1>4. (ring.cnt + 1) % m \in 0..m - 1 /\ (ring.idx + 1) % P \in 0..P - 1
  BY <1>1, <1>3, Division
<1>5. ((ring.cnt + 1) % m) % P = (ring.idx + 1) % P
  <2>1. ((ring.cnt + 1) % m) % P = (ring.cnt + 1) % P
    BY <1>1, <1>3, RemainderOfMultiple DEF m
  <2>2. ((ring.cnt % P) + 1) % P = (ring.cnt + 1) % P
    BY <1>1, RemainderNext
  <2> QED BY <2>1, <2>2, <1>1
<1>6. RawTypes'
  <2>1. (ring.cnt + 1) % m \in Int
    BY <1>1, <1>4
  <2>2. (ring.idx + 1) % P \in Ringing!Slots
    BY <1>4 DEF Ringing!Slots
  <2>3. [ring.buf EXCEPT ![ring.idx] = ring.cnt] \in [Ringing!Slots -> Int]
    BY <1>1
  <2> QED BY <1>1, <1>2, <2>1, <2>2, <2>3 DEF RawInv, RawTypes
<1>7. ASSUME NEW s \in ring'.filled PROVE ring'.buf[s] % P = s
  <2>1. s \in Ringing!Slots /\ (s = ring.idx \/ s \in ring.filled)
    BY <1>1, <1>2, <1>7
  <2>2. ring'.buf[s] = IF s = ring.idx THEN ring.cnt ELSE ring.buf[s]
    BY <1>1, <1>2, <2>1
  <2>3. s \in ring.filled => ring.buf[s] % P = s
    BY DEF RawInv
  <2> QED BY <1>1, <2>1, <2>2, <2>3
<1>8. ring'.cnt % P = ring'.idx
  BY <1>2, <1>5
<1> QED BY <1>2, <1>6, <1>7, <1>8 DEF RawInv

LEMMA RawRead == RawInv /\ Ringing!Read => RawInv'
<1> SUFFICES ASSUME RawInv, Ringing!Read PROVE RawInv'
  OBVIOUS
<1> DEFINE P == PAGE_ENTRIES
           m == Laps * P
           cur == ring.buf[scan.idx]
           diff == cur - (scan.prev + 1)
           found == scan.idx \in ring.filled
<1>1. /\ P \in Nat \ {0} /\ Laps \in Nat \ {0} /\ m \in Nat \ {0}
      /\ scan.idx \in Ringing!Slots /\ scan.prev \in Int /\ cur \in Int /\ diff \in Int
      /\ scan.idx + 1 \in Int /\ scan.known \in BOOLEAN
  BY NumberAssumption DEF RawInv, RawTypes, Ringing!Slots
<1>2. /\ scan' = [idx |-> (scan.idx + 1) % P, prev |-> cur, known |-> found,
                  off |-> diff % m, both |-> scan.known /\ found]
      /\ ring' = ring
  BY DEF Ringing!Read, Ringing!Modulus
<1>3. found => cur % P = scan.idx
  BY DEF RawInv
<1>4. scan.known => (scan.prev + 1) % P = scan.idx
  BY DEF RawInv
<1> HIDE DEF m, cur, diff, found
<1>5. diff % m \in 0..m - 1 /\ (scan.idx + 1) % P \in 0..P - 1
  BY <1>1, Division
<1>6. found => (cur + 1) % P = (scan.idx + 1) % P
  <2>1. ((cur % P) + 1) % P = (cur + 1) % P
    BY <1>1, RemainderNext
  <2> QED BY <2>1, <1>3
<1>7. scan.known /\ found => (diff % m) % P = 0
  <2>1. (diff % m) % P = diff % P
    BY <1>1, RemainderOfMultiple DEF m
  <2>2. scan.prev + 1 \in Int
    BY <1>1
  <2>3. cur % P = (scan.prev + 1) % P => diff % P = 0
    BY <1>1, <2>2, RemainderOfDifference DEF diff
  <2> QED BY <2>1, <2>3, <1>3, <1>4
<1>8. RawTypes'
  <2>1. diff % m \in Int /\ (scan.idx + 1) % P \in Ringing!Slots /\ found \in BOOLEAN
    BY <1>1, <1>5 DEF Ringing!Slots, found
  <2> QED BY <1>1, <1>2, <2>1 DEF RawInv, RawTypes
<1>9. /\ scan'.known = found /\ scan'.both = (scan.known /\ found) /\ scan'.prev = cur
      /\ scan'.idx = (scan.idx + 1) % P /\ scan'.off = diff % m
  BY <1>2
<1> QED BY <1>2, <1>6, <1>7, <1>8, <1>9 DEF RawInv

LEMMA RawStep == RawInv /\ (Ringing!Next \/ UNCHANGED ringV) => RawInv'
<1>1. RawInv /\ UNCHANGED ringV => RawInv'
  BY DEF ringV, RawInv, RawTypes
<1> QED BY <1>1, RawWrite, RawRead DEF Ringing!Next

(* The numbers in the pipe follow one another, and what the reader of the  *)
(* raw ring misses is whole laps, for every size of the pipe, of the page  *)
(* and of the numbers (lab6/pipe.c, lab6/sep_memory.c).                    *)
THEOREM GapsReal == AllSpec => []GapsAreReal
<1>1. AllInit => PipeInv /\ RawInv
  BY PipeStart, RawStart DEF AllInit
<1>2. PipeInv /\ [AllNext]_allVars => PipeInv'
  BY PipeStep DEF AllNext, allVars, ForkNext, PipeNext, RingNext, UdpNext, TcpNext, CopyNext, FilesNext
<1>3. RawInv /\ [AllNext]_allVars => RawInv'
  BY RawStep DEF AllNext, allVars, ForkNext, PipeNext, RingNext, UdpNext, TcpNext, CopyNext, FilesNext
<1>4. PipeInv /\ RawInv => GapsAreReal
  BY PipeOrder DEF RawInv, GapsAreReal, Ringing!RawGapsAreLaps
<1> QED BY <1>1, <1>2, <1>3, <1>4, PTL DEF AllSpec

-----------------------------------------------------------------------------
(* Datagrams.                                                              *)
TypedLines == UdpClients \X Nat
Datagrams == [kind : {"request", "answer"}, client : UdpClients, line : TypedLines]
Held == {d \in Datagrams : udpServer = <<d>>}

UdpTypes == /\ udpClient \in [UdpClients -> [at : {"type", "wait"}, line : Nat, heard : {0} \cup TypedLines]]
            /\ net \subseteq Datagrams
            /\ udpServer = <<>> \/ \E d \in Datagrams : udpServer = <<d>>

\* a client has at most one datagram on its way, with the line for which it waits
Carries(d) == /\ d.line = <<d.client, udpClient[d.client].line>>
              /\ udpClient[d.client].at = "wait"
Alone == \A d, e \in net \cup Held : d.client = e.client => d = e

UdpInv == /\ UdpTypes
          /\ \A d \in net \cup Held : Carries(d)
          /\ Alone
          /\ \A d \in net \cap Held : FALSE
          /\ Udp!EchoOfLast

LEMMA UdpStart == Udp!Init => UdpInv
<1> SUFFICES ASSUME Udp!Init PROVE UdpInv
  OBVIOUS
<1>1. net = {} /\ Held = {}
  BY DEF Udp!Init, Held
<1> QED BY <1>1 DEF Udp!Init, UdpInv, UdpTypes, Alone, Udp!EchoOfLast

(* What one datagram more or less does.                                    *)
LEMMA UdpSend ==
  ASSUME UdpInv, NEW c \in UdpClients, Udp!Send(c)
  PROVE  UdpInv'
<1> DEFINE n == udpClient[c].line + 1
           new == [kind |-> "request", client |-> c, line |-> <<c, n>>]
<1>1. /\ udpClient[c].at = "type" /\ udpServer' = udpServer /\ net' = net \cup {new}
      /\ udpClient' = [udpClient EXCEPT ![c].at = "wait", ![c].line = n]
  BY DEF Udp!Send
<1>2. /\ udpClient \in [UdpClients -> [at : {"type", "wait"}, line : Nat, heard : {0} \cup TypedLines]]
      /\ net \subseteq Datagrams
  BY DEF UdpInv, UdpTypes
<1>3. n \in Nat /\ new \in Datagrams
  BY <1>2 DEF Datagrams, TypedLines
<1> HIDE DEF n
<1>4. /\ udpClient'[c] = [at |-> "wait", line |-> n, heard |-> udpClient[c].heard]
      /\ \A b \in UdpClients : b # c => udpClient'[b] = udpClient[b]
      /\ udpClient' \in [UdpClients -> [at : {"type", "wait"}, line : Nat, heard : {0} \cup TypedLines]]
  BY <1>1, <1>2, <1>3
<1>5. Held' = Held /\ Held \subseteq Datagrams
  BY <1>1 DEF Held
<1>6. \A d \in net \cup Held : d.client \in UdpClients /\ d.client # c
  BY <1>1, <1>2, <1>5 DEF UdpInv, Carries, Datagrams
<1>7. new.client = c /\ new.line = <<c, n>>
  OBVIOUS
<1> HIDE DEF new
<1>8. UdpTypes'
  BY <1>1, <1>2, <1>3, <1>4 DEF UdpInv, UdpTypes
<1>9. \A d \in net' \cup Held' : Carries(d)'
  BY <1>1, <1>4, <1>5, <1>6, <1>7 DEF UdpInv, Carries
<1>10. Alone' /\ \A d \in net' \cap Held' : FALSE
  BY <1>1, <1>5, <1>6, <1>7 DEF UdpInv, Alone
<1>11. (Udp!EchoOfLast)'
  BY <1>4 DEF UdpInv, Udp!EchoOfLast
<1> QED BY <1>8, <1>9, <1>10, <1>11 DEF UdpInv

LEMMA UdpServes ==
  ASSUME UdpInv, Udp!Server
  PROVE  UdpInv'
<1>0. UdpTypes /\ Held \subseteq Datagrams
  BY DEF UdpInv, Held
<1>1. CASE Udp!ServerReceives
  <2>1. PICK d \in net : /\ udpServer = <<>> /\ udpServer' = <<d>> /\ net' = net \ {d}
                         /\ udpClient' = udpClient
    BY <1>1 DEF Udp!ServerReceives
  <2>2. d \in Datagrams
    BY <1>0, <2>1 DEF UdpTypes
  <2>3. Held' = {d}
    BY <2>1, <2>2 DEF Held
  <2>4. UdpTypes'
    BY <1>0, <2>1, <2>2 DEF UdpTypes
  <2> QED BY <2>1, <2>3, <2>4 DEF UdpInv, Carries, Alone, Udp!EchoOfLast
<1>2. CASE Udp!ServerAnswers
  <2>1. /\ udpServer # <<>> /\ net' = net \cup {[Head(udpServer) EXCEPT !.kind = "answer"]}
        /\ udpServer' = <<>> /\ udpClient' = udpClient
    BY <1>2 DEF Udp!ServerAnswers
  <2>2. PICK h \in Datagrams : udpServer = <<h>>
    BY <1>0, <2>1 DEF UdpTypes
  <2> DEFINE a == [h EXCEPT !.kind = "answer"]
  <2>3. a \in Datagrams /\ a.client = h.client /\ a.line = h.line
    BY <2>2 DEF Datagrams
  <2>4. net' = net \cup {a} /\ h \in Held /\ Held' = {}
    BY <2>1, <2>2 DEF Held
  <2> HIDE DEF a
  <2>5. UdpTypes'
    BY <1>0, <2>1, <2>3, <2>4 DEF UdpTypes
  <2>6. \A d \in net' \cup Held' : Carries(d)'
    BY <2>1, <2>3, <2>4 DEF UdpInv, Carries
  <2>7. Alone'
    <3>1. \A d \in net : d.client # h.client
      BY <2>4 DEF UdpInv, Alone
    <3> QED BY <3>1, <2>3, <2>4 DEF UdpInv, Alone
  <2> QED BY <2>1, <2>4, <2>5, <2>6, <2>7 DEF UdpInv, Udp!EchoOfLast
<1> QED BY <1>1, <1>2 DEF Udp!Server

LEMMA UdpReceive ==
  ASSUME UdpInv, NEW c \in UdpClients, Udp!Receive(c)
  PROVE  UdpInv'
<1>1. PICK d \in net : /\ udpClient[c].at = "wait" /\ d.kind = "answer" /\ d.client = c
                       /\ udpClient' = [udpClient EXCEPT ![c].at = "type", ![c].heard = d.line]
                       /\ net' = net \ {d} /\ udpServer' = udpServer
  BY DEF Udp!Receive
<1>2. /\ udpClient \in [UdpClients -> [at : {"type", "wait"}, line : Nat, heard : {0} \cup TypedLines]]
      /\ net \subseteq Datagrams /\ d.line \in TypedLines
  BY <1>1 DEF UdpInv, UdpTypes, Datagrams
<1>3. /\ udpClient'[c] = [at |-> "type", line |-> udpClient[c].line, heard |-> d.line]
      /\ \A b \in UdpClients : b # c => udpClient'[b] = udpClient[b]
      /\ udpClient' \in [UdpClients -> [at : {"type", "wait"}, line : Nat, heard : {0} \cup TypedLines]]
  BY <1>1, <1>2
<1>4. Held' = Held /\ Held \subseteq Datagrams
  BY <1>1 DEF Held
<1>5. d.line = <<c, udpClient[c].line>>
  BY <1>1 DEF UdpInv, Carries
<1>6. \A e \in net' \cup Held' : e.client \in UdpClients /\ e.client # c /\ e \in net \cup Held
  BY <1>1, <1>2, <1>4 DEF UdpInv, Alone, Datagrams
<1>7. UdpTypes'
  BY <1>1, <1>2, <1>3 DEF UdpInv, UdpTypes
<1>8. \A e \in net' \cup Held' : Carries(e)'
  BY <1>3, <1>6 DEF UdpInv, Carries
<1>9. Alone' /\ \A e \in net' \cap Held' : FALSE
  BY <1>1, <1>4 DEF UdpInv, Alone
<1>10. (Udp!EchoOfLast)'
  BY <1>3, <1>5 DEF UdpInv, Udp!EchoOfLast
<1> QED BY <1>7, <1>8, <1>9, <1>10 DEF UdpInv

LEMMA UdpStep == UdpInv /\ (Udp!Next \/ UNCHANGED udpV) => UdpInv'
<1>1. UdpInv /\ UNCHANGED udpV => UdpInv'
  BY DEF udpV, UdpInv, UdpTypes, Held, Carries, Alone, Udp!EchoOfLast
<1>2. UdpInv /\ Udp!Lose => UdpInv'
  BY DEF Udp!Lose, UdpInv, UdpTypes, Held, Carries, Alone, Udp!EchoOfLast
<1> QED BY <1>1, <1>2, UdpSend, UdpServes, UdpReceive DEF Udp!Next

-----------------------------------------------------------------------------
(* Streams.                                                                *)
TcpTypes ==
  /\ tcpClient \in [TcpClients -> [at : {"connect", "write", "read", "dead"}, wrote : Nat, heard : Seq(Int)]]
  /\ up \in [TcpClients -> Seq(Int)] /\ down \in [TcpClients -> Seq(Int)]
  /\ backlog \in Seq(TcpClients)
  /\ server \in [at : {"accept", "fork", "close"}, sock : SUBSET TcpClients, open : SUBSET TcpClients]
  /\ worker \in [TcpClients -> [at : {"none", "read", "write", "gone"}, buffer : Seq(Int)]]

\* a buffer is empty but between a read and its echo
Emptied == \A c \in TcpClients : worker[c].at # "write" => worker[c].buffer = <<>>

\* only the connection at hand may be open and served; one in the backlog is neither
Unserved(c) == c \notin server.open /\ worker[c].at = "none"
Handled == /\ server.sock \subseteq server.open
           /\ \A c \in server.open \ server.sock : worker[c].at = "none"
           /\ server.at = "accept" => server.sock = {}
           /\ server.at = "fork" => \A c \in server.sock : worker[c].at = "none"
Waits == /\ \A j, k \in 1..Len(backlog) : backlog[j] = backlog[k] => j = k
         /\ \A k \in 1..Len(backlog) : tcpClient[backlog[k]].at # "connect" /\ Unserved(backlog[k])
         /\ \A c \in TcpClients : tcpClient[c].at = "connect" => Unserved(c)

TcpInv == TcpTypes /\ Emptied /\ Handled /\ Waits /\ Tcp!EchoPrefix

\* all that belongs to a connection
Stream(c) == tcpClient[c].heard \o down[c] \o worker[c].buffer \o up[c]

LEMMA TcpStart == Tcp!Init => TcpInv
<1> SUFFICES ASSUME Tcp!Init PROVE TcpInv
  OBVIOUS
<1>1. TcpTypes
  BY DEF Tcp!Init, TcpTypes
<1>2. Emptied /\ Handled /\ Waits
  BY DEF Tcp!Init, Emptied, Handled, Waits, Unserved
<1>3. Tcp!EchoPrefix
  <2> SUFFICES ASSUME NEW c \in TcpClients
               PROVE  tcpClient[c].heard \o down[c] \o worker[c].buffer \o up[c] =
                        [j \in 1..tcpClient[c].wrote |-> j]
    BY DEF Tcp!EchoPrefix
  <2>1. /\ tcpClient[c].heard = <<>> /\ down[c] = <<>> /\ worker[c].buffer = <<>> /\ up[c] = <<>>
        /\ tcpClient[c].wrote = 0
    BY DEF Tcp!Init
  <2>2. <<>> \o <<>> = <<>>
    BY ConcatEmptySeq, EmptySeq
  <2>3. [j \in 1..0 |-> j] = <<>>
    OBVIOUS
  <2> QED BY <2>1, <2>2, <2>3
<1> QED BY <1>1, <1>2, <1>3 DEF TcpInv

(* Concatenation of bytes.                                                 *)
LEMMA Bytewise ==
  /\ \A s, t \in Seq(Int) : s \o t \in Seq(Int)
  /\ \A s, t, u \in Seq(Int) : (s \o t) \o u = s \o (t \o u)
  /\ \A s \in Seq(Int) : s \o <<>> = s
BY ConcatProperties, ConcatAssociative, ConcatEmptySeq

(* A stream cut in two.                                                    *)
LEMMA CutStream ==
  ASSUME NEW h \in Seq(Int), NEW s \in Seq(Int), NEW n \in 1..Len(s)
  PROVE  /\ SubSeq(s, 1, n) \in Seq(Int) /\ SubSeq(s, n + 1, Len(s)) \in Seq(Int)
         /\ (h \o SubSeq(s, 1, n)) \o SubSeq(s, n + 1, Len(s)) = h \o s
<1> DEFINE p == SubSeq(s, 1, n)
           q == SubSeq(s, n + 1, Len(s))
<1>1. p \in Seq(Int) /\ q \in Seq(Int)
  BY LenProperties, SubSeqProperties
<1>2. SubSeq(s, 1, n) \o SubSeq(s, n + 1, Len(s)) = s
  <2>1. 1 \in 1..Len(s) + 1 /\ n \in 1 - 1..Len(s) /\ Len(s) \in n..Len(s)
    BY LenProperties
  <2>2. SubSeq(s, 1, n) \o SubSeq(s, n + 1, Len(s)) = SubSeq(s, 1, Len(s))
    BY <2>1, ConcatAdjacentSubSeq
  <2> QED BY <2>2, SubSeqFull
<1>3. p \o q = s
  BY <1>2
<1>4. (h \o p) \o q = h \o s
  <2> HIDE DEF p, q
  <2>1. (h \o p) \o q = h \o (p \o q)
    BY <1>1, Bytewise, Zenon
  <2> QED BY <2>1, <1>3, Zenon
<1> QED BY <1>1, <1>4, Zenon

(* n bytes more.                                                           *)
LEMMA CountOn ==
  ASSUME NEW w \in Nat, NEW n \in Nat
  PROVE  /\ [j \in 1..n |-> w + j] \in Seq(Int)
         /\ [j \in 1..w |-> j] \o [j \in 1..n |-> w + j] = [j \in 1..w + n |-> j]
<1> DEFINE a == [j \in 1..w |-> j]
           b == [j \in 1..n |-> w + j]
           c == [j \in 1..w + n |-> j]
<1>1. /\ a \in Seq(Int) /\ b \in Seq(Int) /\ c \in Seq(Int)
      /\ Len(a) = w /\ Len(b) = n /\ Len(c) = w + n
  OBVIOUS
<1>2. /\ a \o b \in Seq(Int) /\ Len(a \o b) = w + n
      /\ \A k \in 1..w + n : (a \o b)[k] = IF k =< w THEN a[k] ELSE b[k - w]
  BY <1>1, ConcatProperties
<1>3. \A k \in 1..w + n : (a \o b)[k] = c[k]
  <2> SUFFICES ASSUME NEW k \in 1..w + n PROVE (a \o b)[k] = k
    OBVIOUS
  <2>1. CASE k =< w
    BY <2>1, <1>2
  <2>2. CASE ~(k =< w)
    <3>1. k - w \in 1..n /\ w + (k - w) = k
      BY <2>2
    <3> QED BY <3>1, <2>2, <1>2
  <2> QED BY <2>1, <2>2
<1> HIDE DEF a, b, c
<1>4. a \o b = c
  BY <1>1, <1>2, <1>3, SeqEqual
<1> QED BY <1>1, <1>4 DEF a, b, c

(* Who serves whom is not touched by what only moves bytes.                *)
LEMMA SameServing ==
  ASSUME Handled, Waits, server' = server, backlog' = backlog,
         \A c \in TcpClients : worker'[c].at = "none" <=> worker[c].at = "none",
         \A c \in TcpClients : tcpClient'[c].at = "connect" <=> tcpClient[c].at = "connect",
         TcpTypes
  PROVE  Handled' /\ Waits'
<1>1. /\ server.open \subseteq TcpClients /\ server.sock \subseteq TcpClients
      /\ \A k \in 1..Len(backlog) : backlog[k] \in TcpClients
  BY DEF TcpTypes
<1>2. Handled'
  BY <1>1 DEF Handled
<1>3. Waits'
  BY <1>1 DEF Waits, Unserved
<1> QED BY <1>2, <1>3

(* The bytes of one connection move, those of the others do not.           *)
LEMMA OneStream ==
  ASSUME Tcp!EchoPrefix, NEW c \in TcpClients,
         tcpClient'[c].at # "dead" => Stream(c)' = [j \in 1..tcpClient'[c].wrote |-> j],
         \A b \in TcpClients : b # c => /\ tcpClient'[b] = tcpClient[b] /\ worker'[b] = worker[b]
                                       /\ up'[b] = up[b] /\ down'[b] = down[b]
  PROVE  (Tcp!EchoPrefix)'
<1> SUFFICES ASSUME NEW b \in TcpClients, tcpClient'[b].at # "dead"
             PROVE  Stream(b)' = [j \in 1..tcpClient'[b].wrote |-> j]
  BY Zenon DEF Tcp!EchoPrefix, Stream
<1>1. CASE b # c
  <2>1. /\ tcpClient'[b] = tcpClient[b] /\ worker'[b] = worker[b]
        /\ up'[b] = up[b] /\ down'[b] = down[b]
    BY <1>1
  <2>2. Stream(b) = [j \in 1..tcpClient[b].wrote |-> j]
    BY <2>1, Zenon DEF Tcp!EchoPrefix, Stream
  <2> QED BY <2>1, <2>2, Zenon DEF Stream
<1> QED BY <1>1

(* The client.                                                             *)
LEMMA TcpConnect ==
  ASSUME TcpInv, NEW c \in TcpClients, Tcp!Connect(c)
  PROVE  TcpInv'
<1>1. /\ tcpClient[c].at = "connect" /\ tcpClient' = [tcpClient EXCEPT ![c].at = "write"]
      /\ backlog' = Append(backlog, c)
      /\ UNCHANGED <<up, down, server, worker>>
  BY DEF Tcp!Connect
<1>2. TcpTypes /\ Emptied /\ Handled /\ Waits /\ Tcp!EchoPrefix
  BY DEF TcpInv
<1>3. /\ tcpClient'[c] = [at |-> "write", wrote |-> tcpClient[c].wrote, heard |-> tcpClient[c].heard]
      /\ \A b \in TcpClients : b # c => tcpClient'[b] = tcpClient[b]
      /\ tcpClient' \in [TcpClients -> [at : {"connect", "write", "read", "dead"}, wrote : Nat, heard : Seq(Int)]]
  BY <1>1, <1>2 DEF TcpTypes
<1>4. /\ Len(backlog) \in Nat /\ Len(backlog') = Len(backlog) + 1
      /\ backlog'[Len(backlog) + 1] = c /\ backlog' \in Seq(TcpClients)
      /\ \A k \in 1..Len(backlog) : backlog'[k] = backlog[k] /\ backlog[k] \in TcpClients
  BY <1>1, <1>2 DEF TcpTypes
<1>5. TcpTypes' /\ Emptied' /\ Handled'
  BY <1>1, <1>2, <1>3, <1>4 DEF TcpTypes, Emptied, Handled
<1>6. \A k \in 1..Len(backlog) : backlog[k] # c
  BY <1>1, <1>2 DEF Waits
<1>7. \A k \in 1..Len(backlog') : k = Len(backlog) + 1 \/ k \in 1..Len(backlog)
  BY <1>4
<1>8. Waits'
  <2>1. \A j, k \in 1..Len(backlog') : backlog'[j] = backlog'[k] => j = k
    BY <1>2, <1>4, <1>6, <1>7 DEF Waits
  <2>2. \A k \in 1..Len(backlog') : (tcpClient[backlog[k]].at # "connect" /\ Unserved(backlog[k]))'
    <3> SUFFICES ASSUME NEW k \in 1..Len(backlog')
                 PROVE  (tcpClient[backlog[k]].at # "connect" /\ Unserved(backlog[k]))'
      OBVIOUS
    <3>1. CASE k = Len(backlog) + 1
      BY <3>1, <1>1, <1>2, <1>3, <1>4 DEF Waits, Unserved
    <3>2. CASE k \in 1..Len(backlog)
      <4>1. backlog'[k] = backlog[k] /\ backlog[k] \in TcpClients /\ backlog[k] # c
        BY <3>2, <1>4, <1>6
      <4>2. tcpClient[backlog[k]].at # "connect" /\ Unserved(backlog[k])
        BY <3>2, <1>2 DEF Waits
      <4> QED BY <4>1, <4>2, <1>1, <1>3 DEF Unserved
    <3> QED BY <3>1, <3>2, <1>7
  <2>3. \A b \in TcpClients : tcpClient'[b].at = "connect" => Unserved(b)'
    BY <1>1, <1>2, <1>3 DEF Waits, Unserved
  <2> QED BY <2>1, <2>2, <2>3 DEF Waits
<1>9. (Tcp!EchoPrefix)'
  BY <1>1, <1>2, <1>3 DEF Tcp!EchoPrefix
<1> QED BY <1>5, <1>8, <1>9 DEF TcpInv

LEMMA TcpType ==
  ASSUME TcpInv, NEW c \in TcpClients, Tcp!Type(c)
  PROVE  TcpInv'
<1>1. PICK n \in 0..Bytes - tcpClient[c].wrote :
        /\ tcpClient' = [tcpClient EXCEPT ![c].at = "read", ![c].wrote = tcpClient[c].wrote + n]
        /\ up' = [up EXCEPT ![c] = up[c] \o [j \in 1..n |-> tcpClient[c].wrote + j]]
  BY DEF Tcp!Type
<1>2. tcpClient[c].at = "write" /\ UNCHANGED <<down, backlog, server, worker>>
  BY DEF Tcp!Type
<1>3. TcpTypes /\ Emptied /\ Handled /\ Waits /\ Tcp!EchoPrefix
  BY DEF TcpInv
<1> DEFINE w == tcpClient[c].wrote
           t == [j \in 1..n |-> w + j]
           x == tcpClient[c].heard \o down[c] \o worker[c].buffer
<1>4. w \in Nat /\ n \in Nat
  BY <1>1, <1>3 DEF TcpTypes
<1>5. /\ up[c] \in Seq(Int) /\ tcpClient[c].heard \in Seq(Int) /\ down[c] \in Seq(Int)
      /\ worker[c].buffer \in Seq(Int)
  BY <1>3 DEF TcpTypes
<1>6. x \in Seq(Int)
  BY <1>5, ConcatProperties
<1>7. t \in Seq(Int) /\ [j \in 1..w |-> j] \o t = [j \in 1..w + n |-> j]
  BY <1>4, CountOn
<1>8. x \o up[c] = [j \in 1..w |-> j]
  BY <1>2, <1>3 DEF Tcp!EchoPrefix
<1>9. tcpClient' = [tcpClient EXCEPT ![c].at = "read", ![c].wrote = w + n] /\ up' = [up EXCEPT ![c] = up[c] \o t]
  BY <1>1
<1> HIDE DEF t, x
<1>10. x \o (up[c] \o t) = [j \in 1..w + n |-> j]
  <2>1. up[c] \in Seq(Int) /\ t \in Seq(Int)
    BY <1>5, <1>7
  <2>2. (x \o up[c]) \o t = x \o (up[c] \o t)
    BY <1>6, <2>1, Bytewise, Zenon
  <2> QED BY <2>2, <1>7, <1>8, Zenon
<1>11. up[c] \o t \in Seq(Int)
  BY <1>5, <1>7, Bytewise
<1>12. /\ tcpClient'[c] = [at |-> "read", wrote |-> w + n, heard |-> tcpClient[c].heard]
       /\ up'[c] = up[c] \o t
       /\ \A b \in TcpClients : b # c => tcpClient'[b] = tcpClient[b] /\ up'[b] = up[b]
  BY <1>3, <1>9 DEF TcpTypes
<1>13. TcpTypes'
  <2> DEFINE a == w + n
  <2>1. a \in Nat /\ tcpClient' = [tcpClient EXCEPT ![c].at = "read", ![c].wrote = a]
    BY <1>4, <1>9
  <2> HIDE DEF a
  <2>2. tcpClient' \in [TcpClients -> [at : {"connect", "write", "read", "dead"}, wrote : Nat, heard : Seq(Int)]]
    <3>1. tcpClient' = [b \in TcpClients |-> tcpClient'[b]]
      BY <1>3, <2>1 DEF TcpTypes
    <3>2. /\ tcpClient'[c] = [at |-> "read", wrote |-> a, heard |-> tcpClient[c].heard]
          /\ \A b \in TcpClients : b # c => tcpClient'[b] = tcpClient[b]
      BY <1>12 DEF a
    <3>3. \A b \in TcpClients :
            tcpClient'[b] \in [at : {"connect", "write", "read", "dead"}, wrote : Nat, heard : Seq(Int)]
      BY <3>2, <2>1, <1>3, <1>5 DEF TcpTypes
    <3> QED BY <3>1, <3>3
  <2>3. up' \in [TcpClients -> Seq(Int)]
    BY <1>3, <1>9, <1>11 DEF TcpTypes
  <2> QED BY <1>2, <1>3, <2>2, <2>3 DEF TcpTypes
<1>14. Emptied'
  BY <1>2, <1>3 DEF Emptied
<1>15. Handled' /\ Waits'
  BY <1>2, <1>3, <1>12, SameServing
<1>16. (Tcp!EchoPrefix)'
  <2>1. /\ tcpClient'[c].heard = tcpClient[c].heard /\ down'[c] = down[c]
        /\ worker'[c].buffer = worker[c].buffer /\ up'[c] = up[c] \o t
        /\ tcpClient'[c].wrote = w + n
    BY <1>2, <1>12
  <2>2. Stream(c)' = [j \in 1..tcpClient'[c].wrote |-> j]
    BY <2>1, <1>10, Zenon DEF x, Stream
  <2> QED BY <2>2, <1>2, <1>3, <1>12, OneStream
<1> QED BY <1>13, <1>14, <1>15, <1>16 DEF TcpInv

LEMMA TcpHear ==
  ASSUME TcpInv, NEW c \in TcpClients, Tcp!Hear(c)
  PROVE  TcpInv'
<1>1. PICK n \in 1..Len(down[c]) :
        /\ tcpClient' = [tcpClient EXCEPT ![c].at = "write",
                                          ![c].heard = tcpClient[c].heard \o SubSeq(down[c], 1, n)]
        /\ down' = [down EXCEPT ![c] = SubSeq(down[c], n + 1, Len(down[c]))]
  BY DEF Tcp!Hear
<1>2. tcpClient[c].at = "read" /\ UNCHANGED <<up, backlog, server, worker>>
  BY DEF Tcp!Hear
<1>3. TcpTypes /\ Emptied /\ Handled /\ Waits /\ Tcp!EchoPrefix
  BY DEF TcpInv
<1> DEFINE h == tcpClient[c].heard
           p == SubSeq(down[c], 1, n)
           q == SubSeq(down[c], n + 1, Len(down[c]))
<1>4. h \in Seq(Int) /\ down[c] \in Seq(Int)
  BY <1>3 DEF TcpTypes
<1>5. p \in Seq(Int) /\ q \in Seq(Int) /\ (h \o p) \o q = h \o down[c]
  BY <1>4, CutStream
<1>6. h \o p \in Seq(Int)
  BY <1>4, <1>5, ConcatProperties
<1>7. /\ tcpClient' = [tcpClient EXCEPT ![c].at = "write", ![c].heard = h \o p]
      /\ down' = [down EXCEPT ![c] = q]
  BY <1>1
<1> HIDE DEF p, q
<1>8. /\ tcpClient'[c] = [at |-> "write", wrote |-> tcpClient[c].wrote, heard |-> h \o p]
      /\ down'[c] = q
      /\ \A b \in TcpClients : b # c => tcpClient'[b] = tcpClient[b] /\ down'[b] = down[b]
  BY <1>3, <1>7 DEF TcpTypes
<1>9. TcpTypes'
  <2>1. tcpClient' \in [TcpClients -> [at : {"connect", "write", "read", "dead"}, wrote : Nat, heard : Seq(Int)]]
    <3>1. tcpClient' = [b \in TcpClients |-> tcpClient'[b]]
      BY <1>3, <1>7 DEF TcpTypes
    <3>2. tcpClient'[c] \in [at : {"connect", "write", "read", "dead"}, wrote : Nat, heard : Seq(Int)]
      <4> DEFINE hp == h \o p
      <4>1. hp \in Seq(Int) /\ tcpClient'[c] = [at |-> "write", wrote |-> tcpClient[c].wrote, heard |-> hp]
        BY <1>6, <1>8
      <4>2. tcpClient[c].wrote \in Nat
        BY <1>3 DEF TcpTypes
      <4> HIDE DEF hp
      <4> QED BY <4>1, <4>2
    <3>3. \A b \in TcpClients : b # c =>
            tcpClient'[b] \in [at : {"connect", "write", "read", "dead"}, wrote : Nat, heard : Seq(Int)]
      BY <1>3, <1>8 DEF TcpTypes
    <3> QED BY <3>1, <3>2, <3>3
  <2>2. down' \in [TcpClients -> Seq(Int)]
    BY <1>3, <1>5, <1>7 DEF TcpTypes
  <2> QED BY <1>2, <1>3, <2>1, <2>2 DEF TcpTypes
<1>10. Emptied'
  BY <1>2, <1>3 DEF Emptied
<1>11. Handled' /\ Waits'
  BY <1>2, <1>3, <1>8, SameServing
<1>12. (Tcp!EchoPrefix)'
  <2>1. /\ tcpClient'[c].heard = h \o p /\ down'[c] = q
        /\ worker'[c].buffer = worker[c].buffer /\ up'[c] = up[c]
        /\ tcpClient'[c].wrote = tcpClient[c].wrote
    BY <1>2, <1>8
  <2>2. Stream(c) = [j \in 1..tcpClient[c].wrote |-> j]
    BY <1>2, <1>3, Zenon DEF Tcp!EchoPrefix, Stream
  <2>3. Stream(c)' = [j \in 1..tcpClient'[c].wrote |-> j]
    BY <2>1, <2>2, <1>5, Zenon DEF Stream
  <2> QED BY <2>3, <1>2, <1>3, <1>8, OneStream
<1> QED BY <1>9, <1>10, <1>11, <1>12 DEF TcpInv

LEMMA TcpClientDies ==
  ASSUME TcpInv, NEW c \in TcpClients, Tcp!ClientDies(c)
  PROVE  TcpInv'
<1>1. /\ tcpClient[c].at \in {"write", "read"} /\ tcpClient' = [tcpClient EXCEPT ![c].at = "dead"]
      /\ UNCHANGED <<up, down, backlog, server, worker>>
  BY DEF Tcp!ClientDies
<1>2. TcpTypes /\ Emptied /\ Handled /\ Waits /\ Tcp!EchoPrefix
  BY DEF TcpInv
<1>3. /\ tcpClient'[c].at = "dead"
      /\ \A b \in TcpClients : b # c => tcpClient'[b] = tcpClient[b]
      /\ TcpTypes'
  BY <1>1, <1>2 DEF TcpTypes
<1>4. Handled' /\ Waits'
  BY <1>1, <1>2, <1>3, SameServing
<1>5. Emptied' /\ (Tcp!EchoPrefix)'
  BY <1>1, <1>2, <1>3 DEF Emptied, Tcp!EchoPrefix
<1> QED BY <1>3, <1>4, <1>5 DEF TcpInv

(* The server.                                                             *)
LEMMA TcpServes ==
  ASSUME TcpInv, Tcp!Server \/ Tcp!ForkFails
  PROVE  TcpInv'
<1>1. TcpTypes /\ Emptied /\ Handled /\ Waits /\ Tcp!EchoPrefix
  BY DEF TcpInv
<1>2. /\ server.open \subseteq TcpClients /\ server.sock \subseteq TcpClients
      /\ backlog \in Seq(TcpClients)
      /\ \A k \in 1..Len(backlog) : backlog[k] \in TcpClients
  BY <1>1 DEF TcpTypes
<1>3. CASE Tcp!Accept
  <2> DEFINE h == Head(backlog)
  <2>1. /\ server.at = "accept" /\ backlog # <<>> /\ backlog' = Tail(backlog)
        /\ server' = [at |-> "fork", sock |-> {h}, open |-> server.open \cup {h}]
        /\ UNCHANGED <<tcpClient, up, down, worker>>
    BY <1>3 DEF Tcp!Accept
  <2>2. /\ Len(backlog) \in Nat \ {0} /\ h = backlog[1] /\ backlog' \in Seq(TcpClients)
        /\ Len(backlog') = Len(backlog) - 1 /\ h \in TcpClients
        /\ \A k \in 1..Len(backlog') : k + 1 \in 1..Len(backlog) /\ backlog'[k] = backlog[k + 1]
    BY <1>2, <2>1
  <2> HIDE DEF h
  <2>3. tcpClient[h].at # "connect" /\ Unserved(h)
    BY <1>1, <2>2 DEF Waits
  <2>4. \A k \in 1..Len(backlog') : backlog'[k] # h /\ backlog'[k] \in TcpClients
    <3> SUFFICES ASSUME NEW k \in 1..Len(backlog') PROVE backlog'[k] # h /\ backlog'[k] \in TcpClients
      OBVIOUS
    <3>1. k + 1 \in 1..Len(backlog) /\ 1 \in 1..Len(backlog) /\ k + 1 # 1 /\ backlog'[k] = backlog[k + 1]
      BY <2>2
    <3>2. backlog[k + 1] # backlog[1]
      BY <3>1, <1>1 DEF Waits
    <3> QED BY <3>1, <3>2, <2>2, <1>2
  <2>5. TcpTypes'
    BY <1>1, <2>1, <2>2 DEF TcpTypes
  <2>6. Handled'
    BY <1>1, <2>1, <2>3 DEF Handled, Unserved
  <2>7. Waits'
    <3>1. \A j, k \in 1..Len(backlog') : backlog'[j] = backlog'[k] => j = k
      <4> SUFFICES ASSUME NEW j \in 1..Len(backlog'), NEW k \in 1..Len(backlog'), backlog'[j] = backlog'[k]
                   PROVE  j = k
        OBVIOUS
      <4>1. j + 1 \in 1..Len(backlog) /\ k + 1 \in 1..Len(backlog) /\ backlog[j + 1] = backlog[k + 1]
        BY <2>2
      <4>2. j + 1 = k + 1
        BY <4>1, <1>1 DEF Waits
      <4> QED BY <4>2
    <3>2. \A k \in 1..Len(backlog') : (tcpClient[backlog[k]].at # "connect" /\ Unserved(backlog[k]))'
      BY <1>1, <2>1, <2>2, <2>4 DEF Waits, Unserved
    <3>3. \A c \in TcpClients : tcpClient'[c].at = "connect" => Unserved(c)'
      BY <1>1, <2>1, <2>3 DEF Waits, Unserved
    <3> QED BY <3>1, <3>2, <3>3 DEF Waits
  <2>8. Emptied' /\ (Tcp!EchoPrefix)'
    BY <1>1, <2>1 DEF Emptied, Tcp!EchoPrefix
  <2> QED BY <2>5, <2>6, <2>7, <2>8 DEF TcpInv
<1>4. CASE Tcp!Fork
  <2>1. /\ server.at = "fork" /\ server' = [server EXCEPT !.at = "close"]
        /\ worker' = [c \in TcpClients |-> IF c \in server.sock THEN [worker[c] EXCEPT !.at = "read"] ELSE worker[c]]
        /\ UNCHANGED <<tcpClient, up, down, backlog>>
    BY <1>4 DEF Tcp!Fork
  <2>2. /\ server'.at = "close" /\ server'.sock = server.sock /\ server'.open = server.open
        /\ \A c \in TcpClients : /\ worker'[c].buffer = worker[c].buffer
                                 /\ c \notin server.sock => worker'[c] = worker[c]
                                 /\ c \in server.sock => worker'[c].at = "read" /\ worker[c].at = "none"
        /\ TcpTypes'
    BY <1>1, <2>1 DEF TcpTypes, Handled
  <2>3. Emptied' /\ (Tcp!EchoPrefix)'
    BY <1>1, <2>1, <2>2 DEF Emptied, Tcp!EchoPrefix
  <2>4. Handled'
    BY <1>1, <1>2, <2>2 DEF Handled
  <2>5. Waits'
    <3>1. \A c \in TcpClients : Unserved(c) => Unserved(c)'
      BY <1>1, <2>2 DEF Unserved, Handled
    <3> QED BY <1>1, <1>2, <2>1, <3>1 DEF Waits
  <2> QED BY <2>2, <2>3, <2>4, <2>5 DEF TcpInv
<1>5. CASE Tcp!Close \/ Tcp!ForkFails
  <2>1. /\ server'.at = "accept" /\ server'.sock = {}
        /\ \/ server'.open = server.open \ server.sock
           \/ server'.open = server.open /\ server.at = "fork"
        /\ UNCHANGED <<tcpClient, up, down, backlog, worker>>
    <3>1. CASE Tcp!Close
      BY <3>1 DEF Tcp!Close
    <3>2. CASE Tcp!ForkFails
      BY <3>2, <1>1 DEF Tcp!ForkFails, TcpTypes
    <3> QED BY <3>1, <3>2, <1>5
  <2>2. TcpTypes'
    BY <1>1, <1>5, <2>1 DEF Tcp!Close, Tcp!ForkFails, TcpTypes
  <2>3. Handled'
    BY <1>1, <2>1 DEF Handled
  <2>4. Waits'
    BY <1>1, <1>2, <2>1 DEF Waits, Unserved
  <2>5. Emptied' /\ (Tcp!EchoPrefix)'
    BY <1>1, <2>1 DEF Emptied, Tcp!EchoPrefix
  <2> QED BY <2>2, <2>3, <2>4, <2>5 DEF TcpInv
<1> QED BY <1>3, <1>4, <1>5 DEF Tcp!Server

(* Its children.                                                           *)
LEMMA TcpRead ==
  ASSUME TcpInv, NEW c \in TcpClients, Tcp!Read(c)
  PROVE  TcpInv'
<1>1. PICK n \in 1..Len(up[c]) :
        /\ worker' = [worker EXCEPT ![c] = [at |-> "write", buffer |-> SubSeq(up[c], 1, n)]]
        /\ up' = [up EXCEPT ![c] = SubSeq(up[c], n + 1, Len(up[c]))]
  BY DEF Tcp!Read
<1>2. worker[c].at = "read" /\ UNCHANGED <<tcpClient, down, backlog, server>>
  BY DEF Tcp!Read
<1>3. TcpTypes /\ Emptied /\ Handled /\ Waits /\ Tcp!EchoPrefix
  BY DEF TcpInv
<1> DEFINE x == tcpClient[c].heard \o down[c]
           p == SubSeq(up[c], 1, n)
           q == SubSeq(up[c], n + 1, Len(up[c]))
<1>4. tcpClient[c].heard \in Seq(Int) /\ down[c] \in Seq(Int) /\ up[c] \in Seq(Int)
  BY <1>3 DEF TcpTypes
<1>5. x \in Seq(Int)
  BY <1>4, ConcatProperties
<1>6. worker[c].buffer = <<>>
  BY <1>2, <1>3 DEF Emptied
<1> HIDE DEF x
<1>7. p \in Seq(Int) /\ q \in Seq(Int) /\ (x \o p) \o q = x \o up[c]
  BY <1>4, <1>5, CutStream
<1>8. x \o <<>> = x
  BY <1>5, ConcatEmptySeq
<1>9. worker' = [worker EXCEPT ![c] = [at |-> "write", buffer |-> p]] /\ up' = [up EXCEPT ![c] = q]
  BY <1>1
<1> HIDE DEF p, q
<1>10. /\ worker'[c] = [at |-> "write", buffer |-> p] /\ up'[c] = q
       /\ \A b \in TcpClients : b # c => worker'[b] = worker[b] /\ up'[b] = up[b]
       /\ TcpTypes'
  BY <1>2, <1>3, <1>7, <1>9 DEF TcpTypes
<1>11. Emptied'
  BY <1>3, <1>10 DEF Emptied
<1>12. Handled' /\ Waits'
  BY <1>2, <1>3, <1>10, SameServing
<1>13. (Tcp!EchoPrefix)'
  <2>1. /\ tcpClient' = tcpClient /\ down' = down
        /\ worker'[c].buffer = p /\ up'[c] = q
    BY <1>2, <1>10
  <2>2. Stream(c)' = Stream(c)
    BY <2>1, <1>6, <1>7, <1>8, Zenon DEF Stream, x
  <2>3. tcpClient'[c].at # "dead" => Stream(c)' = [j \in 1..tcpClient'[c].wrote |-> j]
    BY <2>1, <2>2, <1>3, Zenon DEF Tcp!EchoPrefix, Stream
  <2> QED BY <2>1, <2>3, <1>3, <1>10, OneStream
<1> QED BY <1>10, <1>11, <1>12, <1>13 DEF TcpInv

LEMMA TcpEchoes ==
  ASSUME TcpInv, NEW c \in TcpClients, Tcp!Echo(c)
  PROVE  TcpInv'
<1>1. /\ worker[c].at = "write" /\ worker' = [worker EXCEPT ![c] = [at |-> "read", buffer |-> <<>>]]
      /\ down' = [down EXCEPT ![c] = down[c] \o worker[c].buffer]
      /\ UNCHANGED <<tcpClient, up, backlog, server>>
  BY DEF Tcp!Echo
<1>2. TcpTypes /\ Emptied /\ Handled /\ Waits /\ Tcp!EchoPrefix
  BY DEF TcpInv
<1> DEFINE h == tcpClient[c].heard
           d == down[c]
           r == worker[c].buffer
<1>3. h \in Seq(Int) /\ d \in Seq(Int) /\ r \in Seq(Int) /\ <<>> \in Seq(Int)
  BY <1>2 DEF TcpTypes
<1>4. d \o r \in Seq(Int) /\ h \o (d \o r) \in Seq(Int)
  BY <1>3, Bytewise
<1>5. (h \o d) \o r = h \o (d \o r)
  BY <1>3, Bytewise
<1>6. (h \o (d \o r)) \o <<>> = (h \o d) \o r
  BY <1>4, <1>5, Bytewise
<1>7. /\ worker'[c] = [at |-> "read", buffer |-> <<>>] /\ down'[c] = d \o r
      /\ \A b \in TcpClients : b # c => worker'[b] = worker[b] /\ down'[b] = down[b]
      /\ TcpTypes'
  BY <1>1, <1>2, <1>3, <1>4 DEF TcpTypes
<1>8. Emptied'
  BY <1>2, <1>7 DEF Emptied
<1>9. Handled' /\ Waits'
  BY <1>1, <1>2, <1>7, SameServing
<1>10. (Tcp!EchoPrefix)'
  <2>1. tcpClient' = tcpClient /\ up' = up
    BY <1>1
  <2>2. Stream(c)' = Stream(c)
    <3>1. worker'[c].buffer = <<>>
      BY <1>7
    <3> QED BY <2>1, <3>1, <1>6, <1>7, Zenon DEF Stream
  <2>3. tcpClient'[c].at # "dead" => Stream(c)' = [j \in 1..tcpClient'[c].wrote |-> j]
    BY <2>1, <2>2, <1>2, Zenon DEF Tcp!EchoPrefix, Stream
  <2> QED BY <2>1, <2>3, <1>2, <1>7, OneStream
<1> QED BY <1>7, <1>8, <1>9, <1>10 DEF TcpInv

LEMMA TcpEnds ==
  ASSUME TcpInv, NEW c \in TcpClients, Tcp!Ends(c)
  PROVE  TcpInv'
<1>1. /\ tcpClient[c].at = "dead" /\ worker[c].at \in {"read", "write"}
      /\ worker' = [worker EXCEPT ![c] = [at |-> "gone", buffer |-> <<>>]]
      /\ UNCHANGED <<tcpClient, up, down, backlog, server>>
  BY DEF Tcp!Ends
<1>2. TcpTypes /\ Emptied /\ Handled /\ Waits /\ Tcp!EchoPrefix
  BY DEF TcpInv
<1>3. /\ worker'[c] = [at |-> "gone", buffer |-> <<>>]
      /\ \A b \in TcpClients : b # c => worker'[b] = worker[b]
      /\ TcpTypes'
  BY <1>1, <1>2 DEF TcpTypes
<1>4. Handled' /\ Waits'
  BY <1>1, <1>2, <1>3, SameServing
<1>5. Emptied'
  BY <1>2, <1>3 DEF Emptied
<1>6. (Tcp!EchoPrefix)'
  BY <1>1, <1>2, <1>3, OneStream
<1> QED BY <1>3, <1>4, <1>5, <1>6 DEF TcpInv

LEMMA TcpStep == TcpInv /\ (Tcp!Next \/ UNCHANGED tcpV) => TcpInv'
<1>1. TcpInv /\ UNCHANGED tcpV => TcpInv'
  <2> SUFFICES ASSUME TcpInv, UNCHANGED tcpV PROVE TcpInv'
    OBVIOUS
  <2>1. UNCHANGED <<tcpClient, up, down, backlog, server, worker>>
    BY DEF tcpV
  <2>2. (Tcp!EchoPrefix)'
    BY <2>1, Zenon DEF TcpInv, Tcp!EchoPrefix
  <2>3. TcpTypes' /\ Emptied'
    BY <2>1, Zenon DEF TcpInv, TcpTypes, Emptied
  <2>4. Handled' /\ Waits'
    BY <2>1, Zenon DEF TcpInv, Handled, Waits, Unserved
  <2> QED BY <2>2, <2>3, <2>4 DEF TcpInv
<1> QED BY <1>1, TcpServes, TcpConnect, TcpType, TcpHear, TcpClientDies, TcpRead, TcpEchoes, TcpEnds
        DEF Tcp!Next, Tcp!Client, Tcp!Worker

(* The server never keeps the descriptor of a connection that it has given *)
(* to a child (lab7, TCP), for any number of clients and descriptors.      *)
THEOREM ConnectionsClosed == AllSpec => []NothingKept
<1>1. AllInit => TcpInv
  BY TcpStart DEF AllInit
<1>2. TcpInv /\ [AllNext]_allVars => TcpInv'
  BY TcpStep DEF AllNext, allVars, ForkNext, PipeNext, RingNext, UdpNext, TcpNext, CopyNext, FilesNext
<1>3. TcpInv => NothingKept
  BY DEF TcpInv, Handled, NothingKept, Tcp!NothingKept
<1> QED BY <1>1, <1>2, <1>3, PTL DEF AllSpec

(* What a client hears is what it typed, as far as it has come: datagrams  *)
(* may be lost, and a stream be cut at any byte (lab7).                    *)
THEOREM EchoesTrue == AllSpec => []Echoed
<1>1. AllInit => UdpInv /\ TcpInv
  BY UdpStart, TcpStart DEF AllInit
<1>2. UdpInv /\ [AllNext]_allVars => UdpInv'
  BY UdpStep DEF AllNext, allVars, ForkNext, PipeNext, RingNext, UdpNext, TcpNext, CopyNext, FilesNext
<1>3. TcpInv /\ [AllNext]_allVars => TcpInv'
  BY TcpStep DEF AllNext, allVars, ForkNext, PipeNext, RingNext, UdpNext, TcpNext, CopyNext, FilesNext
<1>4. UdpInv /\ TcpInv => Echoed
  BY DEF UdpInv, TcpInv, Echoed
<1> QED BY <1>1, <1>2, <1>3, <1>4, PTL DEF AllSpec

-----------------------------------------------------------------------------
(* Copies (lab3/main.c).  The invariant ties the loop variable i of        *)
(* copy_file_reverse to the bytes written so far.                          *)
Copy == [of : FileNames, size : Int, bytes : Seq(Int), broken : BOOLEAN]

CopyTypes == /\ entries \in [FileNames -> Nat]
             /\ unread \subseteq FileNames
             /\ file_size \in Int /\ i \in Int
             /\ copies \in [DOMAIN copies -> Copy]
             /\ copier \in {"create", "copy"} => current \in FileNames

\* a copy lies under the reversed name of its source
Named == \A n \in DOMAIN copies : n = ReverseString(copies[n].of)

\* what has been written of a copy, from the top of the file down
Descending(d) == /\ Len(d.bytes) <= Whole(d)
                 /\ \A k \in 1..Len(d.bytes) : d.bytes[k] = Top(d) + 1 - k
Descend == \A n \in DOMAIN copies : Descending(copies[n])

\* a copy is broken, being written, or whole, or its size was the least int
Complete(d) == \/ d.broken \/ (copier = "copy" /\ d.of = current)
               \/ Len(d.bytes) = Whole(d)
               \/ d.size = -IntHalf /\ Len(d.bytes) = 0
Finished == \A n \in DOMAIN copies : Complete(copies[n])

\* i counts down from the size by as many bytes as have been written, unless the loop is
\* not entered
LoopHolds == copier = "copy" => LET n == ReverseString(current) IN
               /\ n \in DOMAIN copies
               /\ copies[n].of = current
               /\ copies[n].size = file_size
               /\ \/ i + 1 = Top(copies[n]) - Len(copies[n].bytes)
                  \/ i < 0 /\ copies[n].size = -IntHalf /\ Len(copies[n].bytes) = 0

CopyInvariant == CopyTypes /\ Named /\ Descend /\ Finished /\ LoopHolds

(* The empty directory satisfies the invariant.                            *)
LEMMA CopyInit == InitCopy => CopyInvariant
BY CopyAssumption
   DEF InitCopy, CopyInvariant, CopyTypes, Copy, Named, Descend, Finished, LoopHolds

(* int of a size is an integer.                                            *)
LEMMA ToIntInt == \A n \in Nat : ToInt(n) \in Int
BY CopyAssumption DEF ToInt

(* CreateCopy puts an empty copy under the reversed name.                  *)
LEMMA CreateInvariant ==
  ASSUME CopyInvariant, CreateCopy
  PROVE  CopyInvariant'
<1> DEFINE r == ReverseString(current)
           d == [of |-> current, size |-> file_size, bytes |-> <<>>, broken |-> FALSE]
<1>0. CopyTypes /\ Named /\ Descend /\ Finished /\ copier = "create"
  BY DEF CopyInvariant, CreateCopy
<1>1. /\ DOMAIN copies' = DOMAIN copies \cup {r}
      /\ copies'[r] = d
      /\ \A n \in DOMAIN copies : n # r => copies'[n] = copies[n]
      /\ copies' = [n \in DOMAIN copies' |-> copies'[n]]
      /\ current' = current /\ file_size' = file_size /\ i' \in BelowSize
      /\ copier' = "copy" /\ unread' = unread /\ entries' = entries
  BY DEF CreateCopy
<1>2. current \in FileNames /\ file_size \in Int
  BY <1>0 DEF CopyTypes
<1>3. d \in Copy /\ Len(d.bytes) = 0 /\ d.of = current /\ d.size = file_size
  BY <1>2 DEF Copy
<1>4. r' = r
  BY <1>1
<1> HIDE DEF d, r
<1>11. i' \in Int /\ (i' + 1 = Top(d) \/ (i' < 0 /\ d.size = -IntHalf))
  BY <1>1, <1>2, <1>3, CopyAssumption DEF BelowSize, Top
<1>5. CopyTypes'
  <2>1. \A n \in DOMAIN copies' : copies'[n] \in Copy
    BY <1>0, <1>1, <1>3 DEF CopyTypes
  <2> QED BY <2>1, <1>0, <1>1, <1>2, <1>11 DEF CopyTypes
<1>6. Named'
  BY <1>0, <1>1, <1>3 DEF Named, r
<1>7. Descending(d)
  BY <1>2, <1>3, CopyAssumption DEF Descending, Whole, Top
<1>8. Descend'
  BY <1>0, <1>1, <1>7 DEF Descend, Descending, Whole, Top
<1>9. Finished'
  BY <1>0, <1>1, <1>3 DEF Finished, Complete, Whole, Top
<1>10. LoopHolds'
  BY <1>1, <1>2, <1>3, <1>4, <1>11, CopyAssumption DEF LoopHolds, r, Top
<1> QED BY <1>5, <1>6, <1>8, <1>9, <1>10 DEF CopyInvariant

(* A byte is appended: the one that i stands at, and i goes on to the next *)
(* below.                                                                  *)
LEMMA CopyByteInvariant ==
  ASSUME CopyInvariant, CopyByte
  PROVE  CopyInvariant'
<1> DEFINE r == ReverseString(current)
           old == copies[r]
           new == copies'[r]
<1>0. CopyTypes /\ Named /\ Descend /\ Finished /\ LoopHolds /\ copier = "copy" /\ i >= 0
  BY DEF CopyInvariant, CopyByte
<1>1. /\ r \in DOMAIN copies /\ old.of = current /\ old.size = file_size
      /\ i + 1 = Top(old) - Len(old.bytes)
  <2>1. i \in Int /\ ~(i < 0)
    BY <1>0 DEF CopyTypes
  <2> QED BY <2>1, <1>0 DEF LoopHolds
<1>2. /\ old \in Copy /\ file_size \in Int /\ i \in Int
      /\ old = [of |-> old.of, size |-> old.size, bytes |-> old.bytes, broken |-> old.broken]
  BY <1>0, <1>1 DEF CopyTypes, Copy
<1>3. /\ DOMAIN copies' = DOMAIN copies
      /\ new = [old EXCEPT !.bytes = Append(old.bytes, i + 1)]
      /\ \A n \in DOMAIN copies : n # r => copies'[n] = copies[n]
      /\ copies' = [n \in DOMAIN copies |-> copies'[n]]
      /\ current' = current /\ file_size' = file_size /\ i' = i - 1
      /\ copier' = copier /\ unread' = unread /\ entries' = entries
  BY <1>0, <1>1 DEF CopyByte, Put, CopyTypes
<1>4. /\ new \in Copy /\ new.of = current /\ new.size = file_size /\ new.broken = old.broken
      /\ Len(new.bytes) = Len(old.bytes) + 1
      /\ new.bytes[Len(old.bytes) + 1] = i + 1
      /\ \A k \in 1..Len(old.bytes) : new.bytes[k] = old.bytes[k]
      /\ Len(old.bytes) \in Nat
  <2>1. old.bytes \in Seq(Int) /\ old.of \in FileNames /\ old.size \in Int /\ old.broken \in BOOLEAN
    BY <1>2 DEF Copy
  <2>2. new = [of |-> old.of, size |-> old.size, bytes |-> Append(old.bytes, i + 1), broken |-> old.broken]
    BY <1>2, <1>3
  <2>3. /\ Append(old.bytes, i + 1) \in Seq(Int)
        /\ Len(Append(old.bytes, i + 1)) = Len(old.bytes) + 1
        /\ Append(old.bytes, i + 1)[Len(old.bytes) + 1] = i + 1
        /\ \A k \in 1..Len(old.bytes) : Append(old.bytes, i + 1)[k] = old.bytes[k]
        /\ Len(old.bytes) \in Nat
    BY <2>1, <1>2
  <2> HIDE DEF old, new
  <2> QED BY <2>1, <2>2, <2>3, <1>1 DEF Copy
<1>5. ReverseString(current)' = r
  BY <1>3
<1> HIDE DEF r, old, new
<1>6. CopyTypes'
  <2>1. \A n \in DOMAIN copies' : copies'[n] \in Copy
    BY <1>0, <1>3, <1>4 DEF CopyTypes, new
  <2> QED BY <2>1, <1>0, <1>2, <1>3 DEF CopyTypes
<1>7. Named'
  BY <1>0, <1>3, <1>4 DEF Named, new, r
<1>8. Descending(old)
  BY <1>0, <1>1 DEF Descend, old
<1>13. Top(new) = Top(old) /\ Top(old) \in Int
  BY <1>1, <1>2, <1>4, CopyAssumption DEF Top
<1>9. Descending(new)
  <2>1. Len(new.bytes) <= Whole(new)
    BY <1>0, <1>1, <1>2, <1>4, <1>13 DEF Whole
  <2>2. \A k \in 1..Len(new.bytes) : new.bytes[k] = Top(new) + 1 - k
    <3>1. i + 1 = Top(new) + 1 - (Len(old.bytes) + 1)
      BY <1>1, <1>2, <1>4, <1>13
    <3> SUFFICES ASSUME NEW k \in 1..Len(new.bytes) PROVE new.bytes[k] = Top(new) + 1 - k
      OBVIOUS
    <3>2. k \in 1..Len(old.bytes) \/ k = Len(old.bytes) + 1
      BY <1>4
    <3>3. CASE k = Len(old.bytes) + 1
      BY <1>4, <3>1, <3>3
    <3>4. CASE k \in 1..Len(old.bytes)
      <4>1. old.bytes[k] = Top(old) + 1 - k
        BY <1>8, <3>4 DEF Descending
      <4> QED BY <4>1, <1>4, <1>13, <3>4
    <3> QED BY <3>2, <3>3, <3>4
  <2> QED BY <2>1, <2>2 DEF Descending
<1>10. Descend'
  <2> SUFFICES ASSUME NEW n \in DOMAIN copies PROVE Descending(copies'[n])
    BY <1>3 DEF Descend, Descending, Whole, Top
  <2> QED BY <1>0, <1>3, <1>9 DEF Descend, new
<1>11. Finished'
  BY <1>0, <1>3, <1>4 DEF Finished, Complete, Whole, Top, new
<1>12. LoopHolds'
  <2>1. i' + 1 = Top(new) - Len(new.bytes)
    BY <1>1, <1>2, <1>3, <1>4, <1>13
  <2> QED BY <2>1, <1>1, <1>3, <1>4, <1>5 DEF LoopHolds, new, Top
<1> QED BY <1>6, <1>7, <1>10, <1>11, <1>12 DEF CopyInvariant

(* A failure marks the copy and leaves its bytes.                          *)
LEMMA CopyFailsInvariant ==
  ASSUME CopyInvariant, CopyFails
  PROVE  CopyInvariant'
<1> DEFINE r == ReverseString(current)
<1>0. CopyTypes /\ Named /\ Descend /\ Finished /\ LoopHolds /\ copier = "copy"
  BY DEF CopyInvariant, CopyFails
<1>1. r \in DOMAIN copies /\ copies[r] \in Copy
  BY <1>0 DEF LoopHolds, CopyTypes
<1>2. /\ DOMAIN copies' = DOMAIN copies
      /\ copies' = [n \in DOMAIN copies |-> copies'[n]]
      /\ copies'[r] = [copies[r] EXCEPT !.broken = TRUE]
      /\ \A n \in DOMAIN copies : n # r => copies'[n] = copies[n]
      /\ current' = current /\ file_size' = file_size /\ i' = i
      /\ copier' = "list" /\ unread' = unread /\ entries' = entries
  BY <1>0, <1>1 DEF CopyFails, CopyTypes
<1>3. /\ copies'[r] \in Copy /\ copies'[r].broken
      /\ copies'[r].of = copies[r].of /\ copies'[r].size = copies[r].size
      /\ copies'[r].bytes = copies[r].bytes
  BY <1>1, <1>2 DEF Copy
<1> HIDE DEF r
<1>4. CopyTypes'
  <2>1. \A n \in DOMAIN copies' : copies'[n] \in Copy
    BY <1>0, <1>2, <1>3 DEF CopyTypes
  <2> QED BY <2>1, <1>0, <1>2 DEF CopyTypes
<1>5. Named'
  BY <1>0, <1>1, <1>2, <1>3 DEF Named
<1>6. Descend'
  <2> SUFFICES ASSUME NEW n \in DOMAIN copies PROVE Descending(copies'[n])
    BY <1>2 DEF Descend, Descending, Whole, Top
  <2>1. Descending(copies[n])
    BY <1>0 DEF Descend
  <2>2. CASE n = r
    BY <2>1, <2>2, <1>3 DEF Descending, Whole, Top
  <2>3. CASE n # r
    BY <2>1, <2>3, <1>2
  <2> QED BY <2>2, <2>3
<1>7. Finished'
  <2> SUFFICES ASSUME NEW n \in DOMAIN copies PROVE Complete(copies[n])'
    BY <1>2 DEF Finished
  <2>1. CASE n = r
    BY <2>1, <1>3 DEF Complete
  <2>2. CASE n # r
    <3>1. copies[n].of # current
      BY <2>2, <1>0 DEF Named, r
    <3> QED BY <2>2, <3>1, <1>0, <1>2 DEF Finished, Complete, Whole, Top
  <2> QED BY <2>1, <2>2
<1> QED BY <1>2, <1>4, <1>5, <1>6, <1>7 DEF CopyInvariant, LoopHolds

(* The loop ends below 0: the copy is as long as its size.                 *)
LEMMA CopyEndsInvariant ==
  ASSUME CopyInvariant, CopyEnds
  PROVE  CopyInvariant'
<1> DEFINE r == ReverseString(current)
<1>0. CopyTypes /\ Named /\ Descend /\ Finished /\ LoopHolds /\ copier = "copy" /\ i < 0
  BY DEF CopyInvariant, CopyEnds
<1>1. /\ r \in DOMAIN copies /\ copies[r] \in Copy /\ copies[r].size \in Int
      /\ \/ i + 1 = Top(copies[r]) - Len(copies[r].bytes)
         \/ copies[r].size = -IntHalf /\ Len(copies[r].bytes) = 0
      /\ Descending(copies[r])
      /\ i \in Int /\ Len(copies[r].bytes) \in Nat
  BY <1>0 DEF LoopHolds, CopyTypes, Descend, Copy
<1>2. \/ Len(copies[r].bytes) = Whole(copies[r])
      \/ copies[r].size = -IntHalf /\ Len(copies[r].bytes) = 0
  <2> DEFINE l == Len(copies[r].bytes)
             w == Whole(copies[r])
             top == Top(copies[r])
  <2> SUFFICES ASSUME i + 1 = top - l PROVE l = w
    BY <1>1
  <2>1. l \in Nat /\ l <= w /\ w = IF top > 0 THEN top ELSE 0
    BY <1>1 DEF Descending, Whole
  <2>2. i < 0 /\ i \in Int /\ top \in Int
    BY <1>0, <1>1, CopyAssumption DEF Top
  <2> HIDE DEF l, w, top
  <2> QED BY <2>1, <2>2
<1>3. /\ copier' = "list" /\ UNCHANGED <<entries, unread, current, file_size, i, copies>>
  BY DEF CopyEnds
<1>4. Finished'
  <2> SUFFICES ASSUME NEW n \in DOMAIN copies PROVE Complete(copies[n])'
    BY <1>3 DEF Finished
  <2>1. CASE n = r
    BY <2>1, <1>2, <1>3 DEF Complete, Whole, Top
  <2>2. CASE n # r
    <3>1. copies[n].of # current
      BY <2>2, <1>0 DEF Named
    <3> QED BY <3>1, <1>0, <1>3 DEF Finished, Complete, Whole, Top
  <2> QED BY <2>1, <2>2
<1>5. CopyTypes' /\ LoopHolds'
  BY <1>0, <1>3 DEF CopyTypes, LoopHolds
<1>6. Named'
  BY <1>0, <1>3 DEF Named
<1>7. Descend'
  BY <1>0, <1>3 DEF Descend, Descending, Whole, Top
<1> QED BY <1>4, <1>5, <1>6, <1>7 DEF CopyInvariant

(* Between two files nothing is being written: what is there stays.        *)
LEMMA QuietInvariant ==
  ASSUME CopyInvariant, copier # "copy", copier' # "copy", copies' = copies,
         CopyTypes'
  PROVE  CopyInvariant'
<1>1. Named'
  BY DEF CopyInvariant, Named
<1>2. Descend'
  BY DEF CopyInvariant, Descend, Descending, Whole, Top
<1>3. Finished'
  BY DEF CopyInvariant, Finished, Complete, Whole, Top
<1> QED BY <1>1, <1>2, <1>3 DEF CopyInvariant, LoopHolds

(* Every step keeps the invariant.                                         *)
LEMMA CopyStep == CopyInvariant /\ [NextCopy]_copyVars => CopyInvariant'
<1> SUFFICES ASSUME CopyInvariant, [NextCopy]_copyVars PROVE CopyInvariant'
  OBVIOUS
<1>0. CopyTypes
  BY DEF CopyInvariant
<1>1. CASE MakeDir
  BY <1>0, <1>1, QuietInvariant DEF MakeDir, CopyTypes
<1>2. CASE GiveUp
  BY <1>0, <1>2, QuietInvariant DEF GiveUp, CopyTypes
<1>3. CASE Open
  <2>1. PICK f \in unread : /\ current' = f /\ unread' = unread \ {f}
                            /\ file_size' = ToInt(entries[f])
    BY <1>3 DEF Open
  <2>2. file_size' \in Int /\ current' \in FileNames
    BY <2>1, <1>0, ToIntInt DEF CopyTypes
  <2> QED BY <2>1, <2>2, <1>0, <1>3, QuietInvariant DEF Open, CopyTypes
<1>4. CASE Skip
  <2>1. PICK f \in unread : unread' = unread \ {f}
    BY <1>4 DEF Skip
  <2> QED BY <2>1, <1>0, <1>4, QuietInvariant DEF Skip, CopyTypes
<1>5. CASE CreateCopy
  BY <1>5, CreateInvariant
<1>6. CASE CreateCopyFails
  BY <1>0, <1>6, QuietInvariant DEF CreateCopyFails, CopyTypes
<1>7. CASE CopyByte
  BY <1>7, CopyByteInvariant
<1>8. CASE CopyFails
  BY <1>8, CopyFailsInvariant
<1>9. CASE CopyEnds
  BY <1>9, CopyEndsInvariant
<1>10. CASE Finish
  BY <1>0, <1>10, QuietInvariant DEF Finish, CopyTypes
<1>11. CASE Resize
  <2>1. entries' \in [FileNames -> Nat]
    BY <1>0, <1>11, CopyAssumption DEF Resize, CopyTypes
  <2>2. UNCHANGED <<copier, unread, current, file_size, i, copies>>
    BY <1>11 DEF Resize
  <2>3. CopyTypes'
    BY <2>1, <2>2, <1>0 DEF CopyTypes
  <2> QED BY <2>2, <2>3 DEF CopyInvariant, Named, Descend, Descending, Finished, Complete, Whole, Top, LoopHolds
<1>12. CASE UNCHANGED copyVars
  BY <1>12 DEF copyVars, CopyInvariant, CopyTypes, Named, Descend, Descending, Finished, Complete,
               Whole, Top, LoopHolds
<1> QED BY <1>1, <1>2, <1>3, <1>4, <1>5, <1>6, <1>7, <1>8, <1>9, <1>10, <1>11, <1>12 DEF NextCopy

(* Copies hold their sources in reverse (main.c, copy_file_reverse), for   *)
(* any files, sizes and width of int, whatever others do to the sources    *)
(* and whichever calls fail.                                               *)
THEOREM CopiesReversed == AllSpec => []CopyReversed
<1>1. AllInit => CopyInvariant
  BY CopyInit DEF AllInit
<1>2. CopyInvariant /\ [AllNext]_allVars => CopyInvariant'
  BY CopyStep DEF AllNext, allVars, ForkNext, PipeNext, RingNext, UdpNext, TcpNext, CopyNext, FilesNext
<1>3. CopyInvariant => CopyReversed
  BY DEF CopyInvariant, Descend, Descending, Finished, Complete, CopyReversed
<1> QED BY <1>1, <1>2, <1>3, PTL DEF AllSpec

IsName(s) == Len(s) \in Nat /\ s = [k \in 1..Len(s) |-> s[k]]

(* Swapping from both ends up to the middle mirrors a name: after n swaps  *)
(* the outer n places of either side are exchanged, and beyond the middle  *)
(* they go back.                                                           *)
LEMMA ReverseMirrors ==
  ASSUME NEW s, IsName(s)
  PROVE  ReverseString(s) = Mirror(s)
<1> DEFINE l == Len(s)
           h == l \div 2
           Outer(n) == IF n =< h THEN n ELSE l - n
           Swapped(n) == [k \in 1..l |-> IF k =< Outer(n) \/ k > l - Outer(n) THEN s[l - k + 1] ELSE s[k]]
           Swap(t, n) == [t EXCEPT ![n] = t[l - n + 1], ![l - n + 1] = t[n]]
           IsSwap(f) == f = [n \in 0..l |-> IF n = 0 THEN s ELSE Swap(f[n - 1], n)]
           swap == CHOOSE f : IsSwap(f)
<1>1. l \in Nat /\ h \in Nat /\ 2 * h =< l /\ l =< 2 * h + 1
  BY DEF IsName
<1>2. Swapped(0) = s
  BY <1>1 DEF IsName
<1>3. ASSUME NEW n \in 1..l PROVE Swapped(n) = Swap(Swapped(n - 1), n)
  <2> DEFINE t == Swapped(n - 1)
             r == l - n + 1
  <2>1. r \in 1..l /\ n \in Int /\ l \in Int /\ h \in Int
    BY <1>1
  <2>2. \A k \in 1..l : t[k] = IF k =< Outer(n - 1) \/ k > l - Outer(n - 1) THEN s[l - k + 1] ELSE s[k]
    OBVIOUS
  <2>3. \A k \in 1..l : Swapped(n)[k] = IF k =< Outer(n) \/ k > l - Outer(n) THEN s[l - k + 1] ELSE s[k]
    OBVIOUS
  <2>4. t = [k \in 1..l |-> t[k]] /\ Swapped(n) = [k \in 1..l |-> Swapped(n)[k]]
    OBVIOUS
  <2> HIDE DEF t, Swapped, h, l
  <2>5. Swap(t, n) = [k \in 1..l |-> IF k = r THEN t[n] ELSE IF k = n THEN t[r] ELSE t[k]]
    BY <2>4
  <2>6. ASSUME NEW k \in 1..l
        PROVE  Swapped(n)[k] = IF k = r THEN t[n] ELSE IF k = n THEN t[r] ELSE t[k]
    <3>1. CASE k = r
      <4>1. l - k + 1 = n
        BY <3>1, <2>1
      <4>2. t[n] = IF n =< Outer(n - 1) \/ n > l - Outer(n - 1) THEN s[k] ELSE s[n]
        BY <2>1, <2>2, <3>1
      <4>3. Swapped(n)[k] = IF k =< Outer(n) \/ k > l - Outer(n) THEN s[n] ELSE s[k]
        BY <2>3, <4>1
      <4> QED BY <1>1, <2>1, <3>1, <4>2, <4>3
    <3>2. CASE k = n /\ k # r
      <4>1. t[r] = IF r =< Outer(n - 1) \/ r > l - Outer(n - 1) THEN s[n] ELSE s[r]
        <5>1. l - r + 1 = n
          BY <2>1
        <5> QED BY <5>1, <2>1, <2>2
      <4>2. Swapped(n)[k] = IF k =< Outer(n) \/ k > l - Outer(n) THEN s[r] ELSE s[n]
        BY <2>3, <3>2
      <4> QED BY <1>1, <2>1, <3>2, <4>1, <4>2
    <3>3. CASE k # n /\ k # r
      <4>1. t[k] = IF k =< Outer(n - 1) \/ k > l - Outer(n - 1) THEN s[l - k + 1] ELSE s[k]
        BY <2>2
      <4>2. Swapped(n)[k] = IF k =< Outer(n) \/ k > l - Outer(n) THEN s[l - k + 1] ELSE s[k]
        BY <2>3
      <4>3. (k =< Outer(n) \/ k > l - Outer(n)) <=> (k =< Outer(n - 1) \/ k > l - Outer(n - 1))
        BY <1>1, <2>1, <3>3
      <4> QED BY <3>3, <4>1, <4>2, <4>3
    <3> QED BY <3>1, <3>2, <3>3
  <2>7. Swap(t, n) = [k \in 1..l |-> Swapped(n)[k]]
    BY <2>5, <2>6
  <2>8. Swap(t, n) = Swapped(n)
    BY <2>4, <2>7
  <2> QED BY <2>8 DEF t
<1>4. IsSwap([n \in 0..l |-> Swapped(n)])
  <2> DEFINE w == [n \in 0..l |-> Swapped(n)]
  <2>1. ASSUME NEW n \in 0..l PROVE Swapped(n) = IF n = 0 THEN s ELSE Swap(w[n - 1], n)
    <3>1. CASE n = 0
      BY <3>1, <1>2
    <3>2. CASE n # 0
      <4>1. n \in 1..l /\ n - 1 \in 0..l
        BY <3>2, <1>1
      <4> HIDE DEF Swapped, Swap
      <4>2. w[n - 1] = Swapped(n - 1)
        BY <4>1
      <4> QED BY <3>2, <4>1, <4>2, <1>3
    <3> QED BY <3>1, <3>2
  <2> HIDE DEF Swapped, Swap
  <2> QED BY <2>1
<1>5. IsSwap(swap)
  <2> HIDE DEF IsSwap
  <2> QED BY <1>4
<1> HIDE DEF swap, Swapped
<1>6. \A n \in 0..l : swap[n] = Swapped(n)
  <2> DEFINE T == {n \in 0..l : swap[n] # Swapped(n)}
  <2> SUFFICES ASSUME T # {} PROVE FALSE
    OBVIOUS
  <2>0. T \subseteq Nat
    OBVIOUS
  <2> HIDE DEF T
  <2>1. PICK n \in T : \A m \in T : n =< m
    BY <2>0, LeastNumber
  <2> USE DEF T
  <2>2. n \in 0..l /\ swap[n] # Swapped(n)
    OBVIOUS
  <2>3. swap[0] = s
    BY <1>1, <1>5
  <2>4. n \in 1..l /\ n - 1 \in 0..l /\ n - 1 \notin T
    BY <1>1, <1>2, <2>1, <2>2, <2>3
  <2>5. swap[n - 1] = Swapped(n - 1)
    BY <2>4
  <2> HIDE DEF Swap
  <2>6. swap[n] = Swap(swap[n - 1], n)
    BY <1>5, <2>4
  <2> QED BY <1>3, <2>2, <2>4, <2>5, <2>6
<1>7. ReverseString(s) = swap[h]
  BY DEF ReverseString, swap
<1>8. Swapped(h) = Mirror(s)
  BY <1>1 DEF Swapped, Mirror
<1> QED BY <1>1, <1>6, <1>7, <1>8

(* The name of a copy is the mirror image of its source's (main.c:10): the *)
(* swaps of reverse_string, in place, mirror a name of any length.         *)
THEOREM NamesAreMirrored == AllSpec => []NamesMirrored
<1>1. AllInit => CopyInvariant
  BY CopyInit DEF AllInit
<1>2. CopyInvariant /\ [AllNext]_allVars => CopyInvariant'
  BY CopyStep DEF AllNext, allVars, ForkNext, PipeNext, RingNext, UdpNext, TcpNext, CopyNext, FilesNext
<1>3. CopyInvariant => NamesMirrored
  <2> SUFFICES ASSUME CopyInvariant PROVE NamesMirrored
    OBVIOUS
  <2>1. \A s \in FileNames : IsName(s)
    BY NameAssumption DEF IsName
  <2>2. \A s \in FileNames : ReverseString(s) = Mirror(s)
    BY <2>1, ReverseMirrors
  <2>3. \A n \in DOMAIN copies : copies[n].of \in FileNames /\ n = ReverseString(copies[n].of)
    BY DEF CopyInvariant, CopyTypes, Copy, Named
  <2> QED BY <2>2, <2>3 DEF NamesMirrored
<1> QED BY <1>1, <1>2, <1>3, PTL DEF AllSpec

-----------------------------------------------------------------------------
(* A name that is no link leads to its own inode.                          *)
LEMMA NoLink ==
  ASSUME NEW e, NEW n, e[n].kind # "soft"
  PROVE  Files!Walk(e, n) = IF e[n].kind = "hard" THEN e[n].ino ELSE 0
<1> DEFINE Steps(f) == f = [d \in 0..3 |-> IF d = 0 THEN n
                                     ELSE IF e[f[d - 1]].kind = "soft" THEN e[f[d - 1]].to ELSE f[d - 1]]
           step == CHOOSE f : Steps(f)
<1>1. Steps([d \in 0..3 |-> n])
  OBVIOUS
<1>2. Steps(step)
  BY <1>1
<1> HIDE DEF step
<1>3. step[0] = n
  BY <1>2
<1>4. step[1] = n
  BY <1>2, <1>3
<1>5. step[2] = n
  BY <1>2, <1>4
<1>6. step[3] = n
  BY <1>2, <1>5
<1>7. Files!Walk(e, n) = IF e[step[3]].kind = "hard" THEN e[step[3]].ino ELSE 0
  BY DEF Files!Walk, step
<1> QED BY <1>6, <1>7

Entries == {Files!Nothing} \cup {Files!Hard(x) : x \in Ino} \cup {Files!Soft(m) : m \in Name}
Nodes == [kind : {"file", "package"}, data : BOOLEAN, rights : SUBSET {"r", "w"}, names : SUBSET Name]

\* a package has no data of its own
FilesInv == /\ entry \in [Name -> Entries] /\ inode \in [Ino -> Nodes]
            /\ \A x \in Ino : inode[x].kind = "package" => ~inode[x].data

(* The entries of each kind.                                               *)
LEMMA EntryKinds ==
  ASSUME FilesInv, NEW n \in Name
  PROVE  /\ entry[n].kind \in {"none", "hard", "soft"}
         /\ entry[n].kind = "none" <=> entry[n] = Files!Nothing
         /\ entry[n].kind = "hard" => entry[n].ino \in Ino /\ entry[n] = Files!Hard(entry[n].ino)
         /\ entry[n].kind = "soft" => entry[n].to \in Name
         /\ \A x \in Ino : entry[n] = Files!Hard(x) => entry[n].kind = "hard" /\ entry[n].ino = x
<1>1. entry[n] \in Entries
  BY DEF FilesInv
<1>2. CASE entry[n] = Files!Nothing
  BY <1>2 DEF Files!Nothing, Files!Hard
<1>3. CASE \E x \in Ino : entry[n] = Files!Hard(x)
  BY <1>3 DEF Files!Nothing, Files!Hard
<1>4. CASE \E m \in Name : entry[n] = Files!Soft(m)
  BY <1>4 DEF Files!Nothing, Files!Hard, Files!Soft
<1> QED BY <1>1, <1>2, <1>3, <1>4 DEF Entries

(* Where a name leads to that is no link.                                  *)
LEMMA LedTo ==
  ASSUME FilesInv, NEW n \in Name, entry[n].kind # "soft"
  PROVE  /\ entry[n].kind = "none" => Files!Led(n) = 0
         /\ entry[n].kind = "hard" => Files!Led(n) \in Ino /\ entry[n] = Files!Hard(Files!Led(n))
         /\ \A x \in Ino : entry[n] = Files!Hard(x) => Files!Led(n) = x
<1>1. Files!Led(n) = IF entry[n].kind = "hard" THEN entry[n].ino ELSE 0
  BY NoLink DEF Files!Led
<1> QED BY <1>1, EntryKinds

LEMMA FilesStart == Files!Init => FilesInv
<1> SUFFICES ASSUME Files!Init PROVE FilesInv
  OBVIOUS
<1>1. /\ entry = [n \in Name |-> IF n \in Packed THEN Files!Hard(1)
                                 ELSE IF n = "dir" THEN Files!Hard(2) ELSE Files!Nothing]
      /\ inode = [x \in Ino |-> IF x = 2 THEN Files!Package(Packed) ELSE Files!File(TRUE)]
  BY DEF Files!Init
<1>2. /\ 1 \in Ino /\ 2 \in Ino /\ Packed \subseteq Name
  BY DirectoryAssumption
<1>3. entry \in [Name -> Entries]
  BY <1>1, <1>2 DEF Entries
<1>4. Files!Package(Packed) \in Nodes /\ Files!File(TRUE) \in Nodes
  BY <1>2 DEF Files!Package, Files!File, Nodes
<1>5. \A x \in Ino : inode[x].kind = "package" => ~inode[x].data
  BY <1>1 DEF Files!Package, Files!File
<1> QED BY <1>1, <1>3, <1>4, <1>5 DEF FilesInv

(* The two kinds of change.                                                *)
LEMMA EntriesChange ==
  ASSUME FilesInv, inode' = inode, entry' \in [Name -> Entries]
  PROVE  FilesInv'
BY DEF FilesInv

LEMMA NodeChanges ==
  ASSUME FilesInv, entry' \in [Name -> Entries], NEW y,
         \/ \E v \in BOOLEAN : /\ v => inode[y].kind # "package"
                               /\ inode' = [inode EXCEPT ![y].data = v]
         \/ \E v \in SUBSET {"r", "w"} : inode' = [inode EXCEPT ![y].rights = v]
         \/ \E v \in Nodes : ~v.data /\ inode' = [inode EXCEPT ![y] = v]
  PROVE  FilesInv'
<1>0. inode \in [Ino -> Nodes] /\ \A x \in Ino : inode[x].kind = "package" => ~inode[x].data
  BY DEF FilesInv
<1>1. CASE \E v \in BOOLEAN : /\ v => inode[y].kind # "package"
                              /\ inode' = [inode EXCEPT ![y].data = v]
  <2>1. PICK v \in BOOLEAN : /\ v => inode[y].kind # "package"
                             /\ inode' = [inode EXCEPT ![y].data = v]
    BY <1>1
  <2>2. /\ inode' = [x \in Ino |-> inode'[x]]
        /\ \A x \in Ino : x # y => inode'[x] = inode[x]
    BY <1>0, <2>1
  <2>3. y \in Ino => /\ inode[y] \in Nodes
                     /\ inode'[y] = [kind |-> inode[y].kind, data |-> v, rights |-> inode[y].rights, names |-> inode[y].names]
    BY <1>0, <2>1 DEF Nodes
  <2>4. \A x \in Ino : inode'[x] \in Nodes /\ (inode'[x].kind = "package" => ~inode'[x].data)
    <3> SUFFICES ASSUME NEW x \in Ino
                 PROVE  inode'[x] \in Nodes /\ (inode'[x].kind = "package" => ~inode'[x].data)
      OBVIOUS
    <3>1. CASE x = y
      BY <3>1, <1>0, <2>1, <2>3 DEF Nodes
    <3>2. CASE x # y
      BY <3>2, <1>0, <2>2
    <3> QED BY <3>1, <3>2
  <2>5. inode' \in [Ino -> Nodes]
    BY <2>2, <2>4
  <2> QED BY <2>4, <2>5 DEF FilesInv
<1>2. CASE \E v \in SUBSET {"r", "w"} : inode' = [inode EXCEPT ![y].rights = v]
  <2>1. PICK v \in SUBSET {"r", "w"} : inode' = [inode EXCEPT ![y].rights = v]
    BY <1>2
  <2>2. /\ inode' = [x \in Ino |-> inode'[x]]
        /\ \A x \in Ino : x # y => inode'[x] = inode[x]
    BY <1>0, <2>1
  <2>3. y \in Ino => /\ inode[y] \in Nodes
                     /\ inode'[y] = [kind |-> inode[y].kind, data |-> inode[y].data, rights |-> v, names |-> inode[y].names]
    BY <1>0, <2>1 DEF Nodes
  <2>4. \A x \in Ino : inode'[x] \in Nodes /\ (inode'[x].kind = "package" => ~inode'[x].data)
    <3> SUFFICES ASSUME NEW x \in Ino
                 PROVE  inode'[x] \in Nodes /\ (inode'[x].kind = "package" => ~inode'[x].data)
      OBVIOUS
    <3>1. CASE x = y
      BY <3>1, <1>0, <2>1, <2>3 DEF Nodes
    <3>2. CASE x # y
      BY <3>2, <1>0, <2>2
    <3> QED BY <3>1, <3>2
  <2>5. inode' \in [Ino -> Nodes]
    BY <2>2, <2>4
  <2> QED BY <2>4, <2>5 DEF FilesInv
<1>3. CASE \E v \in Nodes : ~v.data /\ inode' = [inode EXCEPT ![y] = v]
  BY <1>0, <1>3 DEF FilesInv
<1> QED BY <1>1, <1>2, <1>3

(* Nothing is lost where names are only added and data is not touched.     *)
LEMMA EntriesStay ==
  ASSUME \A x \in Ino : inode[x].data => inode'[x].data,
         \A m \in Name : entry'[m] = entry[m] \/ entry[m].kind # "hard"
  PROVE  Files!LossIsNamed
<1>1. \A x \in Ino, m \in Name : entry[m] = Files!Hard(x) => entry'[m] = Files!Hard(x)
  BY DEF Files!Hard
<1> QED BY <1>1 DEF Files!LossIsNamed, Files!Loses, Files!Asked, Files!Unasked, Files!HasData, Files!Linked

(* What is lost while the nodes stay as they are has been unlinked.        *)
LEMMA LostNames ==
  ASSUME inode' = inode, NEW x \in Ino,
         Files!HasData(entry, inode, x), ~Files!HasData(entry', inode', x)
  PROVE  /\ inode[x].data
         /\ \E m \in Name : entry[m] = Files!Hard(x)
         /\ \A m \in Name : entry[m] = Files!Hard(x) => entry'[m] # entry[m]
BY DEF Files!HasData, Files!Linked

LEMMA CreatesFile ==
  ASSUME FilesInv, NEW n \in Name, Files!create_file(n)
  PROVE  FilesInv' /\ Files!LossIsNamed
<1>0. /\ entry \in [Name -> Entries] /\ inode \in [Ino -> Nodes]
      /\ command' = <<"create_file", n>>
  BY DEF FilesInv, Files!create_file, Files!Run
<1>1. CASE inode' = [inode EXCEPT ![Files!Led(n)].data = FALSE] /\ entry' = entry
  <2>1. FilesInv'
    BY <1>0, <1>1, NodeChanges
  <2>2. ASSUME NEW x \in Ino, Files!HasData(entry, inode, x), ~Files!HasData(entry', inode', x)
        PROVE  Files!Led(n) = x
    BY <1>0, <1>1, <2>2 DEF Files!HasData, Nodes
  <2> QED BY <1>0, <2>1, <2>2 DEF Files!LossIsNamed, Files!Loses, Files!Asked, Files!Unasked
<1>2. CASE /\ entry[Files!Target(n)].kind = "none"
           /\ \E x \in Files!Fresh : /\ Files!Become(Files!Target(n), Files!Hard(x))
                                     /\ inode' = [inode EXCEPT ![x] = Files!File(FALSE)]
  <2>1. PICK x \in Ino : /\ ~Files!Linked(entry, x)
                         /\ entry' = [entry EXCEPT ![Files!Target(n)] = Files!Hard(x)]
                         /\ inode' = [inode EXCEPT ![x] = Files!File(FALSE)]
    BY <1>2 DEF Files!Fresh, Files!Become
  <2>2. Files!File(FALSE) \in Nodes /\ ~Files!File(FALSE).data
    BY DEF Files!File, Nodes
  <2>3. entry' \in [Name -> Entries]
    BY <1>0, <2>1 DEF Entries
  <2>4. FilesInv'
    BY <2>1, <2>2, <2>3, NodeChanges
  <2>5. ASSUME NEW y \in Ino, Files!HasData(entry, inode, y) PROVE Files!HasData(entry', inode', y)
    <3>1. y # x /\ inode'[y] = inode[y]
      BY <1>0, <2>1, <2>5 DEF Files!HasData
    <3>2. PICK m \in Name : entry[m] = Files!Hard(y)
      BY <2>5 DEF Files!HasData, Files!Linked
    <3>3. entry'[m] = entry[m]
      BY <1>0, <1>2, <2>1, <3>2 DEF Files!Hard
    <3> QED BY <2>5, <3>1, <3>2, <3>3 DEF Files!HasData, Files!Linked
  <2> QED BY <2>4, <2>5 DEF Files!LossIsNamed, Files!Loses, Files!Asked, Files!Unasked
<1> QED BY <1>1, <1>2 DEF Files!create_file

LEMMA CreatesDir ==
  ASSUME FilesInv, NEW n \in Name, Files!create_dir(n)
  PROVE  FilesInv' /\ Files!LossIsNamed
<1>0. entry \in [Name -> Entries] /\ inode \in [Ino -> Nodes] /\ entry[n].kind = "none"
  BY DEF FilesInv, Files!create_dir
<1>1. PICK x \in Ino : /\ ~Files!Linked(entry, x)
                       /\ entry' = [entry EXCEPT ![n] = Files!Hard(x)]
                       /\ inode' = [inode EXCEPT ![x] = Files!Package({})]
  BY DEF Files!create_dir, Files!Fresh, Files!Become
<1>2. Files!Package({}) \in Nodes /\ ~Files!Package({}).data
  BY DEF Files!Package, Nodes
<1>3. entry' \in [Name -> Entries]
  BY <1>0, <1>1 DEF Entries
<1>4. FilesInv'
  BY <1>1, <1>2, <1>3, NodeChanges
<1>5. ASSUME NEW y \in Ino, Files!HasData(entry, inode, y) PROVE Files!HasData(entry', inode', y)
  <2>1. y # x /\ inode'[y] = inode[y]
    BY <1>0, <1>1, <1>5 DEF Files!HasData
  <2>2. PICK m \in Name : entry[m] = Files!Hard(y)
    BY <1>5 DEF Files!HasData, Files!Linked
  <2>3. entry'[m] = entry[m]
    BY <1>0, <1>1, <2>2 DEF Files!Hard
  <2> QED BY <1>5, <2>1, <2>2, <2>3 DEF Files!HasData, Files!Linked
<1> QED BY <1>4, <1>5 DEF Files!LossIsNamed, Files!Loses, Files!Asked, Files!Unasked

(* Removing entries.                                                       *)
LEMMA Empties ==
  ASSUME FilesInv, NEW ns, Files!Empty(ns)
  PROVE  /\ entry' \in [Name -> Entries]
         /\ \A m \in Name : entry'[m] # entry[m] => m \in ns
BY DEF FilesInv, Files!Empty, Entries

LEMMA RemovesDir ==
  ASSUME FilesInv, NEW n \in Name, Files!remove_dir(n)
  PROVE  FilesInv' /\ Files!LossIsNamed
<1> DEFINE inside == inode[Files!Led(n)].names
           ns == inside \cup (IF entry[n].kind = "hard" /\ inside = {} THEN {n} ELSE {})
<1>1. /\ Files!Kind(n) = "package" /\ Files!Empty(ns) /\ inode' = inode
      /\ command' = <<"remove_dir", n>>
  BY DEF Files!remove_dir, Files!Run
<1>2. FilesInv'
  BY <1>1, Empties, EntriesChange
<1>3. ASSUME NEW x \in Ino, Files!HasData(entry, inode, x), ~Files!HasData(entry', inode', x)
      PROVE  \E m \in inside : entry[m] = Files!Hard(x)
  <2>1. PICK m \in Name : entry[m] = Files!Hard(x) /\ entry'[m] # entry[m] /\ inode[x].data
    BY <1>1, <1>3, LostNames
  <2>2. m \in ns
    BY <1>1, <2>1, Empties
  <2>3. CASE m \in inside
    BY <2>1, <2>3
  <2>4. CASE m \notin inside
    <3>1. m = n /\ entry[n].kind = "hard"
      BY <2>2, <2>4
    <3>2. Files!Led(n) = x /\ Files!Led(n) # 0
      BY <2>1, <3>1, LedTo, DirectoryAssumption
    <3>3. inode[x].kind = "package"
      BY <1>1, <3>2 DEF Files!Kind
    <3> QED BY <2>1, <3>3 DEF FilesInv
  <2> QED BY <2>3, <2>4
<1> QED BY <1>1, <1>2, <1>3 DEF Files!LossIsNamed, Files!Loses, Files!Asked, Files!Unasked

LEMMA RemovesHere ==
  ASSUME FilesInv, Files!remove_here
  PROVE  FilesInv' /\ Files!LossIsNamed
<1>1. command' = <<"remove_here", "dir">> /\ Files!Empty(Name) /\ inode' = inode
  BY DEF Files!remove_here, Files!Run
<1>2. FilesInv'
  BY <1>1, Empties, EntriesChange
<1> QED BY <1>1, <1>2 DEF Files!LossIsNamed, Files!Loses, Files!Asked, Files!Unasked

\* what is unlinked under the name that was given
LEMMA RemovesOne ==
  ASSUME FilesInv, NEW n \in Name, entry' \in [Name -> Entries], inode' = inode,
         \A m \in Name : entry'[m] # entry[m] => m = n,
         NEW c \in {"remove_file", "remove_symlink", "info_about_file"}, command' = <<c, n>>
  PROVE  FilesInv' /\ Files!LossIsNamed
<1>1. ASSUME NEW x \in Ino, Files!HasData(entry, inode, x), ~Files!HasData(entry', inode', x)
      PROVE  Files!Led(n) = x
  <2>1. PICK m \in Name : entry[m] = Files!Hard(x) /\ entry'[m] # entry[m]
    BY <1>1, LostNames
  <2>2. entry[n] = Files!Hard(x)
    BY <2>1
  <2>3. entry[n].kind # "soft"
    BY <2>2, EntryKinds
  <2> QED BY <2>2, <2>3, LedTo
<1>2. FilesInv'
  BY EntriesChange
<1> QED BY <1>1, <1>2 DEF Files!LossIsNamed, Files!Loses, Files!Asked, Files!Unasked

LEMMA RemovesFile ==
  ASSUME FilesInv, NEW n \in Name, Files!remove_file(n) \/ Files!info_about_file(n)
  PROVE  FilesInv' /\ Files!LossIsNamed
<1>1. Files!Empty({n}) /\ inode' = inode
  BY DEF Files!remove_file, Files!info_about_file
<1>2. command' = <<"remove_file", n>> \/ command' = <<"info_about_file", n>>
  BY DEF Files!remove_file, Files!info_about_file, Files!Run
<1>3. entry' \in [Name -> Entries] /\ \A m \in Name : entry'[m] # entry[m] => m = n
  BY <1>1, Empties
<1> QED BY <1>1, <1>2, <1>3, RemovesOne

LEMMA RemovesSymlink ==
  ASSUME FilesInv, NEW n \in Name, Files!remove_symlink(n)
  PROVE  FilesInv' /\ Files!LossIsNamed
<1>1. command' = <<"remove_symlink", n>> /\ entry' = [entry EXCEPT ![n] = Files!Nothing] /\ inode' = inode
  BY DEF Files!remove_symlink, Files!Run, Files!Become
<1>2. entry' \in [Name -> Entries] /\ \A m \in Name : entry'[m] # entry[m] => m = n
  BY <1>1 DEF FilesInv, Entries
<1> QED BY <1>1, <1>2, RemovesOne

LEMMA CreatesLink ==
  ASSUME FilesInv, NEW n \in Name, Files!create_symlink(n) \/ Files!create_hardlink(n)
  PROVE  FilesInv' /\ Files!LossIsNamed
<1>0. entry \in [Name -> Entries] /\ inode' = inode
  BY DEF FilesInv, Files!create_symlink, Files!create_hardlink
<1>1. PICK m \in Name : /\ entry[m].kind = "none"
                        /\ \E v \in Entries : entry' = [entry EXCEPT ![m] = v]
  <2>1. CASE Files!create_symlink(n)
    BY <2>1, DirectoryAssumption DEF Files!create_symlink, Files!Become, Entries
  <2>2. CASE Files!create_hardlink(n)
    BY <2>2, <1>0, DirectoryAssumption DEF Files!create_hardlink, Files!Become
  <2> QED BY <2>1, <2>2
<1>2. /\ entry' \in [Name -> Entries]
      /\ \A k \in Name : entry'[k] = entry[k] \/ entry[k].kind # "hard"
  BY <1>0, <1>1
<1> QED BY <1>0, <1>2, EntriesStay, EntriesChange

LEMMA RemovesHardlink ==
  ASSUME FilesInv, NEW n \in Name, Files!remove_hardlink(n)
  PROVE  FilesInv' /\ Files!LossIsNamed
<1>0. /\ command' = <<"remove_hardlink", n>> /\ Files!Led(n) # 0 /\ inode' = inode
      /\ entry \in [Name -> Entries]
  BY DEF FilesInv, Files!remove_hardlink, Files!Run
<1> DEFINE same == {m \in Name \ {n} : /\ Files!Led(m) = Files!Led(n)
                                       /\ ~(entry[m].kind = "hard" /\ Files!Kind(m) = "package")}
<1>1. \E kept \in SUBSET same : entry' = [m \in Name |-> IF m \in same \ kept THEN Files!Nothing ELSE entry[m]]
  BY DEF Files!remove_hardlink
<1>2. entry' \in [Name -> Entries] /\ \A m \in Name : entry'[m] # entry[m] => m \in same
  BY <1>0, <1>1 DEF Entries
<1>3. FilesInv'
  BY <1>0, <1>2, EntriesChange
<1>4. ASSUME NEW x \in Ino, Files!HasData(entry, inode, x), ~Files!HasData(entry', inode', x)
      PROVE  Files!Led(n) = x /\ entry[n].kind = "soft"
  <2>1. PICK m \in Name : entry[m] = Files!Hard(x) /\ entry'[m] # entry[m]
    BY <1>0, <1>4, LostNames
  <2>2. m \in same /\ Files!Led(m) = x
    BY <1>2, <2>1, EntryKinds, LedTo
  <2>3. Files!Led(n) = x
    BY <2>2
  <2>4. ASSUME entry[n].kind # "soft" PROVE FALSE
    <3>1. entry[n].kind = "hard"
      BY <1>0, <2>4, EntryKinds, LedTo
    <3>2. entry[n] = Files!Hard(x)
      BY <2>3, <2>4, <3>1, LedTo
    <3>3. entry'[n] # entry[n]
      BY <1>0, <1>4, <3>2, LostNames
    <3> QED BY <1>2, <3>3
  <2> QED BY <2>3, <2>4
<1> QED BY <1>0, <1>3, <1>4 DEF Files!LossIsNamed, Files!Loses, Files!Asked, Files!Unasked

LEMMA ChangesNode ==
  ASSUME FilesInv, NEW n \in Name, Files!change_rights(n) \/ Files!Edit(n)
  PROVE  FilesInv' /\ Files!LossIsNamed
<1>0. entry \in [Name -> Entries] /\ inode \in [Ino -> Nodes] /\ entry' = entry
  BY DEF FilesInv, Files!change_rights, Files!Edit
<1>1. CASE Files!change_rights(n)
  <2>1. PICK v \in SUBSET {"r", "w"} : inode' = [inode EXCEPT ![Files!Led(n)].rights = v]
    BY <1>1, DirectoryAssumption DEF Files!change_rights
  <2>2. \A x \in Ino : inode[x].data => inode'[x].data
    BY <1>0, <2>1 DEF Nodes
  <2> QED BY <1>0, <2>1, <2>2, EntriesStay, NodeChanges
<1>2. CASE Files!Edit(n)
  <2>1. inode' = [inode EXCEPT ![Files!Led(n)].data = TRUE] /\ Files!Kind(n) = "file"
    BY <1>2 DEF Files!Edit
  <2>2. inode[Files!Led(n)].kind # "package"
    BY <2>1 DEF Files!Kind
  <2>3. \A x \in Ino : inode[x].data => inode'[x].data
    BY <1>0, <2>1 DEF Nodes
  <2> QED BY <1>0, <2>1, <2>2, <2>3, EntriesStay, NodeChanges
<1> QED BY <1>1, <1>2

LEMMA FilesStep ==
  /\ FilesInv /\ Files!Next => FilesInv' /\ Files!LossIsNamed
  /\ FilesInv /\ UNCHANGED filesV => FilesInv'
<1>1. FilesInv /\ UNCHANGED filesV => FilesInv'
  BY DEF FilesInv, filesV
<1> QED BY <1>1, CreatesFile, CreatesDir, RemovesDir, RemovesHere, RemovesFile, RemovesSymlink,
           CreatesLink, RemovesHardlink, ChangesNode DEF Files!Next

(* The file commands (main1.c) lose data in the seven ways that the        *)
(* property lists and in no other, for any names, links, packages and      *)
(* rights.                                                                 *)
THEOREM DataIsLostByName == AllSpec => NamedDataLost
<1>1. AllInit => FilesInv
  BY FilesStart DEF AllInit
<1>2. FilesInv /\ [AllNext]_allVars => FilesInv' /\ [Files!LossIsNamed]_filesV
  BY FilesStep DEF AllNext, allVars, filesV, ForkNext, PipeNext, RingNext, UdpNext, TcpNext, CopyNext, FilesNext
<1>3. AllSpec => [][Files!LossIsNamed]_filesV
  BY <1>1, <1>2, PTL DEF AllSpec
<1> QED BY <1>3, PTL DEF NamedDataLost, Files!NamedDataLost, Files!fileVars, filesV
-----------------------------------------------------------------------------
(* The thread programs of the second semester: the states of a thread and  *)
(* of a block, and the calls that a thread does not go on from.            *)
Lives == {"none", "run", "done", "returned", "failed"}
States == {"none", "live", "null", "freed"}
ThreadRec == [life : Lives, at : Int, detached : BOOLEAN, cancelled : BOOLEAN,
              cleanup : SUBSET Block, mask : SUBSET SIGNALS]

Stops == {"return", "fail", "exit", "pause", "sigwait"}

(* Every call of a script has a call to go on with, and its arguments are  *)
(* threads and blocks that there are.                                      *)
WellFormed(c) ==
  /\ 1 \in DOMAIN c /\ DOMAIN c \subseteq Nat \ {0}
  /\ \A k \in DOMAIN c :
       /\ c[k][1] \notin Stops \cup {"goto"} => k + 1 \in DOMAIN c
       /\ c[k][1] \in {"goto", "ifset"} => c[k][2] \in DOMAIN c
       /\ c[k][1] \in {"ifnull", "create", "spawn"} => c[k][3] \in DOMAIN c \cup {0}
       /\ c[k][1] = "ifnull" => c[k][3] # 0
       /\ c[k][1] \in {"create", "spawn"} => c[k][2] \in Workers \cup {0}
       /\ c[k][1] \in {"join", "cancel", "claim"} => c[k][2] \in Workers
       /\ c[k][1] \in {"malloc", "free", "push"} => c[k][2] \in Block

AllWellFormed(p) == WellFormed(p.main) /\ \A w \in Workers : WellFormed(p.work[w])

(* The second part of a concatenation.                                     *)
LEMMA SecondPart ==
  ASSUME NEW S, NEW s1 \in Seq(S), NEW s2 \in Seq(S)
  PROVE  /\ s1 \o s2 \in Seq(S) /\ Len(s1 \o s2) = Len(s1) + Len(s2)
         /\ Len(s1) \in Nat /\ Len(s2) \in Nat
         /\ \A k \in 1..Len(s1) : (s1 \o s2)[k] = s1[k]
         /\ \A k \in 1..Len(s2) : (s1 \o s2)[Len(s1) + k] = s2[k]
<1>1. Len(s1) \in Nat /\ Len(s2) \in Nat
  BY LenProperties
<1>2. \A n \in 1..Len(s1) + Len(s2) : (s1 \o s2)[n] = IF n <= Len(s1) THEN s1[n] ELSE s2[n - Len(s1)]
  BY ConcatProperties
<1>3. ASSUME NEW k \in 1..Len(s2) PROVE (s1 \o s2)[Len(s1) + k] = s2[k]
  <2> DEFINE n == Len(s1) + k
  <2>1. n \in 1..Len(s1) + Len(s2) /\ ~(n <= Len(s1)) /\ n - Len(s1) = k
    BY <1>1
  <2> HIDE DEF n
  <2>2. (s1 \o s2)[n] = s2[k]
    BY <1>2, <2>1
  <2> QED BY <2>2 DEF n
<1>4. \A k \in 1..Len(s1) : (s1 \o s2)[k] = s1[k]
  BY <1>1, <1>2
<1> QED BY <1>1, <1>3, <1>4, ConcatProperties

(* main of thread.c and test_dead_threads.c, whose lengths depend on Few   *)
LEMMA SelfIdsMain ==
  /\ DOMAIN SelfIds.main = 1..3 * Few + 2
  /\ \A w \in 1..Few : /\ SelfIds.main[w] = <<"create", w, 3 * Few + 2>>
                       /\ SelfIds.main[Few + w] = <<"join", w>>
                       /\ SelfIds.main[2 * Few + w] = <<"claim", w>>
  /\ SelfIds.main[3 * Few + 1] = <<"return">> /\ SelfIds.main[3 * Few + 2] = <<"fail">>
<1> DEFINE a == [w \in 1..Few |-> <<"create", w, 3 * Few + 2>>]
           b == [w \in 1..Few |-> <<"join", w>>]
           c == [w \in 1..Few |-> <<"claim", w>>]
           d == << <<"return">>, <<"fail">> >>
<1>1. SelfIds.main = a \o b \o c \o d
  BY DEF SelfIds, ForEach
<1>2. Few \in Nat
  BY ThreadAssumption
<1>3. /\ Len(a) = Few /\ Len(b) = Few /\ Len(c) = Few /\ Len(d) = 2
  BY <1>2
<1> DEFINE S == {<<"create", w, 3 * Few + 2>> : w \in 1..Few} \cup {<<"join", w>> : w \in 1..Few}
                \cup {<<"claim", w>> : w \in 1..Few} \cup { <<"return">>, <<"fail">> }
<1>4. a \in [1..Few -> S] /\ b \in [1..Few -> S] /\ c \in [1..Few -> S] /\ d \in [1..2 -> S]
  OBVIOUS
<1>5. a \in Seq(S) /\ b \in Seq(S) /\ c \in Seq(S) /\ d \in Seq(S)
  BY <1>2, <1>4, SeqDef
<1>6. /\ \A w \in 1..Few : a[w] = <<"create", w, 3 * Few + 2>> /\ b[w] = <<"join", w>> /\ c[w] = <<"claim", w>>
      /\ d[1] = <<"return">> /\ d[2] = <<"fail">>
  OBVIOUS
<1> HIDE DEF a, b, c, d, S
<1> DEFINE ab == a \o b
           abc == ab \o c
<1>7. /\ ab \in Seq(S) /\ Len(ab) = 2 * Few
      /\ \A w \in 1..Few : ab[w] = a[w] /\ ab[Few + w] = b[w]
  <2>1. ab \in Seq(S) /\ Len(ab) = Len(a) + Len(b)
    BY <1>5, SecondPart
  <2>2. \A w \in 1..Len(a) : ab[w] = a[w]
    BY <1>5, SecondPart
  <2>3. \A w \in 1..Len(b) : ab[Len(a) + w] = b[w]
    BY <1>5, SecondPart
  <2> HIDE DEF ab
  <2> QED BY <1>2, <1>3, <2>1, <2>2, <2>3
<1> HIDE DEF ab
<1>8. /\ abc \in Seq(S) /\ Len(abc) = 3 * Few
      /\ \A w \in 1..2 * Few : abc[w] = ab[w]
      /\ \A w \in 1..Few : abc[2 * Few + w] = c[w]
  <2>1. abc \in Seq(S) /\ Len(abc) = Len(ab) + Len(c)
    BY <1>5, <1>7, SecondPart
  <2>2. \A w \in 1..Len(ab) : abc[w] = ab[w]
    BY <1>5, <1>7, SecondPart
  <2>3. \A w \in 1..Len(c) : abc[Len(ab) + w] = c[w]
    BY <1>5, <1>7, SecondPart
  <2> HIDE DEF abc
  <2> QED BY <1>2, <1>3, <1>7, <2>1, <2>2, <2>3
<1> HIDE DEF abc
<1>9. /\ Len(abc \o d) = 3 * Few + 2 /\ abc \o d \in Seq(S)
      /\ \A w \in 1..3 * Few : (abc \o d)[w] = abc[w]
      /\ (abc \o d)[3 * Few + 1] = d[1] /\ (abc \o d)[3 * Few + 2] = d[2]
  <2> DEFINE abcd == abc \o d
  <2>1. abcd \in Seq(S) /\ Len(abcd) = Len(abc) + Len(d)
    BY <1>5, <1>8, SecondPart
  <2>2. \A w \in 1..Len(abc) : abcd[w] = abc[w]
    BY <1>5, <1>8, SecondPart
  <2>3. \A w \in 1..Len(d) : abcd[Len(abc) + w] = d[w]
    BY <1>5, <1>8, SecondPart
  <2> HIDE DEF abcd
  <2>4. Len(abcd) = 3 * Few + 2 /\ \A w \in 1..3 * Few : abcd[w] = abc[w]
    BY <1>2, <1>3, <1>8, <2>1, <2>2
  <2>5. abcd[3 * Few + 1] = d[1] /\ abcd[3 * Few + 2] = d[2]
    BY <1>2, <1>3, <1>8, <2>3
  <2> QED BY <2>1, <2>4, <2>5 DEF abcd
<1>10. SelfIds.main = abc \o d
  BY <1>1 DEF abc, ab
<1>11. DOMAIN SelfIds.main = 1..3 * Few + 2
  BY <1>9, <1>10, LenProperties
<1>12. ASSUME NEW w \in 1..Few
       PROVE  /\ SelfIds.main[w] = a[w] /\ SelfIds.main[Few + w] = b[w]
              /\ SelfIds.main[2 * Few + w] = c[w]
  BY <1>2, <1>7, <1>8, <1>9, <1>10
<1> QED BY <1>6, <1>9, <1>10, <1>11, <1>12

LEMMA TestDeadMain ==
  /\ DOMAIN TestDeadThreads.main = 1..Few + 2
  /\ \A w \in 1..Few : TestDeadThreads.main[w] = <<"create", 0, Few + 2>>
  /\ TestDeadThreads.main[Few + 1] = <<"return">> /\ TestDeadThreads.main[Few + 2] = <<"fail">>
<1> DEFINE a == [w \in 1..Few |-> <<"create", 0, Few + 2>>]
           d == << <<"return">>, <<"fail">> >>
           S == { <<"create", 0, Few + 2>>, <<"return">>, <<"fail">> }
<1>1. TestDeadThreads.main = a \o d
  BY DEF TestDeadThreads, ForEach
<1>2. Few \in Nat
  BY ThreadAssumption
<1>3. Len(a) = Few /\ Len(d) = 2
  BY <1>2
<1>4. a \in [1..Few -> S] /\ d \in [1..2 -> S]
  OBVIOUS
<1>5. a \in Seq(S) /\ d \in Seq(S)
  BY <1>2, <1>4, SeqDef
<1>6. /\ \A w \in 1..Few : a[w] = <<"create", 0, Few + 2>>
      /\ d[1] = <<"return">> /\ d[2] = <<"fail">>
  OBVIOUS
<1> HIDE DEF a, d, S
<1> DEFINE ad == a \o d
<1>7. ad \in Seq(S) /\ Len(ad) = Len(a) + Len(d)
  BY <1>5, SecondPart
<1>8. \A w \in 1..Len(a) : ad[w] = a[w]
  BY <1>5, SecondPart
<1>9. \A w \in 1..Len(d) : ad[Len(a) + w] = d[w]
  BY <1>5, SecondPart
<1> HIDE DEF ad
<1>10. DOMAIN ad = 1..Few + 2
  BY <1>3, <1>7, LenProperties
<1>11. ad[Few + 1] = d[1] /\ ad[Few + 2] = d[2]
  BY <1>3, <1>9
<1>12. TestDeadThreads.main = ad
  BY <1>1 DEF ad
<1> QED BY <1>3, <1>6, <1>8, <1>10, <1>11, <1>12

LEMMA SelfIdsParts ==
  ASSUME NEW k \in 1..3 * Few + 2
      PROVE  \/ k \in 1..Few /\ SelfIds.main[k] = <<"create", k, 3 * Few + 2>>
             \/ k \in Few + 1..2 * Few /\ SelfIds.main[k] = <<"join", k - Few>>
             \/ k \in 2 * Few + 1..3 * Few /\ SelfIds.main[k] = <<"claim", k - 2 * Few>>
             \/ k = 3 * Few + 1 /\ SelfIds.main[k] = <<"return">>
             \/ k = 3 * Few + 2 /\ SelfIds.main[k] = <<"fail">>
<1>1. k \in 1..Few \/ k \in Few + 1..2 * Few \/ k \in 2 * Few + 1..3 * Few \/ k = 3 * Few + 1 \/ k = 3 * Few + 2
  BY ThreadAssumption
<1>2. ASSUME k \in Few + 1..2 * Few PROVE SelfIds.main[k] = <<"join", k - Few>>
  <2> DEFINE w == k - Few
  <2>1. w \in 1..Few /\ k = Few + w
    BY <1>2, ThreadAssumption
  <2> HIDE DEF w
  <2>2. SelfIds.main[k] = <<"join", w>>
    BY <2>1, SelfIdsMain
  <2> QED BY <2>2 DEF w
<1>3. ASSUME k \in 2 * Few + 1..3 * Few PROVE SelfIds.main[k] = <<"claim", k - 2 * Few>>
  <2> DEFINE w == k - 2 * Few
  <2>1. w \in 1..Few /\ k = 2 * Few + w
    BY <1>3, ThreadAssumption
  <2> HIDE DEF w
  <2>2. SelfIds.main[k] = <<"claim", w>>
    BY <2>1, SelfIdsMain
  <2> QED BY <2>2 DEF w
<1> QED BY <1>1, <1>2, <1>3, SelfIdsMain

LEMMA SelfIdsForm == AllWellFormed(SelfIds)
<1>1. WellFormed(SelfIds.main)
  <2> DEFINE c == SelfIds.main
  <2>1. \A k \in 1..3 * Few + 2 :
          \/ k \in 1..Few /\ c[k] = <<"create", k, 3 * Few + 2>>
          \/ k \in Few + 1..2 * Few /\ c[k] = <<"join", k - Few>>
          \/ k \in 2 * Few + 1..3 * Few /\ c[k] = <<"claim", k - 2 * Few>>
          \/ k = 3 * Few + 1 /\ c[k] = <<"return">>
          \/ k = 3 * Few + 2 /\ c[k] = <<"fail">>
    BY SelfIdsParts
  <2>2. DOMAIN c = 1..3 * Few + 2
    BY SelfIdsMain
  <2> HIDE DEF c
  <2>3. WellFormed(c)
    BY <2>1, <2>2, ThreadAssumption DEF WellFormed, Stops, Workers
  <2> QED BY <2>3 DEF c
<1>2. \A w \in Workers : WellFormed(SelfIds.work[w])
  <2>1. SelfIds.work = [w \in Workers |-> << <<"use", "frame">>, <<"use", "frame">>, <<"return">> >>]
    BY DEF SelfIds, Each
  <2> QED BY <2>1 DEF WellFormed, Stops, Block
<1> QED BY <1>1, <1>2 DEF AllWellFormed

LEMMA TestDeadForm == AllWellFormed(TestDeadThreads)
<1>1. WellFormed(TestDeadThreads.main)
  <2> DEFINE c == TestDeadThreads.main
  <2>1. ASSUME NEW k \in 1..Few + 2
        PROVE  \/ k \in 1..Few /\ c[k] = <<"create", 0, Few + 2>>
               \/ k = Few + 1 /\ c[k] = <<"return">>
               \/ k = Few + 2 /\ c[k] = <<"fail">>
    BY TestDeadMain, ThreadAssumption
  <2>2. DOMAIN c = 1..Few + 2
    BY TestDeadMain
  <2> HIDE DEF c
  <2>3. WellFormed(c)
    BY <2>1, <2>2, ThreadAssumption DEF WellFormed, Stops, Workers
  <2> QED BY <2>3 DEF c
<1>2. \A w \in Workers : WellFormed(TestDeadThreads.work[w])
  <2>1. TestDeadThreads.work = [w \in Workers |-> << <<"return">> >>]
    BY DEF TestDeadThreads, Each
  <2> QED BY <2>1 DEF WellFormed, Stops, Block
<1> QED BY <1>1, <1>2 DEF AllWellFormed

(* The programs by their names.                                            *)
LEMMA Titles ==
  /\ DOMAIN Script = {"wait_thread", "num_thread", "str_thread", "struct_thread", "struct_thread_stack", "struct_main", 
                      "thread", "stack_size", "hello", "thread_cancel", "thread_cancel_count", "thread_cancel_malloc", 
                      "break_limit", "break_limit_2", "break_limit_3", "while_overflow_thread", "while_thread", "create_DETACHED", 
                      "test_dead_threads", "measure_tail", "thread_mem", "destroy_main_stack", "bench_lock", "signal", 
                      "handler_signal"}
  /\ Script["wait_thread"] = WaitThread
  /\ Script["num_thread"] = NumThread
  /\ Script["str_thread"] = StrThread
  /\ Script["struct_thread"] = StructThread
  /\ Script["struct_thread_stack"] = StructThreadStack
  /\ Script["struct_main"] = StructMain
  /\ Script["thread"] = SelfIds
  /\ Script["stack_size"] = StackSize
  /\ Script["hello"] = HelloThread
  /\ Script["thread_cancel"] = ThreadCancel
  /\ Script["thread_cancel_count"] = ThreadCancelCount
  /\ Script["thread_cancel_malloc"] = ThreadCancelMalloc
  /\ Script["break_limit"] = BreakLimit
  /\ Script["break_limit_2"] = BreakLimit2
  /\ Script["break_limit_3"] = BreakLimit3
  /\ Script["while_overflow_thread"] = WhileOverflowThread
  /\ Script["while_thread"] = WhileThread
  /\ Script["create_DETACHED"] = CreateDetached
  /\ Script["test_dead_threads"] = TestDeadThreads
  /\ Script["measure_tail"] = MeasureTail
  /\ Script["thread_mem"] = ThreadMem
  /\ Script["destroy_main_stack"] = DestroyMainStack
  /\ Script["bench_lock"] = BenchLock
  /\ Script["signal"] = Signals
  /\ Script["handler_signal"] = HandlerSignal
BY DEF Script

LEMMA ScriptsForm == \A p \in DOMAIN Script : AllWellFormed(Script[p])
<1>1. AllWellFormed(SelfIds) /\ AllWellFormed(TestDeadThreads)
  BY SelfIdsForm, TestDeadForm
<1>2. AllWellFormed(WaitThread)
  BY ThreadAssumption DEF WaitThread, AllWellFormed, WellFormed, Stops, Workers, Block, Each
<1>3. AllWellFormed(NumThread)
  BY ThreadAssumption DEF NumThread, NumWork, AllWellFormed, WellFormed, Stops, Workers, Block, Each
<1>4. AllWellFormed(StrThread)
  BY ThreadAssumption DEF StrThread, AllWellFormed, WellFormed, Stops, Workers, Block, Each
<1>5. AllWellFormed(StructThread)
  BY ThreadAssumption DEF StructThread, StructOwner, AllWellFormed, WellFormed, Stops, Workers, Block, Each
<1>6. AllWellFormed(StructThreadStack)
  BY ThreadAssumption DEF StructThreadStack, AllWellFormed, WellFormed, Stops, Workers, Block, Each
<1>7. AllWellFormed(StructMain)
  BY ThreadAssumption DEF StructMain, AllWellFormed, WellFormed, Stops, Workers, Block, Each
<1>8. AllWellFormed(StackSize)
  BY ThreadAssumption DEF StackSize, AllWellFormed, WellFormed, Stops, Workers, Block, Each
<1>9. AllWellFormed(HelloThread)
  BY ThreadAssumption DEF HelloThread, AllWellFormed, WellFormed, Stops, Workers, Block, Each
<1>10. AllWellFormed(ThreadCancel)
  BY ThreadAssumption DEF ThreadCancel, AllWellFormed, WellFormed, Stops, Workers, Block, Each
<1>11. AllWellFormed(ThreadCancelCount)
  BY ThreadAssumption DEF ThreadCancelCount, AllWellFormed, WellFormed, Stops, Workers, Block, Each
<1>12. AllWellFormed(ThreadCancelMalloc)
  BY ThreadAssumption DEF ThreadCancelMalloc, AllWellFormed, WellFormed, Stops, Workers, Block, Each
<1>13. AllWellFormed(BreakLimit)
  BY ThreadAssumption DEF BreakLimit, Loop, AllWellFormed, WellFormed, Stops, Workers, Block, Each
<1>14. AllWellFormed(BreakLimit2)
  BY ThreadAssumption DEF BreakLimit2, Loop, AllWellFormed, WellFormed, Stops, Workers, Block, Each
<1>15. AllWellFormed(BreakLimit3)
  BY ThreadAssumption DEF BreakLimit3, Loop, AllWellFormed, WellFormed, Stops, Workers, Block, Each
<1>16. AllWellFormed(WhileOverflowThread)
  BY ThreadAssumption DEF WhileOverflowThread, Loop, AllWellFormed, WellFormed, Stops, Workers, Block, Each
<1>17. AllWellFormed(WhileThread)
  BY ThreadAssumption DEF WhileThread, Loop, AllWellFormed, WellFormed, Stops, Workers, Block, Each
<1>18. AllWellFormed(CreateDetached)
  BY ThreadAssumption DEF CreateDetached, Loop, AllWellFormed, WellFormed, Stops, Workers, Block, Each
<1>19. AllWellFormed(MeasureTail)
  BY ThreadAssumption DEF MeasureTail, TailWork, AllWellFormed, WellFormed, Stops, Workers, Block, Each
<1>20. AllWellFormed(ThreadMem)
  BY ThreadAssumption DEF ThreadMem, AllWellFormed, WellFormed, Stops, Workers, Block, Each
<1>21. AllWellFormed(DestroyMainStack)
  BY ThreadAssumption DEF DestroyMainStack, AllWellFormed, WellFormed, Stops, Workers, Block, Each
<1>22. AllWellFormed(BenchLock)
  BY ThreadAssumption DEF BenchLock, AllWellFormed, WellFormed, Stops, Workers, Block, Each
<1>23. AllWellFormed(Signals)
  BY ThreadAssumption DEF Signals, SignalThreads, AllWellFormed, WellFormed, Stops, Workers, Block, Each
<1>24. AllWellFormed(HandlerSignal)
  BY ThreadAssumption DEF HandlerSignal, Signals, SignalThreads, AllWellFormed, WellFormed, Stops, Workers, Block, Each
<1> QED BY Titles, <1>1, <1>2, <1>3, <1>4, <1>5, <1>6, <1>7, <1>8, <1>9, <1>10, <1>11, <1>12, <1>13, <1>14, <1>15, <1>16, <1>17, <1>18, <1>19, <1>20, <1>21, <1>22, <1>23, <1>24

-----------------------------------------------------------------------------
(* Types, and every thread is at a call of its own.                        *)
Types == /\ program \in DOMAIN Script
         /\ thread \in [Thread -> ThreadRec]
         /\ mem \in [Block -> States]
         /\ sig \in [pending : SUBSET SIGNALS, handler : BOOLEAN, ranIn : SUBSET Thread]

Located == \A t \in Thread : thread[t].at \in DOMAIN Code(t)

(* What main and the workers run is well formed.                           *)
LEMMA CodeForm ==
  ASSUME Types
  PROVE  \A t \in Thread : WellFormed(Code(t))
<1>1. AllWellFormed(Script[program])
  BY ScriptsForm DEF Types
<1> QED BY <1>1 DEF AllWellFormed, Code, Thread

LEMMA Called ==
  ASSUME Types, Located, NEW t \in Thread
  PROVE  /\ Op(t) = Code(t)[thread[t].at] /\ thread[t].at \in DOMAIN Code(t)
         /\ Op(t)[1] \notin Stops \cup {"goto"} => thread[t].at + 1 \in DOMAIN Code(t)
         /\ Op(t)[1] \in {"goto", "ifset"} => Op(t)[2] \in DOMAIN Code(t)
         /\ Op(t)[1] \in {"ifnull", "create", "spawn"} => Op(t)[3] \in DOMAIN Code(t) \cup {0}
         /\ Op(t)[1] = "ifnull" => Op(t)[3] # 0
         /\ Op(t)[1] \in {"create", "spawn"} => Op(t)[2] \in Workers \cup {0}
         /\ Op(t)[1] \in {"join", "cancel", "claim"} => Op(t)[2] \in Workers
         /\ Op(t)[1] \in {"malloc", "free", "push"} => Op(t)[2] \in Block
BY CodeForm DEF Located, WellFormed, Op

(* main starts a worker that was not there.                                *)
LEMMA CreateStep ==
  ASSUME Types, Located, Create
  PROVE  /\ Is(0, "create") \/ Is(0, "spawn")
         /\ \E w \in Workers :
              /\ Arg(0) \in {0, w} /\ thread[w].life = "none"
              /\ thread' = Started(w, FALSE) \/ thread' = Started(w, TRUE)
              /\ thread'[0] = [thread[0] EXCEPT !.at = thread[0].at + 1]
              /\ \A u \in Thread \ {0, w} : thread'[u] = thread[u]
              /\ thread'[w].life = "run" /\ thread'[w].at = 1 /\ thread'[w].cleanup = {}
              /\ thread'[w].mask = thread[0].mask /\ ~thread'[w].cancelled
              /\ (Op(0)[1] = "create" => thread'[w].detached = FALSE)
              /\ (Op(0)[1] = "spawn" => thread'[w].detached = TRUE)
         /\ UNCHANGED <<program, mem, sync, sig, over>>
<1>1. 0 \in Thread /\ Workers \subseteq Thread /\ Thread = DOMAIN thread /\ 0 \notin Workers
  BY ThreadAssumption DEF Thread, Types, Workers
<1>2. PICK w \in Places, d \in BOOLEAN : /\ thread[w].life = "none" /\ thread' = Started(w, d)
                                         /\ (d = FALSE /\ Op(0)[1] = "create") \/ (d = TRUE /\ Op(0)[1] = "spawn")
  BY DEF Create, Is
<1>3. Is(0, "create") \/ Is(0, "spawn")
  BY DEF Create
<1>4. w \in Workers /\ Arg(0) \in {0, w}
  BY <1>1, <1>2, <1>3, Called DEF Places, Arg, Is
<1>5. \A b \in BOOLEAN : LET th == Started(w, b) IN
         /\ th[0] = [thread[0] EXCEPT !.at = thread[0].at + 1]
         /\ \A u \in Thread \ {0, w} : th[u] = thread[u]
         /\ th[w].life = "run" /\ th[w].at = 1 /\ th[w].cleanup = {}
         /\ th[w].mask = thread[0].mask /\ ~th[w].cancelled /\ th[w].detached = b
  BY <1>1, <1>4 DEF Started, Beyond, At, Unborn, Types, ThreadRec
<1>6. UNCHANGED <<program, mem, sync, sig, over>>
  BY DEF Create
<1>7. /\ thread'[w].detached = d
      /\ thread'[0] = [thread[0] EXCEPT !.at = thread[0].at + 1]
      /\ \A u \in Thread \ {0, w} : thread'[u] = thread[u]
      /\ thread'[w].life = "run" /\ thread'[w].at = 1 /\ thread'[w].cleanup = {}
      /\ thread'[w].mask = thread[0].mask /\ ~thread'[w].cancelled
  BY <1>2, <1>5
<1>8. /\ (Op(0)[1] = "create" => thread'[w].detached = FALSE)
      /\ (Op(0)[1] = "spawn" => thread'[w].detached = TRUE)
  BY <1>2, <1>7, Zenon
<1>9. thread' = Started(w, FALSE) \/ thread' = Started(w, TRUE)
  BY <1>2, Zenon
<1> QED BY <1>2, <1>3, <1>4, <1>6, <1>7, <1>8, <1>9

LEMMA LocatedStep ==
  ASSUME Types, Located, Next
  PROVE  Located' /\ program' = program
<1>1. program' = program
  BY DEF Next, MainStep, ThreadStep, Create, CreateFails, Join, Cancel, WildId, MainReturns, SigAction,
         Return, Detach, Printf, Memory, NullPointer, Control, Synchronise, Mask, SigWait, Cancelled,
         ProcessEnds, Send, Deliver
<1>2. ASSUME NEW t \in Thread PROVE Code(t)' = Code(t)
  BY <1>1 DEF Code
<1>4. ASSUME NEW t \in Thread PROVE 1 \in DOMAIN Code(t)
  BY CodeForm DEF WellFormed
<1>5. \A t \in Thread : thread'[t].at \in DOMAIN Code(t)
  <2> USE DEF Is, Arg, Proceed, Beyond, At, Stops
  <2>0. 0 \in Thread /\ Workers \subseteq Thread /\ Thread = DOMAIN thread
    BY DEF Thread, Types
  <2>1. CASE Create
    <3>1. PICK w \in Workers : /\ thread'[0] = [thread[0] EXCEPT !.at = thread[0].at + 1]
                               /\ \A u \in Thread \ {0, w} : thread'[u] = thread[u]
                               /\ thread'[w].at = 1
      BY <2>1, CreateStep
    <3>2. thread'[0].at = thread[0].at + 1
      BY <2>0, <3>1 DEF Types, ThreadRec
    <3>3. thread[0].at + 1 \in DOMAIN Code(0)
      BY <2>0, <2>1, CreateStep, Called
    <3> QED BY <1>4, <2>0, <3>1, <3>2, <3>3 DEF Located
  <2>2. CASE CreateFails
    BY Called, <2>0, <2>2 DEF CreateFails, Located, Types, ThreadRec
  <2>3. CASE Join
    BY Called, <1>4, <2>0, <2>3 DEF Join, Unborn, Located, Types, ThreadRec
  <2>4. CASE Cancel \/ WildId
    BY Called, <2>0, <2>4 DEF Cancel, WildId, Located, Types, ThreadRec
  <2>5. CASE MainReturns \/ SigAction
    BY Called, <2>0, <2>5 DEF MainReturns, SigAction, Located, Types, ThreadRec
  <2>6. CASE ProcessEnds \/ Send \/ Deliver
    BY <2>6 DEF ProcessEnds, Send, Deliver, Located
  <2>7. ASSUME NEW t \in Thread, Return(t) \/ Detach(t) \/ Cancelled(t) 
        PROVE  \A u \in Thread : thread'[u].at \in DOMAIN Code(u)
    BY Called, <1>4, <2>7 DEF Return, Detach, Cancelled, Ended, Unborn, Located, Types, ThreadRec
  <2>8. ASSUME NEW t \in Thread, Printf(t) \/ Memory(t) \/ NullPointer(t) \/ Synchronise(t) \/ Mask(t) \/ SigWait(t)
        PROVE  \A u \in Thread : thread'[u].at \in DOMAIN Code(u)
    BY Called, <2>8 DEF Printf, Memory, NullPointer, Synchronise, Mask, SigWait, Located, Types, ThreadRec
  <2>9. ASSUME NEW t \in Thread, Control(t)
        PROVE  \A u \in Thread : thread'[u].at \in DOMAIN Code(u)
    BY Called, <2>9 DEF Control, Located, Types, ThreadRec
  <2> QED BY <2>1, <2>2, <2>3, <2>4, <2>5, <2>6, <2>7, <2>8, <2>9 DEF Next, MainStep, ThreadStep
<1> QED BY <1>1, <1>2, <1>5 DEF Located

LEMMA Records ==
  /\ Unborn \in ThreadRec
  /\ \A r \in ThreadRec :
       /\ \A k \in Int : [r EXCEPT !.at = k] \in ThreadRec
       /\ \A l \in Lives : [r EXCEPT !.life = l] \in ThreadRec
       /\ [r EXCEPT !.detached = TRUE] \in ThreadRec /\ [r EXCEPT !.cancelled = TRUE] \in ThreadRec
  /\ \A m \in SUBSET SIGNALS, d \in BOOLEAN :
       [Unborn EXCEPT !.life = "run", !.detached = d, !.mask = m] \in ThreadRec
<1>1. Unborn \in ThreadRec
  BY DEF Unborn, ThreadRec, Lives
<1>2. ASSUME NEW r \in ThreadRec
      PROVE  /\ \A k \in Int : [r EXCEPT !.at = k] \in ThreadRec
             /\ \A l \in Lives : [r EXCEPT !.life = l] \in ThreadRec
             /\ [r EXCEPT !.detached = TRUE] \in ThreadRec /\ [r EXCEPT !.cancelled = TRUE] \in ThreadRec
  BY DEF ThreadRec
<1>3. ASSUME NEW m \in SUBSET SIGNALS, NEW d \in BOOLEAN
      PROVE  [Unborn EXCEPT !.life = "run", !.detached = d, !.mask = m] \in ThreadRec
  <2> DEFINE r1 == [Unborn EXCEPT !.life = "run"]
             r2 == [r1 EXCEPT !.detached = d]
  <2>1. r1 \in ThreadRec
    BY <1>1, <1>2 DEF Lives
  <2>2. [Unborn EXCEPT !.life = "run", !.detached = d, !.mask = m] = [r2 EXCEPT !.mask = m]
    OBVIOUS
  <2> HIDE DEF r1
  <2>3. r2 \in ThreadRec
    BY <2>1 DEF ThreadRec
  <2> HIDE DEF r2
  <2>4. [r2 EXCEPT !.mask = m] \in ThreadRec
    BY <2>3 DEF ThreadRec
  <2> QED BY <2>2, <2>4, Zenon
<1> QED BY <1>1, <1>2, <1>3

LEMMA TypesStep ==
  ASSUME Types, Located, Next
  PROVE  Types'
<1> USE DEF Is, Arg, Proceed, Beyond, At
<1>0. 0 \in Thread /\ Workers \subseteq Thread /\ Thread = DOMAIN thread /\ 0 \notin Workers
  BY ThreadAssumption DEF Thread, Types, Workers
<1>1. program' \in DOMAIN Script
  BY LocatedStep DEF Types
<1>2. \A t \in Thread : thread[t] \in ThreadRec /\ thread[t].at + 1 \in Int
  BY DEF Types, ThreadRec
<1>3. \A t \in Thread : DOMAIN Code(t) \subseteq Int
  BY CodeForm DEF WellFormed
<1>4. thread' \in [Thread -> ThreadRec]
  <2>1. CASE Create
    <3>1. PICK w \in Workers : thread' = Started(w, FALSE) \/ thread' = Started(w, TRUE)
      BY <2>1, CreateStep
    <3> DEFINE r == [thread[0] EXCEPT !.at = thread[0].at + 1]
               n(d) == [Unborn EXCEPT !.life = "run", !.detached = d, !.mask = thread[0].mask]
    <3>2. r \in ThreadRec /\ \A d \in BOOLEAN : n(d) \in ThreadRec
      BY <1>0, <1>2, Records DEF ThreadRec
    <3>3. \A d \in BOOLEAN : Started(w, d) = [[thread EXCEPT ![0] = r] EXCEPT ![w] = n(d)]
      BY <1>0 DEF Started
    <3> HIDE DEF r, n
    <3>4. \A d \in BOOLEAN : [[thread EXCEPT ![0] = r] EXCEPT ![w] = n(d)] \in [Thread -> ThreadRec]
      BY <1>0, <3>2 DEF Types
    <3> QED BY <3>1, <3>3, <3>4
  <2>2. CASE CreateFails
    BY <1>0, <1>2, <1>3, Called, <2>2 DEF CreateFails, Types, ThreadRec
  <2>3. CASE Join
    <3> DEFINE r == [thread[0] EXCEPT !.at = thread[0].at + 1]
    <3>1. r \in ThreadRec
      BY <1>0, <1>2, Records
    <3>2. Op(0)[2] \in Workers /\ thread' = [[thread EXCEPT ![0] = r] EXCEPT ![Op(0)[2]] = Unborn]
      BY <1>0, <2>3, Called DEF Join
    <3> HIDE DEF r
    <3> QED BY <1>0, <3>1, <3>2, Records DEF Types
  <2>4. CASE Cancel \/ WildId
    <3> DEFINE r == [thread[0] EXCEPT !.at = thread[0].at + 1]
    <3>1. r \in ThreadRec
      BY <1>0, <1>2, Records
    <3>2. CASE WildId
      <4>1. thread' = [thread EXCEPT ![0] = r] \/ thread' = thread
        BY <1>0, <3>2 DEF WildId
      <4> HIDE DEF r
      <4> QED BY <1>0, <3>1, <4>1 DEF Types
    <3>3. CASE Cancel
      <4> DEFINE w == Op(0)[2]
                 th == [thread EXCEPT ![0] = r]
      <4>1. w \in Workers /\ thread' = [th EXCEPT ![w].cancelled = TRUE]
        BY <1>0, <3>3, Called DEF Cancel
      <4> HIDE DEF r, w
      <4>2. th \in [Thread -> ThreadRec]
        BY <1>0, <3>1 DEF Types
      <4> HIDE DEF th
      <4>3. [th[w] EXCEPT !.cancelled = TRUE] \in ThreadRec
        BY <1>0, <4>1, <4>2, Records
      <4> QED BY <1>0, <4>1, <4>2, <4>3
    <3> QED BY <2>4, <3>2, <3>3
  <2>5. CASE MainReturns \/ SigAction
    BY <1>0, <1>2, <2>5 DEF MainReturns, SigAction, Types, ThreadRec, Lives
  <2>6. CASE ProcessEnds \/ Send \/ Deliver
    BY <2>6 DEF ProcessEnds, Send, Deliver, Types
  <2>7. ASSUME NEW t \in Thread, Return(t) \/ Detach(t) \/ Cancelled(t)
        PROVE  thread' \in [Thread -> ThreadRec]
    <3>1. Ended(t) \in ThreadRec
      BY <1>2, Records DEF Ended, Lives
    <3>2. CASE Return(t) \/ Cancelled(t)
      BY <3>1, <3>2 DEF Return, Cancelled, Types
    <3>3. CASE Detach(t)
      <4> DEFINE r == [thread[t] EXCEPT !.at = thread[t].at + 1]
                 d == [r EXCEPT !.detached = TRUE]
      <4>1. r \in ThreadRec
        BY <1>2, Records
      <4>2. thread' = [[thread EXCEPT ![t] = r] EXCEPT ![t].detached = TRUE]
        BY <3>3 DEF Detach
      <4> HIDE DEF r
      <4>3. thread' = [thread EXCEPT ![t] = d] /\ d \in ThreadRec
        BY <1>0, <4>1, <4>2, Records
      <4> HIDE DEF d
      <4> QED BY <4>3 DEF Types
    <3> QED BY <2>7, <3>2, <3>3
  <2>8. ASSUME NEW t \in Thread, Printf(t) \/ Memory(t) \/ NullPointer(t) \/ Synchronise(t) \/ SigWait(t)
        PROVE  thread' \in [Thread -> ThreadRec]
    BY <1>2, <2>8 DEF Printf, Memory, NullPointer, Synchronise, SigWait, Types, ThreadRec
  <2>9. ASSUME NEW t \in Thread, Mask(t)
        PROVE  thread' \in [Thread -> ThreadRec]
    BY <1>2, <2>9 DEF Mask, Types, ThreadRec
  <2>10. ASSUME NEW t \in Thread, Control(t)
        PROVE  thread' \in [Thread -> ThreadRec]
    BY <1>2, <1>3, Called, <2>10 DEF Control, Types, ThreadRec
  <2> QED BY <2>1, <2>2, <2>3, <2>4, <2>5, <2>6, <2>7, <2>8, <2>9, <2>10 DEF Next, MainStep, ThreadStep
<1>5. mem' \in [Block -> States]
  <2>1. ASSUME NEW t \in Thread, Memory(t) PROVE mem' \in [Block -> States]
    BY <2>1, Called DEF Memory, Store, Types, States
  <2>2. ASSUME NEW t \in Thread, Cancelled(t) PROVE mem' \in [Block -> States]
    BY <2>2 DEF Cancelled, Types, States
  <2>3. ASSUME UNCHANGED mem PROVE mem' \in [Block -> States]
    BY <2>3 DEF Types
  <2> QED BY <2>1, <2>2, <2>3
      DEF Next, MainStep, ThreadStep, Create, CreateFails, Join, Cancel, WildId, MainReturns, SigAction,
          Return, Detach, Printf, NullPointer, Control, Synchronise, Mask, SigWait, ProcessEnds, Send, Deliver
<1>6. sig' \in [pending : SUBSET SIGNALS, handler : BOOLEAN, ranIn : SUBSET Thread]
  <2>1. CASE SigAction \/ Send
    <3>1. sig' = [sig EXCEPT !.handler = TRUE] \/ \E s \in SIGNALS : sig' = [sig EXCEPT !.pending = sig.pending \cup {s}]
      BY <2>1 DEF SigAction, Send
    <3>2. sig.pending \subseteq SIGNALS
      BY DEF Types
    <3>3. \A s \in SIGNALS : sig.pending \cup {s} \in SUBSET SIGNALS
      BY <3>2
    <3> QED BY <3>1, <3>3 DEF Types
  <2>2. ASSUME NEW t \in Thread, SigWait(t)
        PROVE  sig' \in [pending : SUBSET SIGNALS, handler : BOOLEAN, ranIn : SUBSET Thread]
    BY <2>2 DEF SigWait, Types
  <2>3. CASE Deliver
    <3>1. \/ sig' = sig
          \/ \E t \in Thread, s \in sig.pending :
               sig' = [sig EXCEPT !.pending = sig.pending \ {s}, !.ranIn = sig.ranIn \cup {t}]
      BY <2>3 DEF Deliver
    <3> QED BY <3>1 DEF Types
  <2>4. CASE UNCHANGED sig
    BY <2>4 DEF Types
  <2> QED BY <2>1, <2>2, <2>3, <2>4
      DEF Next, MainStep, ThreadStep, Create, CreateFails, Join, Cancel, WildId, MainReturns, Cancelled,
          Return, Detach, Printf, Memory, NullPointer, Control, Synchronise, Mask, ProcessEnds
<1> QED BY <1>1, <1>4, <1>5, <1>6 DEF Types

-----------------------------------------------------------------------------
(* From a join to a claim main goes straight: it starts no thread, and no  *)
(* call jumps in between.                                                  *)
JumpsTo(c, n, m) == \/ c[n][1] \in {"goto", "ifset"} /\ c[n][2] = m
                    \/ c[n][1] \in {"ifnull", "create", "spawn"} /\ c[n][3] = m

Straight(c, j, k) == /\ j < k /\ c[j][1] = "join"
                     /\ \A m \in DOMAIN c : j < m /\ m =< k =>
                          /\ c[m][1] \notin {"create", "spawn"}
                          /\ \A n \in DOMAIN c : ~JumpsTo(c, n, m)

ClaimsJoined(c) == \A k \in DOMAIN c : c[k][1] = "claim" =>
                     \E j \in DOMAIN c : Straight(c, j, k) /\ c[j][2] = c[k][2]

LEMMA SelfIdsClaims == ClaimsJoined(SelfIds.main)
<1> DEFINE c == SelfIds.main
<1>1. DOMAIN c = 1..3 * Few + 2 /\ Few \in Nat
  BY SelfIdsMain, ThreadAssumption
<1>2. ASSUME NEW k \in DOMAIN c
      PROVE  \/ k \in 1..Few /\ c[k] = <<"create", k, 3 * Few + 2>>
             \/ k \in Few + 1..2 * Few /\ c[k] = <<"join", k - Few>>
             \/ k \in 2 * Few + 1..3 * Few /\ c[k] = <<"claim", k - 2 * Few>>
             \/ k = 3 * Few + 1 /\ c[k] = <<"return">>
             \/ k = 3 * Few + 2 /\ c[k] = <<"fail">>
  BY <1>1, SelfIdsParts
<1> HIDE DEF c
<1>3. ASSUME NEW k \in DOMAIN c, c[k][1] = "claim"
      PROVE  \E j \in DOMAIN c : Straight(c, j, k) /\ c[j][2] = c[k][2]
  <2>1. k \in 2 * Few + 1..3 * Few /\ c[k][2] = k - 2 * Few
    BY <1>2, <1>3
  <2> DEFINE j == k - Few
  <2>2. j \in DOMAIN c /\ j \in Few + 1..2 * Few /\ j < k /\ j - Few = k - 2 * Few
    BY <1>1, <2>1
  <2> HIDE DEF j
  <2>3. c[j][1] = "join" /\ c[j][2] = c[k][2]
    BY <1>1, <1>2, <2>1, <2>2
  <2>4. ASSUME NEW m \in DOMAIN c, j < m, m =< k
        PROVE  c[m][1] \notin {"create", "spawn"} /\ \A n \in DOMAIN c : ~JumpsTo(c, n, m)
    <3>1. m \in Few + 1..3 * Few
      BY <1>1, <2>1, <2>2, <2>4
    <3>2. c[m][1] \in {"join", "claim"}
      BY <1>1, <1>2, <3>1
    <3>3. ASSUME NEW n \in DOMAIN c PROVE ~JumpsTo(c, n, m)
      BY <1>1, <1>2, <3>1 DEF JumpsTo
    <3> QED BY <3>2, <3>3
  <2> QED BY <2>2, <2>3, <2>4 DEF Straight
<1> QED BY <1>3 DEF ClaimsJoined, c

LEMMA TestDeadClaims == ClaimsJoined(TestDeadThreads.main)
<1> DEFINE c == TestDeadThreads.main
<1>1. DOMAIN c = 1..Few + 2 /\ Few \in Nat
  BY TestDeadMain, ThreadAssumption
<1>2. ASSUME NEW k \in 1..Few + 2
      PROVE  \/ k \in 1..Few /\ c[k] = <<"create", 0, Few + 2>>
             \/ k = Few + 1 /\ c[k] = <<"return">>
             \/ k = Few + 2 /\ c[k] = <<"fail">>
  BY TestDeadMain, ThreadAssumption
<1> HIDE DEF c
<1>3. \A k \in DOMAIN c : c[k][1] # "claim"
  BY <1>1, <1>2
<1> QED BY <1>3 DEF ClaimsJoined, c

LEMMA ScriptsClaims == \A p \in DOMAIN Script : ClaimsJoined(Script[p].main)
<1>1. ClaimsJoined(SelfIds.main) /\ ClaimsJoined(TestDeadThreads.main)
  BY SelfIdsClaims, TestDeadClaims
<1>2. ClaimsJoined(WaitThread.main)
  BY DEF WaitThread, ClaimsJoined, Straight, JumpsTo
<1>3. ClaimsJoined(NumThread.main)
  BY DEF NumThread, ClaimsJoined, Straight, JumpsTo
<1>4. ClaimsJoined(StrThread.main)
  BY DEF StrThread, ClaimsJoined, Straight, JumpsTo
<1>5. ClaimsJoined(StructThread.main)
  BY DEF StructThread, StructOwner, ClaimsJoined, Straight, JumpsTo
<1>6. ClaimsJoined(StructThreadStack.main)
  BY DEF StructThreadStack, ClaimsJoined, Straight, JumpsTo
<1>7. ClaimsJoined(StructMain.main)
  BY DEF StructMain, ClaimsJoined, Straight, JumpsTo
<1>8. ClaimsJoined(StackSize.main)
  BY DEF StackSize, ClaimsJoined, Straight, JumpsTo
<1>9. ClaimsJoined(HelloThread.main)
  BY DEF HelloThread, ClaimsJoined, Straight, JumpsTo
<1>10. ClaimsJoined(ThreadCancel.main)
  BY DEF ThreadCancel, ClaimsJoined, Straight, JumpsTo
<1>11. ClaimsJoined(ThreadCancelCount.main)
  BY DEF ThreadCancelCount, ClaimsJoined, Straight, JumpsTo
<1>12. ClaimsJoined(ThreadCancelMalloc.main)
  BY DEF ThreadCancelMalloc, ClaimsJoined, Straight, JumpsTo
<1>13. ClaimsJoined(BreakLimit.main)
  BY DEF BreakLimit, Loop, ClaimsJoined, Straight, JumpsTo
<1>14. ClaimsJoined(BreakLimit2.main)
  BY DEF BreakLimit2, Loop, ClaimsJoined, Straight, JumpsTo
<1>15. ClaimsJoined(BreakLimit3.main)
  BY DEF BreakLimit3, Loop, ClaimsJoined, Straight, JumpsTo
<1>16. ClaimsJoined(WhileOverflowThread.main)
  BY DEF WhileOverflowThread, Loop, ClaimsJoined, Straight, JumpsTo
<1>17. ClaimsJoined(WhileThread.main)
  BY DEF WhileThread, Loop, ClaimsJoined, Straight, JumpsTo
<1>18. ClaimsJoined(CreateDetached.main)
  BY DEF CreateDetached, Loop, ClaimsJoined, Straight, JumpsTo
<1>19. ClaimsJoined(MeasureTail.main)
  BY DEF MeasureTail, ClaimsJoined, Straight, JumpsTo
<1>20. ClaimsJoined(ThreadMem.main)
  BY DEF ThreadMem, ClaimsJoined, Straight, JumpsTo
<1>21. ClaimsJoined(DestroyMainStack.main)
  BY DEF DestroyMainStack, ClaimsJoined, Straight, JumpsTo
<1>22. ClaimsJoined(BenchLock.main)
  BY DEF BenchLock, ClaimsJoined, Straight, JumpsTo
<1>23. ClaimsJoined(Signals.main)
  BY DEF Signals, ClaimsJoined, Straight, JumpsTo
<1>24. ClaimsJoined(HandlerSignal.main)
  BY DEF HandlerSignal, Signals, ClaimsJoined, Straight, JumpsTo
<1> QED BY Titles, <1>1, <1>2, <1>3, <1>4, <1>5, <1>6, <1>7, <1>8, <1>9, <1>10, <1>11, <1>12, <1>13, <1>14, <1>15, <1>16, <1>17, <1>18, <1>19, <1>20, <1>21, <1>22, <1>23, <1>24

\* after a join, on the way to a claim, the thread is gone
Joined == \A j, k \in DOMAIN Code(0) :
            Straight(Code(0), j, k) /\ j < thread[0].at /\ thread[0].at =< k
            => thread[Code(0)[j][2]].life = "none"

(* Where a thread is after a step.                                         *)
LEMMA PlaceStep ==
  ASSUME Types, Located, Next, NEW t \in Thread, thread'[t].at # thread[t].at, thread[t].life # "none"
  PROVE  \/ thread'[t].at = thread[t].at + 1 /\ Running(t)
         \/ JumpsTo(Code(t), thread[t].at, thread'[t].at) /\ Running(t)
         \/ thread'[t].life = "none"
<1> USE DEF Is, Arg, Proceed, Beyond, At
<1>0. /\ 0 \in Thread /\ Workers \subseteq Thread /\ Thread = DOMAIN thread
      /\ Op(t) = Code(t)[thread[t].at] /\ Op(0) = Code(0)[thread[0].at]
  BY DEF Thread, Types, Op
<1>1. CASE Create
  <2>1. PICK w \in Workers : /\ thread'[0] = [thread[0] EXCEPT !.at = thread[0].at + 1]
                             /\ thread[w].life = "none"
                             /\ \A u \in Thread \ {0, w} : thread'[u] = thread[u]
    BY <1>1, CreateStep
  <2>2. t = 0 /\ Running(0)
    BY <1>1, <2>1, CreateStep
  <2> QED BY <1>0, <2>1, <2>2 DEF Types, ThreadRec
<1>2. CASE CreateFails
  BY <1>0, <1>2 DEF CreateFails, JumpsTo, Types, ThreadRec
<1>3. CASE Join
  BY <1>0, <1>3, Called DEF Join, Unborn, Types, ThreadRec
<1>4. CASE Cancel \/ WildId
  <2>1. CASE WildId
    BY <1>0, <2>1, Called DEF WildId, Types, ThreadRec
  <2>2. CASE Cancel
    <3>1. Op(0)[2] \in Workers /\ Running(0)
      BY <1>0, <2>2, Called DEF Cancel
    <3>2. thread' = [[thread EXCEPT ![0].at = thread[0].at + 1] EXCEPT ![Op(0)[2]].cancelled = TRUE]
      BY <2>2 DEF Cancel
    <3>3. t = 0 /\ thread'[0].at = thread[0].at + 1
      BY <1>0, <3>1, <3>2 DEF Types, ThreadRec
    <3> QED BY <3>1, <3>3
  <2> QED BY <1>4, <2>1, <2>2
<1>5. CASE MainReturns \/ SigAction
  BY <1>0, <1>5 DEF MainReturns, SigAction, Types, ThreadRec
<1>6. CASE ProcessEnds \/ Send \/ Deliver
  BY <1>6 DEF ProcessEnds, Send, Deliver
<1>7. ASSUME NEW u \in Thread, Return(u) \/ Detach(u) \/ Cancelled(u)
      PROVE  (thread'[t].at = thread[t].at + 1 /\ Running(t)) \/ thread'[t].life = "none"
  BY <1>0, <1>7 DEF Return, Detach, Cancelled, Ended, Unborn, Types, ThreadRec
<1>8. ASSUME NEW u \in Thread,
             Printf(u) \/ Memory(u) \/ NullPointer(u) \/ Synchronise(u) \/ Mask(u) \/ SigWait(u)
      PROVE  thread'[t].at = thread[t].at + 1 /\ Running(t)
  BY <1>0, <1>8 DEF Printf, Memory, NullPointer, Synchronise, Mask, SigWait, Types, ThreadRec
<1>9. ASSUME NEW u \in Thread, Control(u)
      PROVE  (thread'[t].at = thread[t].at + 1 \/ JumpsTo(Code(t), thread[t].at, thread'[t].at)) /\ Running(t)
  BY <1>0, <1>9, Called DEF Control, JumpsTo, Types, ThreadRec
<1> QED BY <1>1, <1>2, <1>3, <1>4, <1>5, <1>6, <1>7, <1>8, <1>9 DEF Next, MainStep, ThreadStep

(* A thread that is not there stays away unless main creates it.           *)
LEMMA AwayStep ==
  ASSUME Types, Located, Next, NEW w \in Thread, thread[w].life = "none"
  PROVE  \/ thread'[w] = thread[w] \/ thread'[w].life = "none"
         \/ Create /\ (Is(0, "create") \/ Is(0, "spawn")) /\ Arg(0) \in {0, w} /\ w # 0
<1> USE DEF Arg, Proceed, Beyond, At
<1>0. 0 \in Thread /\ Workers \subseteq Thread /\ Thread = DOMAIN thread /\ 0 \notin Workers
  BY ThreadAssumption DEF Thread, Types, Workers
<1>1. CASE Create
  BY <1>0, <1>1, CreateStep DEF Is, Running
<1>2. CASE CreateFails
  BY <1>0, <1>2 DEF CreateFails, Is, Running, Types, ThreadRec
<1>3. CASE Join
  BY <1>0, <1>3, Called DEF Join, Unborn, Is, Running, Types, ThreadRec
<1>4. CASE Cancel \/ WildId
  BY <1>0, <1>4, Called DEF Cancel, WildId, Is, Running, Types, ThreadRec
<1>5. CASE MainReturns \/ SigAction
  BY <1>0, <1>5 DEF MainReturns, SigAction, Is, Running, Types, ThreadRec
<1>6. CASE ProcessEnds \/ Send \/ Deliver
  BY <1>6 DEF ProcessEnds, Send, Deliver
<1>7. ASSUME NEW u \in Thread, ThreadStep(u) \/ Cancelled(u)
      PROVE  thread'[w] = thread[w]
  BY <1>0, <1>7 DEF ThreadStep, Return, Detach, Cancelled, Printf, Memory, NullPointer, Control, Synchronise,
                    Mask, SigWait, Is, Running, Types, ThreadRec
<1> QED BY <1>1, <1>2, <1>3, <1>4, <1>5, <1>6, <1>7 DEF Next, MainStep

(* main is behind a join only when the thread is gone, collected or never  *)
(* made.                                                                   *)
LEMMA JoinStep ==
  ASSUME Types, Located, Next, Is(0, "join"), thread'[0].at # thread[0].at
  PROVE  thread'[Op(0)[2]].life = "none"
<1> USE DEF Arg, Proceed, Beyond, At, Is
<1>0. 0 \in Thread /\ Workers \subseteq Thread /\ Thread = DOMAIN thread /\ 0 \notin Workers
  BY ThreadAssumption DEF Thread, Types, Workers
<1>1. Op(0)[2] \in Workers /\ Op(0)[1] = "join" /\ Running(0)
  BY <1>0, Called
<1>2. CASE Join
  BY <1>0, <1>1, <1>2 DEF Join, Unborn, Types
<1>3. CASE WildId
  BY <1>0, <1>1, <1>3 DEF WildId, Types
<1>4. CASE Create
  BY <1>1, <1>4, CreateStep
<1>5. CASE CreateFails \/ Cancel \/ MainReturns \/ SigAction \/ ProcessEnds \/ Send \/ Deliver
  BY <1>1, <1>5 DEF CreateFails, Cancel, MainReturns, SigAction, ProcessEnds, Send, Deliver
<1>6. ASSUME NEW u \in Thread, ThreadStep(u) \/ Cancelled(u)
      PROVE  thread'[0] = thread[0]
  BY <1>0, <1>1, <1>6 DEF ThreadStep, Return, Detach, Cancelled, Printf, Memory, NullPointer, Control, Synchronise,
                          Mask, SigWait, Types
<1> QED BY <1>2, <1>3, <1>4, <1>5, <1>6 DEF Next, MainStep

(* main is never cancelled nor collected.                                  *)
MainStays == thread[0].life # "none" /\ thread[0].cancelled = FALSE

LEMMA MainStaysStep ==
  ASSUME Types, Located, MainStays, Next
  PROVE  MainStays'
<1> USE DEF Arg, Proceed, Beyond, At, Is
<1>0. 0 \in Thread /\ Workers \subseteq Thread /\ Thread = DOMAIN thread /\ 0 \notin Workers
  BY ThreadAssumption DEF Thread, Types, Workers
<1>1. CASE Create
  <2>1. thread'[0] = [thread[0] EXCEPT !.at = thread[0].at + 1]
    BY <1>1, CreateStep
  <2>2. thread'[0].life = thread[0].life
    BY <1>0, <2>1 DEF Types, ThreadRec
  <2>3. thread'[0].cancelled = thread[0].cancelled
    BY <1>0, <2>1 DEF Types, ThreadRec
  <2> QED BY <2>2, <2>3 DEF MainStays
<1>2. CASE CreateFails
  BY <1>0, <1>2 DEF CreateFails, Types, ThreadRec, MainStays
<1>3. CASE Join
  BY <1>0, <1>3, Called DEF Join, Unborn, Types, ThreadRec, MainStays
<1>4. CASE WildId
  BY <1>0, <1>4, Called DEF WildId, Types, ThreadRec, MainStays
<1>5. CASE Cancel
  BY <1>0, <1>5, Called DEF Cancel, Types, ThreadRec, MainStays
<1>6. CASE MainReturns \/ SigAction
  <2>1. CASE MainReturns
    BY <1>0, <2>1 DEF MainReturns, Types, ThreadRec, MainStays
  <2>2. CASE SigAction
    BY <1>0, <2>2 DEF SigAction, Types, ThreadRec, MainStays
  <2> QED BY <1>6, <2>1, <2>2
<1>7. CASE ProcessEnds \/ Send \/ Deliver
  BY <1>7 DEF ProcessEnds, Send, Deliver, MainStays
<1>8. ASSUME NEW u \in Thread, Cancelled(u) PROVE MainStays'
  <2>1. u # 0
    BY <1>8, Zenon DEF Cancelled, MainStays
  <2> QED BY <1>0, <1>8, <2>1 DEF Cancelled, Types, MainStays
<1>9. ASSUME NEW u \in Thread, Return(u) \/ Detach(u) PROVE MainStays'
  BY <1>0, <1>9 DEF Return, Detach, Types, ThreadRec, MainStays
<1>10. ASSUME NEW u \in Thread, Printf(u) \/ Memory(u) \/ NullPointer(u) \/ Synchronise(u) \/ Mask(u) \/ SigWait(u)
       PROVE  MainStays'
  BY <1>0, <1>10 DEF Printf, Memory, NullPointer, Synchronise, Mask, SigWait, Types, ThreadRec, MainStays
<1>11. ASSUME NEW u \in Thread, Control(u) PROVE MainStays'
  BY <1>0, <1>11 DEF Control, Types, ThreadRec, MainStays
<1> QED BY <1>1, <1>2, <1>3, <1>4, <1>5, <1>6, <1>7, <1>8, <1>9, <1>10, <1>11 DEF Next, MainStep, ThreadStep

LEMMA JoinedStep ==
  ASSUME Types, Located, Joined, MainStays, Next
  PROVE  Joined'
<1> DEFINE c == Code(0)
<1>1. Code(0)' = c
  BY LocatedStep DEF Code
<1>2. 0 \in Thread /\ WellFormed(c) /\ Op(0) = c[thread[0].at] /\ thread[0].at \in DOMAIN c
  BY CodeForm DEF Thread, Op, Located
<1>3. thread'[0].at # thread[0].at => /\ Running(0)
                                      /\ \/ thread'[0].at = thread[0].at + 1
                                         \/ JumpsTo(c, thread[0].at, thread'[0].at)
  BY <1>2, PlaceStep, MainStaysStep DEF MainStays
<1> HIDE DEF c
<1>4. ASSUME NEW j \in DOMAIN c, NEW k \in DOMAIN c, Straight(c, j, k),
             j < thread'[0].at, thread'[0].at =< k
      PROVE  thread'[c[j][2]].life = "none"
  <2> DEFINE w == c[j][2]
  <2>1. w \in Workers /\ c[j][1] = "join" /\ w \in Thread /\ j \in Int /\ k \in Int /\ DOMAIN c \subseteq Int
    BY <1>2, <1>4 DEF WellFormed, Straight, Thread
  <2>2. thread'[0].at \in DOMAIN c
    BY <1>1, <1>2, LocatedStep DEF Located
  <2>3. CASE j < thread[0].at /\ thread[0].at =< k
    <3>1. thread[w].life = "none"
      BY <1>4, <2>3 DEF Joined, c
    <3>2. c[thread[0].at][1] \notin {"create", "spawn"}
      BY <1>2, <1>4, <2>3 DEF Straight
    <3>3. ~(Is(0, "create") \/ Is(0, "spawn"))
      BY <1>2, <3>2 DEF Is
    <3> QED BY <2>1, <3>1, <3>3, AwayStep
  <2>4. CASE ~(j < thread[0].at /\ thread[0].at =< k)
    <3>1. thread'[0].at # thread[0].at
      BY <1>4, <2>4
    <3>2. ~JumpsTo(c, thread[0].at, thread'[0].at)
      BY <1>2, <1>4, <2>2 DEF Straight
    <3>3. thread'[0].at = thread[0].at + 1 /\ thread[0].at = j
      BY <1>2, <1>3, <1>4, <2>1, <2>4, <3>1, <3>2
    <3>4. Is(0, "join") /\ Op(0)[2] = w
      BY <1>2, <1>3, <2>1, <3>1, <3>3 DEF Is
    <3> QED BY <3>1, <3>4, JoinStep
  <2> QED BY <2>3, <2>4
<1> QED BY <1>1, <1>4 DEF Joined

LEMMA ThreadsStart == Init => Types /\ Located /\ Joined /\ MainStays
<1> SUFFICES ASSUME Init PROVE Types /\ Located /\ Joined /\ MainStays
  OBVIOUS
<1>0. 0 \in Thread
  BY DEF Thread
<1>1. Types
  <2>1. [Unborn EXCEPT !.life = "run"] \in ThreadRec
    BY Records DEF Lives
  <2>2. thread \in [Thread -> ThreadRec]
    BY <2>1, Records DEF Init
  <2>3. sig \in [pending : SUBSET SIGNALS, handler : BOOLEAN, ranIn : SUBSET Thread]
    BY DEF Init
  <2>4. program \in DOMAIN Script /\ mem \in [Block -> States]
    BY ProgramAssumption DEF Init, States
  <2> QED BY <2>2, <2>3, <2>4 DEF Types
<1>2. \A t \in Thread : thread[t].at = 1
  BY DEF Init, Unborn
<1>3. \A t \in Thread : WellFormed(Code(t))
  BY <1>1, CodeForm
<1>4. Located
  BY <1>2, <1>3 DEF Located, WellFormed
<1>5. Joined
  <2>1. ASSUME NEW j \in DOMAIN Code(0), NEW k \in DOMAIN Code(0), Straight(Code(0), j, k), j < thread[0].at
        PROVE  FALSE
    <3>1. j < 1 /\ j \in Int
      BY <1>0, <1>2, <1>3, <2>1 DEF WellFormed
    <3> QED BY <1>0, <1>3, <3>1, <2>1 DEF WellFormed
  <2> QED BY <2>1 DEF Joined
<1>6. MainStays
  BY <1>0 DEF MainStays, Init, Unborn
<1> QED BY <1>1, <1>4, <1>5, <1>6

Claiming == Types /\ Located /\ MainStays /\ Joined

LEMMA ClaimingStep == Claiming /\ [Next]_vars => Claiming'
<1>1. ASSUME Claiming, Next PROVE Claiming'
  BY <1>1, TypesStep, LocatedStep, MainStaysStep, JoinedStep DEF Claiming
<1>2. ASSUME Claiming, UNCHANGED vars PROVE Claiming'
  BY <1>2 DEF Claiming, Types, Located, MainStays, Joined, Code, vars
<1> QED BY <1>1, <1>2

(* What main says of a thread after joining it is so, in every program.    *)
THEOREM ClaimsAreTrue == Spec => []ClaimsTrue
<1>1. Init => Claiming
  BY ThreadsStart DEF Claiming
<1>2. Claiming => ClaimsTrue
  <2> SUFFICES ASSUME Claiming, Is(0, "claim") PROVE thread[Arg(0)].life = "none"
    BY DEF ClaimsTrue
  <2>1. ClaimsJoined(Code(0))
    BY ScriptsClaims DEF Code, Claiming, Types
  <2>2. 0 \in Thread /\ Op(0) = Code(0)[thread[0].at] /\ thread[0].at \in DOMAIN Code(0) /\ Op(0)[1] = "claim"
    BY DEF Thread, Op, Is, Claiming, Located
  <2>3. PICK j \in DOMAIN Code(0) : Straight(Code(0), j, thread[0].at) /\ Code(0)[j][2] = Op(0)[2]
    BY <2>1, <2>2 DEF ClaimsJoined
  <2>4. DOMAIN Code(0) \subseteq Nat
    BY <2>2, CodeForm DEF Claiming, WellFormed
  <2> QED BY <2>2, <2>3, <2>4 DEF Claiming, Joined, Straight, Arg
<1> QED BY <1>1, <1>2, ClaimingStep, PTL DEF Spec

-----------------------------------------------------------------------------
(* Signals: main blocks them before it makes a thread, and sets the        *)
(* handler before thread 2 unblocks SIGINT.                                *)
Signalled == program \in {"signal", "handler_signal"}

Guarded == /\ thread[0].at \in 1..7
           /\ thread[0].at # 1 => thread[0].mask = SIGNALS
           /\ over = "killed" => thread[0].at = 1
           /\ sig.ranIn \subseteq {2}
           /\ thread[0].at =< 2 => sig.handler = FALSE
           /\ thread[0].at >= 3 => sig.handler = TRUE
           /\ thread[0].at =< 3 => \A w \in Workers : thread[w].life = "none"
           /\ \A w \in Workers : thread[w].life = "run" =>
                thread[w].mask = SIGNALS \/ (w = 2 /\ thread[w].mask = {"QUIT"})

Unsignalled == sig.pending = {} /\ sig.ranIn = {} /\ over # "killed"

SignalInv == /\ Signalled => Guarded
             /\ ~Signalled => Unsignalled

(* What the two programs call.                                             *)
LEMMA SignalCalls ==
  ASSUME Types, Located, Signalled, thread[0].at \in 1..7
  PROVE  /\ thread[0].at = 1 => Op(0)[1] = "block"
         /\ thread[0].at = 2 => Op(0)[1] = "sigaction"
         /\ thread[0].at \in 3..5 => Op(0)[1] = "create" /\ Op(0)[2] \in Workers /\ Op(0)[3] = 7
         /\ thread[0].at = 6 => Op(0)[1] = "pause"
         /\ thread[0].at = 7 => Op(0)[1] = "fail"
         /\ \A w \in Workers : \/ Op(w)[1] \in {"block", "pause", "sigwait"}
                               \/ w = 2 /\ Op(w)[1] = "unblock"
<1>1. Script[program] = Signals
  BY Titles DEF Signalled, HandlerSignal
<1>2. Op(0) = Signals.main[thread[0].at]
  BY <1>1 DEF Op, Code
<1>3. /\ thread[0].at = 1 => Op(0)[1] = "block"
      /\ thread[0].at = 2 => Op(0)[1] = "sigaction"
      /\ thread[0].at \in 3..5 => Op(0)[1] = "create" /\ Op(0)[2] \in Workers /\ Op(0)[3] = 7
      /\ thread[0].at = 6 => Op(0)[1] = "pause"
      /\ thread[0].at = 7 => Op(0)[1] = "fail"
  BY <1>2, ThreadAssumption DEF Signals, Workers
<1>4. ASSUME NEW w \in Workers
      PROVE  Op(w)[1] \in {"block", "pause", "sigwait"} \/ (w = 2 /\ Op(w)[1] = "unblock")
  <2> DEFINE c == SignalThreads[w]
             p == thread[w].at
  <2>1. Op(w) = c[p] /\ p \in DOMAIN c
    <3>1. w # 0 /\ w \in Thread
      BY ThreadAssumption DEF Workers, Thread
    <3>2. Code(w) = SignalThreads[w]
      BY <1>1, <3>1 DEF Code, Signals
    <3> QED BY <3>1, <3>2 DEF Op, Located
  <2>2. CASE w = 1
    <3>1. c = << <<"block">>, <<"pause">> >>
      BY <2>2 DEF SignalThreads
    <3> HIDE DEF c, p
    <3> QED BY <2>1, <2>2, <3>1
  <2>3. CASE w = 2
    <3>1. c = << <<"unblock">>, <<"pause">> >>
      BY <2>3 DEF SignalThreads
    <3> HIDE DEF c, p
    <3> QED BY <2>1, <2>3, <3>1
  <2>4. CASE w # 1 /\ w # 2
    <3>1. c = << <<"sigwait">> >>
      BY <2>4 DEF SignalThreads
    <3> HIDE DEF c, p
    <3> QED BY <2>1, <3>1
  <2> QED BY <2>2, <2>3, <2>4
<1> QED BY <1>3, <1>4

LEMMA GuardedStep ==
  ASSUME Types, Located, MainStays, Signalled, Guarded, Next
  PROVE  Guarded'
<1> USE DEF Arg, Proceed, Beyond, At, Is
<1>0. /\ 0 \in Thread /\ Workers \subseteq Thread /\ Thread = DOMAIN thread /\ 0 \notin Workers
      /\ Workers \subseteq Nat
  BY ThreadAssumption DEF Thread, Types, Workers
<1>1. CASE Create
  <2>1. PICK w \in Workers : /\ thread'[0] = [thread[0] EXCEPT !.at = thread[0].at + 1]
                             /\ thread[w].life = "none" /\ thread'[w].mask = thread[0].mask
                             /\ \A u \in Thread \ {0, w} : thread'[u] = thread[u]
    BY <1>1, CreateStep
  <2>2. thread'[0].at = thread[0].at + 1 /\ thread'[0].mask = thread[0].mask
    BY <1>0, <2>1 DEF Types, ThreadRec
  <2>3. thread[0].at \in 3..5 /\ UNCHANGED <<sig, over>>
    BY <1>1, CreateStep, SignalCalls DEF Guarded
  <2>4. thread[0].mask = SIGNALS /\ thread'[0].mask = SIGNALS
    BY <2>2, <2>3 DEF Guarded
  <2>5. thread'[0].at \in 4..6 /\ sig'.ranIn \subseteq {2} /\ over' # "killed"
    BY <2>2, <2>3 DEF Guarded
  <2>6. ASSUME NEW u \in Workers, thread'[u].life = "run"
        PROVE  thread'[u].mask = SIGNALS \/ (u = 2 /\ thread'[u].mask = {"QUIT"})
    <3>1. CASE u = w
      BY <2>1, <2>4, <3>1, Zenon
    <3>2. CASE u # w
      <4>1. thread'[u] = thread[u]
        BY <1>0, <2>1, <3>2
      <4> QED BY <2>6, <4>1 DEF Guarded
    <3> QED BY <3>1, <3>2
  <2>7. sig'.handler = TRUE
    <3>1. thread[0].at >= 3
      BY <2>3
    <3> QED BY <2>3, <3>1 DEF Guarded
  <2> QED BY <2>4, <2>5, <2>6, <2>7 DEF Guarded
<1>2. CASE CreateFails
  <2>1. thread[0].at \in 3..5 /\ Op(0)[3] = 7 /\ thread' = [thread EXCEPT ![0].at = Op(0)[3]]
    <3>1. Op(0)[1] \in {"create", "spawn"}
      BY <1>2 DEF CreateFails
    <3>2. thread[0].at \in 3..5
      BY <3>1, SignalCalls DEF Guarded
    <3>3. Op(0)[3] = 7
      BY <3>2, SignalCalls DEF Guarded
    <3>4. thread' = IF Op(0)[3] = 0 THEN [thread EXCEPT ![0].at = thread[0].at + 1]
                                     ELSE [thread EXCEPT ![0].at = Op(0)[3]]
      BY <1>2 DEF CreateFails
    <3> QED BY <3>2, <3>3, <3>4
  <2> QED BY <1>0, <1>2, <2>1 DEF CreateFails, Types, ThreadRec, Guarded
<1>3. CASE Join \/ Cancel \/ WildId
  BY <1>3, SignalCalls DEF Join, Cancel, WildId, Guarded
<1>4. CASE MainReturns
  <2>1. thread[0].at = 7 /\ thread' = [thread EXCEPT ![0].life = "failed"]
    BY <1>4, SignalCalls DEF MainReturns, Guarded
  <2> QED BY <1>0, <1>4, <2>1 DEF MainReturns, Types, ThreadRec, Guarded
<1>5. CASE SigAction
  <2>1. thread[0].at = 2 /\ thread' = [thread EXCEPT ![0].at = 3] /\ sig'.handler = TRUE /\ sig'.ranIn = sig.ranIn
    <3>1. thread[0].at = 2
      BY <1>5, SignalCalls DEF SigAction, Guarded
    <3>2. thread' = [thread EXCEPT ![0].at = 3]
      BY <1>5, <3>1 DEF SigAction
    <3>3. sig' = [sig EXCEPT !.handler = TRUE]
      BY <1>5 DEF SigAction
    <3> QED BY <3>1, <3>2, <3>3 DEF Types
  <2> QED BY <1>0, <1>5, <2>1 DEF SigAction, Types, ThreadRec, Guarded
<1>6. CASE ProcessEnds
  BY <1>6 DEF ProcessEnds, Guarded
<1>7. CASE Send
  <2>1. sig'.handler = sig.handler /\ sig'.ranIn = sig.ranIn
    BY <1>7 DEF Send, Types
  <2> QED BY <1>7, <2>1 DEF Send, Guarded
<1>8. CASE Deliver
  <2>1. PICK t \in Thread, s \in sig.pending :
           /\ Running(t) /\ s \notin thread[t].mask
           /\ IF s = "INT" /\ sig.handler
              THEN /\ sig' = [sig EXCEPT !.pending = @ \ {s}, !.ranIn = @ \cup {t}]
                   /\ UNCHANGED over
              ELSE over' = "killed" /\ UNCHANGED sig
    BY <1>8 DEF Deliver
  <2>2. s \in SIGNALS /\ UNCHANGED <<program, thread>>
    BY <1>8 DEF Deliver, Types
  <2>3. CASE t = 0
    <3>1. thread[0].at = 1 /\ sig.handler = FALSE
      BY <2>1, <2>2, <2>3 DEF Guarded
    <3> QED BY <2>1, <2>2, <3>1 DEF Guarded
  <2>4. CASE t # 0
    <3>1. t = 2 /\ thread[2].mask = {"QUIT"} /\ 2 \in Workers /\ thread[2].life = "run"
      BY <1>0, <2>1, <2>2, <2>4 DEF Guarded, Running, Thread
    <3>2. s = "INT" /\ sig.handler = TRUE
      BY <2>1, <2>2, <3>1 DEF Guarded, SIGNALS
    <3>3. sig'.handler = sig.handler /\ sig'.ranIn = sig.ranIn \cup {2} /\ over' = over
      BY <2>1, <3>1, <3>2 DEF Types
    <3> QED BY <2>2, <3>3 DEF Guarded
  <2> QED BY <2>3, <2>4
<1>9. ASSUME NEW t \in Thread,
             \/ Return(t) \/ Detach(t) \/ Printf(t) \/ Memory(t) \/ NullPointer(t) \/ Control(t) \/ Synchronise(t)
             \/ Cancelled(t)
      PROVE  FALSE
  <2>1. \/ Op(t)[1] \in {"block", "pause", "sigwait", "unblock", "sigaction", "create", "fail"}
    BY SignalCalls DEF Guarded, Thread
  <2> QED BY <1>9, <2>1 DEF Return, Detach, Printf, Memory, NullPointer, Control, Synchronise, Cancelled
<1>10. ASSUME NEW t \in Thread, Mask(t) PROVE Guarded'
  <2>1. UNCHANGED <<sig, over>> /\ Running(t)
    BY <1>10 DEF Mask
  <2>2. CASE t = 0
    <3>1. thread[0].at = 1 /\ thread' = [[thread EXCEPT ![0].at = 2] EXCEPT ![0].mask = SIGNALS]
      BY <1>10, <2>2, SignalCalls DEF Mask, Guarded
    <3>2. /\ thread'[0].at = 2 /\ thread'[0].mask = SIGNALS
          /\ \A w \in Workers : thread'[w] = thread[w]
      BY <1>0, <3>1 DEF Types, ThreadRec
    <3>3. over # "killed"
      BY <2>1 DEF Running
    <3>4. \A w \in Workers : thread'[w].life = "none"
      <4>1. thread[0].at =< 3
        BY <3>1
      <4>2. \A w \in Workers : thread[w].life = "none"
        BY <4>1 DEF Guarded
      <4> QED BY <3>2, <4>2
    <3>5. sig'.ranIn \subseteq {2} /\ over' # "killed" /\ sig'.handler = FALSE
      BY <2>1, <3>1, <3>3 DEF Guarded
    <3> HIDE DEF At, Beyond, Is
    <3> QED BY <3>2, <3>4, <3>5 DEF Guarded
  <2>3. CASE t # 0
    <3>1. t \in Workers
      BY <2>3 DEF Thread
    <3>2. /\ \A u \in Thread \ {t} : thread'[u] = thread[u]
          /\ thread'[t].life = thread[t].life
          /\ \/ thread'[t].mask = SIGNALS
             \/ Op(t)[1] = "unblock" /\ thread'[t].mask = thread[t].mask \ {"INT"}
      <4> DEFINE th == [thread EXCEPT ![t].at = thread[t].at + 1]
      <4>1. /\ th \in [Thread -> ThreadRec] /\ th[t].mask = thread[t].mask /\ th[t].life = thread[t].life
            /\ \A u \in Thread \ {t} : th[u] = thread[u]
        BY DEF Types, ThreadRec
      <4>2. \/ thread' = [th EXCEPT ![t].mask = SIGNALS]
            \/ Op(t)[1] = "unblock" /\ thread' = [th EXCEPT ![t].mask = th[t].mask \ {"INT"}]
        BY <1>10 DEF Mask
      <4> HIDE DEF th
      <4> QED BY <4>1, <4>2 DEF ThreadRec
    <3>3. Op(t)[1] = "unblock" => t = 2
      BY <3>1, SignalCalls DEF Guarded
    <3>4. thread'[t].mask = SIGNALS \/ (t = 2 /\ thread'[t].mask = {"QUIT"})
      <4>1. thread[t].mask = SIGNALS \/ thread[t].mask = {"QUIT"}
        BY <2>1, <3>1 DEF Guarded, Running
      <4>2. SIGNALS \ {"INT"} = {"QUIT"} /\ {"QUIT"} \ {"INT"} = {"QUIT"}
        BY DEF SIGNALS
      <4>3. CASE thread'[t].mask = SIGNALS
        BY <4>3
      <4>4. CASE Op(t)[1] = "unblock" /\ thread'[t].mask = thread[t].mask \ {"INT"}
        <5>1. thread[t].mask \ {"INT"} = {"QUIT"}
          BY <4>1, <4>2
        <5> QED BY <3>3, <4>4, <5>1
      <4> QED BY <3>2, <4>3, <4>4
    <3> QED BY <1>0, <2>1, <3>1, <3>2, <3>4 DEF Guarded
  <2> QED BY <2>2, <2>3
<1>11. ASSUME NEW t \in Thread, SigWait(t) PROVE Guarded'
  <2>1. sig'.handler = sig.handler /\ sig'.ranIn = sig.ranIn
    BY <1>11 DEF SigWait, Types
  <2> QED BY <1>11, <2>1 DEF SigWait, Guarded
<1> QED BY <1>1, <1>2, <1>3, <1>4, <1>5, <1>6, <1>7, <1>8, <1>9, <1>10, <1>11 DEF Next, MainStep, ThreadStep

LEMMA UnsignalledStep ==
  ASSUME Types, ~Signalled, Unsignalled, Next
  PROVE  Unsignalled'
<1>1. CASE SigAction
  <2>1. sig'.pending = sig.pending /\ sig'.ranIn = sig.ranIn
    BY <1>1 DEF SigAction, Types
  <2> QED BY <1>1, <2>1 DEF SigAction, Unsignalled
<1>2. CASE Send \/ Deliver
  BY <1>2 DEF Send, Deliver, Signalled, Unsignalled
<1>3. ASSUME NEW t \in Thread, SigWait(t) PROVE FALSE
  BY <1>3 DEF SigWait, Unsignalled
<1>4. CASE ProcessEnds \/ WildId
  BY <1>4 DEF ProcessEnds, WildId, Unsignalled
<1>5. ASSUME NEW t \in Thread, NullPointer(t) PROVE Unsignalled'
  BY <1>5 DEF NullPointer, Unsignalled
<1>6. CASE UNCHANGED <<sig, over>>
  BY <1>6 DEF Unsignalled
<1> QED BY <1>1, <1>2, <1>3, <1>4, <1>5, <1>6
    DEF Next, MainStep, ThreadStep, Create, CreateFails, Join, Cancel, MainReturns,
        Return, Detach, Printf, Memory, Control, Synchronise, Mask, Cancelled

Routing == Types /\ Located /\ MainStays /\ SignalInv

LEMMA RoutingStart == Init => Routing
<1> SUFFICES ASSUME Init PROVE SignalInv
  BY ThreadsStart DEF Routing
<1>0. 0 \in Thread /\ 0 \notin Workers /\ Workers \subseteq Thread
  BY ThreadAssumption DEF Thread, Workers
<1>1. thread[0].at = 1 /\ \A w \in Workers : thread[w].life = "none"
  BY <1>0 DEF Init, Unborn
<1>2. sig.pending = {} /\ sig.ranIn = {} /\ sig.handler = FALSE /\ over = "no"
  BY DEF Init
<1> QED BY <1>1, <1>2 DEF SignalInv, Guarded, Unsignalled

LEMMA RoutingStep == Routing /\ [Next]_vars => Routing'
<1>1. ASSUME Routing, Next PROVE Routing'
  <2>1. program' = program /\ Types' /\ Located' /\ MainStays'
    BY <1>1, TypesStep, LocatedStep, MainStaysStep DEF Routing
  <2>2. CASE Signalled
    BY <1>1, <2>1, <2>2, GuardedStep DEF Routing, SignalInv, Signalled
  <2>3. CASE ~Signalled
    BY <1>1, <2>1, <2>3, UnsignalledStep DEF Routing, SignalInv, Signalled
  <2> QED BY <2>2, <2>3
<1>2. ASSUME Routing, UNCHANGED vars PROVE Routing'
  BY <1>2 DEF Routing, Types, Located, MainStays, SignalInv, Signalled, Guarded, Unsignalled, Code, vars
<1> QED BY <1>1, <1>2

(* SIGINT is handled in the second thread only, and neither signal ends    *)
(* the process once main has blocked them.                                 *)
THEOREM SignalsAreRouted == Spec => []SignalsRouted
<1>1. Routing => SignalsRouted
  BY DEF Routing, SignalInv, Guarded, Unsignalled, SignalsRouted
<1> QED BY <1>1, RoutingStart, RoutingStep, PTL DEF Spec

-----------------------------------------------------------------------------
(* Which programs touch memory.                                            *)
Owners == {"num_thread", "str_thread", "struct_thread", "thread_cancel_malloc"}
Borrowers == {"struct_thread_stack", "struct_main", "thread"}

NoHeap(c) == \A k \in DOMAIN c : /\ c[k][1] \notin {"malloc", "free"}
                                 /\ c[k][1] = "use" => c[k][2] = "frame"
NoFrame(c) == \A k \in DOMAIN c : c[k][1] = "use" => c[k][2] \in Block

AllNoHeap(p) == NoHeap(p.main) /\ \A w \in Workers : NoHeap(p.work[w])
AllNoFrame(p) == NoFrame(p.main) /\ \A w \in Workers : NoFrame(p.work[w])

LEMMA LongHeap == /\ AllNoHeap(SelfIds) /\ AllNoHeap(TestDeadThreads) /\ AllNoFrame(TestDeadThreads)
                  /\ NoFrame(SelfIds.main)
<1>1. NoHeap(SelfIds.main) /\ NoFrame(SelfIds.main)
  <2> DEFINE c == SelfIds.main
  <2>1. \A k \in DOMAIN c : c[k][1] \in {"create", "join", "claim", "return", "fail"}
    BY SelfIdsParts, SelfIdsMain
  <2> HIDE DEF c
  <2>2. NoHeap(c) /\ NoFrame(c)
    BY <2>1 DEF NoHeap, NoFrame
  <2> QED BY <2>2 DEF c
<1>2. \A w \in Workers : NoHeap(SelfIds.work[w])
  <2>1. SelfIds.work = [w \in Workers |-> << <<"use", "frame">>, <<"use", "frame">>, <<"return">> >>]
    BY DEF SelfIds, Each
  <2>2. ASSUME NEW w \in Workers PROVE NoHeap(SelfIds.work[w])
    <3> DEFINE c == SelfIds.work[w]
    <3>1. c = << <<"use", "frame">>, <<"use", "frame">>, <<"return">> >>
      BY <2>1
    <3> HIDE DEF c
    <3>2. NoHeap(c)
      BY <3>1 DEF NoHeap
    <3> QED BY <3>2 DEF c
  <2> QED BY <2>2
<1>3. NoHeap(TestDeadThreads.main) /\ NoFrame(TestDeadThreads.main)
  <2> DEFINE c == TestDeadThreads.main
  <2>1. ASSUME NEW k \in DOMAIN c PROVE c[k][1] \in {"create", "return", "fail"}
    <3>1. k \in 1..Few \/ k = Few + 1 \/ k = Few + 2
      BY TestDeadMain, ThreadAssumption
    <3> QED BY <3>1, TestDeadMain
  <2> HIDE DEF c
  <2>2. NoHeap(c) /\ NoFrame(c)
    BY <2>1 DEF NoHeap, NoFrame
  <2> QED BY <2>2 DEF c
<1>4. \A w \in Workers : NoHeap(TestDeadThreads.work[w]) /\ NoFrame(TestDeadThreads.work[w])
  <2>1. TestDeadThreads.work = [w \in Workers |-> << <<"return">> >>]
    BY DEF TestDeadThreads, Each
  <2> QED BY <2>1 DEF NoHeap, NoFrame
<1> QED BY <1>1, <1>2, <1>3, <1>4 DEF AllNoHeap, AllNoFrame

LEMMA ScriptsHeap == \A p \in DOMAIN Script \ Owners : AllNoHeap(Script[p])
<1>1. AllNoHeap(SelfIds) /\ AllNoHeap(TestDeadThreads)
  BY LongHeap
<1>2. AllNoHeap(WaitThread)
  BY DEF WaitThread, Each, AllNoHeap, NoHeap
<1>3. AllNoHeap(StructThreadStack)
  BY DEF StructThreadStack, Each, AllNoHeap, NoHeap
<1>4. AllNoHeap(StructMain)
  BY DEF StructMain, Each, AllNoHeap, NoHeap
<1>5. AllNoHeap(StackSize)
  BY DEF StackSize, Each, AllNoHeap, NoHeap
<1>6. AllNoHeap(HelloThread)
  BY DEF HelloThread, Each, AllNoHeap, NoHeap
<1>7. AllNoHeap(ThreadCancel)
  BY DEF ThreadCancel, Each, AllNoHeap, NoHeap
<1>8. AllNoHeap(ThreadCancelCount)
  BY DEF ThreadCancelCount, Each, AllNoHeap, NoHeap
<1>9. AllNoHeap(BreakLimit)
  BY DEF BreakLimit, Loop, Each, AllNoHeap, NoHeap
<1>10. AllNoHeap(BreakLimit2)
  BY DEF BreakLimit2, Loop, Each, AllNoHeap, NoHeap
<1>11. AllNoHeap(BreakLimit3)
  BY DEF BreakLimit3, Loop, Each, AllNoHeap, NoHeap
<1>12. AllNoHeap(WhileOverflowThread)
  BY DEF WhileOverflowThread, Loop, Each, AllNoHeap, NoHeap
<1>13. AllNoHeap(WhileThread)
  BY DEF WhileThread, Loop, Each, AllNoHeap, NoHeap
<1>14. AllNoHeap(CreateDetached)
  BY DEF CreateDetached, Loop, Each, AllNoHeap, NoHeap
<1>15. AllNoHeap(MeasureTail)
  BY DEF MeasureTail, TailWork, Each, AllNoHeap, NoHeap
<1>16. AllNoHeap(ThreadMem)
  BY DEF ThreadMem, Each, AllNoHeap, NoHeap
<1>17. AllNoHeap(DestroyMainStack)
  BY DEF DestroyMainStack, Each, AllNoHeap, NoHeap
<1>18. AllNoHeap(BenchLock)
  BY DEF BenchLock, Each, AllNoHeap, NoHeap
<1>19. AllNoHeap(Signals)
  BY DEF Signals, SignalThreads, Each, AllNoHeap, NoHeap
<1>20. AllNoHeap(HandlerSignal)
  BY DEF HandlerSignal, Signals, SignalThreads, Each, AllNoHeap, NoHeap
<1> QED BY Titles, <1>1, <1>2, <1>3, <1>4, <1>5, <1>6, <1>7, <1>8, <1>9, <1>10, <1>11, <1>12, <1>13, <1>14, <1>15, <1>16, <1>17, <1>18, <1>19, <1>20 DEF Owners

LEMMA ScriptsFrame == \A p \in DOMAIN Script \ Borrowers : AllNoFrame(Script[p])
<1>1. AllNoFrame(TestDeadThreads)
  BY LongHeap
<1>2. AllNoFrame(WaitThread)
  BY DEF WaitThread, Each, AllNoFrame, NoFrame, Block
<1>3. AllNoFrame(NumThread)
  BY DEF NumThread, NumWork, Each, AllNoFrame, NoFrame, Block
<1>4. AllNoFrame(StrThread)
  BY DEF StrThread, Each, AllNoFrame, NoFrame, Block
<1>5. AllNoFrame(StructThread)
  BY DEF StructThread, StructOwner, Each, AllNoFrame, NoFrame, Block
<1>6. AllNoFrame(StackSize)
  BY DEF StackSize, Each, AllNoFrame, NoFrame, Block
<1>7. AllNoFrame(HelloThread)
  BY DEF HelloThread, Each, AllNoFrame, NoFrame, Block
<1>8. AllNoFrame(ThreadCancel)
  BY DEF ThreadCancel, Each, AllNoFrame, NoFrame, Block
<1>9. AllNoFrame(ThreadCancelCount)
  BY DEF ThreadCancelCount, Each, AllNoFrame, NoFrame, Block
<1>10. AllNoFrame(ThreadCancelMalloc)
  BY DEF ThreadCancelMalloc, Each, AllNoFrame, NoFrame, Block
<1>11. AllNoFrame(BreakLimit)
  BY DEF BreakLimit, Loop, Each, AllNoFrame, NoFrame, Block
<1>12. AllNoFrame(BreakLimit2)
  BY DEF BreakLimit2, Loop, Each, AllNoFrame, NoFrame, Block
<1>13. AllNoFrame(BreakLimit3)
  BY DEF BreakLimit3, Loop, Each, AllNoFrame, NoFrame, Block
<1>14. AllNoFrame(WhileOverflowThread)
  BY DEF WhileOverflowThread, Loop, Each, AllNoFrame, NoFrame, Block
<1>15. AllNoFrame(WhileThread)
  BY DEF WhileThread, Loop, Each, AllNoFrame, NoFrame, Block
<1>16. AllNoFrame(CreateDetached)
  BY DEF CreateDetached, Loop, Each, AllNoFrame, NoFrame, Block
<1>17. AllNoFrame(MeasureTail)
  BY DEF MeasureTail, TailWork, Each, AllNoFrame, NoFrame, Block
<1>18. AllNoFrame(ThreadMem)
  BY DEF ThreadMem, Each, AllNoFrame, NoFrame, Block
<1>19. AllNoFrame(DestroyMainStack)
  BY DEF DestroyMainStack, Each, AllNoFrame, NoFrame, Block
<1>20. AllNoFrame(BenchLock)
  BY DEF BenchLock, Each, AllNoFrame, NoFrame, Block
<1>21. AllNoFrame(Signals)
  BY DEF Signals, SignalThreads, Each, AllNoFrame, NoFrame, Block
<1>22. AllNoFrame(HandlerSignal)
  BY DEF HandlerSignal, Signals, SignalThreads, Each, AllNoFrame, NoFrame, Block
<1> QED BY Titles, <1>1, <1>2, <1>3, <1>4, <1>5, <1>6, <1>7, <1>8, <1>9, <1>10, <1>11, <1>12, <1>13, <1>14, <1>15, <1>16, <1>17, <1>18, <1>19, <1>20, <1>21, <1>22 DEF Borrowers

-----------------------------------------------------------------------------
(* How main has left, and when the process ends.                           *)
Left == /\ thread[0].life = "run" \/ Op(0)[1] \in {"return", "fail", "exit"}
        /\ thread[0].life = "returned" => Op(0)[1] = "return"
        /\ thread[0].life = "failed" => Op(0)[1] = "fail"
        /\ thread[0].life = "done" => Op(0)[1] = "exit"
        /\ over = "ended" => thread[0].life # "run"

(* Who does not run does not move, but for the threads that main starts,   *)
(* cancels and collects.                                                   *)
LEMMA StillStep ==
  ASSUME Types, Located, Next, ~Running(0)
  PROVE  thread'[0] = thread[0]
<1>0. 0 \in Thread /\ Workers \subseteq Thread /\ Thread = DOMAIN thread /\ 0 \notin Workers
  BY ThreadAssumption DEF Thread, Types, Workers
<1>1. ASSUME MainStep PROVE FALSE
  BY <1>1, CreateStep DEF MainStep, CreateFails, Join, Cancel, WildId, MainReturns, SigAction, Is
<1>2. CASE ProcessEnds \/ Send \/ Deliver
  BY <1>2 DEF ProcessEnds, Send, Deliver
<1>3. ASSUME NEW u \in Thread, ThreadStep(u) \/ Cancelled(u)
      PROVE  thread'[0] = thread[0]
  <2>1. u # 0 /\ Running(u)
    BY <1>3 DEF ThreadStep, Return, Detach, Cancelled, Printf, Memory, NullPointer, Control, Synchronise,
                Mask, SigWait, Is
  <2> QED BY <1>0, <1>3, <2>1 DEF ThreadStep, Return, Detach, Cancelled, Printf, Memory, NullPointer, Control,
              Synchronise, Mask, SigWait, Types, At, Beyond, Proceed
<1> QED BY <1>1, <1>2, <1>3 DEF Next

(* main's steps as long as it does not leave.                              *)
LEMMA StayStep ==
  ASSUME Types, Located, MainStays, Next
  PROVE  thread'[0].life = thread[0].life \/ MainReturns
<1> USE DEF Is, Arg, At, Beyond, Proceed
<1>0. 0 \in Thread /\ Workers \subseteq Thread /\ Thread = DOMAIN thread /\ 0 \notin Workers
  BY ThreadAssumption DEF Thread, Types, Workers
<1>1. CASE Create
  <2>1. thread'[0] = [thread[0] EXCEPT !.at = thread[0].at + 1]
    BY <1>1, CreateStep
  <2> QED BY <1>0, <2>1 DEF Types, ThreadRec
<1>2. CASE CreateFails
  BY <1>0, <1>2 DEF CreateFails, Types, ThreadRec
<1>3. CASE Join
  BY <1>0, <1>3, Called DEF Join, Unborn, Types, ThreadRec
<1>4. CASE WildId
  BY <1>0, <1>4, Called DEF WildId, Types, ThreadRec
<1>5. CASE Cancel
  BY <1>0, <1>5, Called DEF Cancel, Types, ThreadRec
<1>6. CASE SigAction
  BY <1>0, <1>6 DEF SigAction, Types, ThreadRec
<1>7. CASE ProcessEnds \/ Send \/ Deliver
  BY <1>7 DEF ProcessEnds, Send, Deliver
<1>8. ASSUME NEW u \in Thread, Cancelled(u) PROVE thread'[0].life = thread[0].life
  <2>1. u # 0
    BY <1>8, Zenon DEF Cancelled, MainStays
  <2> QED BY <1>0, <1>8, <2>1 DEF Cancelled, Types
<1>9. ASSUME NEW u \in Thread, Return(u) \/ Detach(u) PROVE thread'[0].life = thread[0].life
  BY <1>0, <1>9 DEF Return, Detach, Types, ThreadRec
<1>10. ASSUME NEW u \in Thread, Printf(u) \/ Memory(u) \/ NullPointer(u) \/ Synchronise(u) \/ Mask(u) \/ SigWait(u)
       PROVE  thread'[0].life = thread[0].life
  BY <1>0, <1>10 DEF Printf, Memory, NullPointer, Synchronise, Mask, SigWait, Types, ThreadRec
<1>11. ASSUME NEW u \in Thread, Control(u) PROVE thread'[0].life = thread[0].life
  BY <1>0, <1>11 DEF Control, Types, ThreadRec
<1> QED BY <1>1, <1>2, <1>3, <1>4, <1>5, <1>6, <1>7, <1>8, <1>9, <1>10, <1>11 DEF Next, MainStep, ThreadStep

LEMMA LeftStep ==
  ASSUME Types, Located, MainStays, Left, Next
  PROVE  Left'
<1>0. 0 \in Thread
  BY DEF Thread
<1>1. over' = "ended" => thread'[0].life # "run"
  <2>1. CASE ProcessEnds
    BY <2>1 DEF ProcessEnds
  <2>2. CASE over = "ended"
    <3>1. thread'[0] = thread[0]
      BY <2>2, StillStep DEF Running
    <3> QED BY <2>2, <3>1 DEF Left
  <2>3. CASE ~ProcessEnds /\ over # "ended"
    BY <2>3 DEF Next, MainStep, ThreadStep, Create, CreateFails, Join, Cancel, WildId, MainReturns, SigAction,
        Return, Detach, Printf, Memory, NullPointer, Control, Synchronise, Mask, SigWait, Cancelled, Send, Deliver
  <2> QED BY <2>1, <2>2, <2>3
<1>2. CASE MainReturns
  <2>1. /\ \/ Op(0)[1] = "return" /\ thread'[0].life = "returned"
           \/ Op(0)[1] = "fail" /\ thread'[0].life = "failed"
           \/ Op(0)[1] = "exit" /\ thread'[0].life = "done"
        /\ thread'[0].at = thread[0].at
    BY <1>0, <1>2 DEF MainReturns, Is, Types, ThreadRec
  <2>2. Op(0)' = Op(0)
    BY <2>1, LocatedStep DEF Op, Code
  <2> QED BY <1>1, <2>1, <2>2 DEF Left
<1>3. CASE ~MainReturns /\ thread[0].life # "run"
  <2>1. thread'[0] = thread[0]
    BY <1>3, StillStep DEF Running
  <2>2. Op(0)' = Op(0)
    BY <2>1, LocatedStep DEF Op, Code
  <2> QED BY <1>1, <2>1, <2>2 DEF Left
<1>4. CASE ~MainReturns /\ thread[0].life = "run"
  BY <1>1, <1>4, StayStep DEF Left
<1> QED BY <1>2, <1>3, <1>4

(* The programs without a heap leave it alone.                             *)
Untouched == program \notin Owners => \A b \in Block : mem[b] = "none"

LEMMA UntouchedStep ==
  ASSUME Types, Located, Untouched, Next
  PROVE  Untouched'
<1>1. program' = program
  BY LocatedStep
<1>2. CASE program \in Owners
  BY <1>1, <1>2 DEF Untouched
<1>3. CASE program \notin Owners
  <2>1. \A t \in Thread : NoHeap(Code(t))
    BY <1>3, ScriptsHeap DEF AllNoHeap, Code, Thread, Types
  <2>2. ASSUME NEW t \in Thread PROVE Op(t)[1] \notin {"malloc", "free"}
    <3> DEFINE c == Code(t)
               k == thread[t].at
    <3>1. Op(t) = c[k] /\ k \in DOMAIN c /\ NoHeap(c)
      BY <2>1, Called
    <3> HIDE DEF c, k
    <3> QED BY <3>1 DEF NoHeap
  <2>3. ASSUME NEW t \in Thread, Memory(t) PROVE UNCHANGED mem
    BY <2>2, <2>3 DEF Memory, Is
  <2>4. ASSUME NEW t \in Thread, Cancelled(t) PROVE \A b \in Block : mem'[b] = "none"
    BY <1>3, <2>4 DEF Cancelled, Untouched
  <2>5. ASSUME UNCHANGED mem PROVE Untouched'
    BY <1>1, <2>5 DEF Untouched
  <2>6. ASSUME NEW t \in Thread, ThreadStep(t) PROVE UNCHANGED mem
    BY <2>3, <2>6 DEF ThreadStep, Return, Detach, Printf, NullPointer, Control, Synchronise, Mask, SigWait
  <2>7. CASE MainStep \/ ProcessEnds \/ Send \/ Deliver
    BY <2>5, <2>7 DEF MainStep, Create, CreateFails, Join, Cancel, WildId, MainReturns, SigAction,
                      ProcessEnds, Send, Deliver
  <2> QED BY <2>4, <2>5, <2>6, <2>7 DEF Next, Untouched
<1> QED BY <1>2, <1>3

-----------------------------------------------------------------------------
(* num_thread.c and str_thread.c: the worker's block is main's after the   *)
(* join.                                                                   *)
Here == {"live", "null"}

Handing ==
  /\ mem["msg"] = "none" /\ mem["str"] = "none"
  /\ thread[0].at \in 1..8
  /\ \A w \in Workers : thread[w].life # "none" => w = 1 /\ thread[0].at = 2
  /\ thread[0].at \in {1, 8} => mem["ret"] = "none"
  /\ thread[0].at = 2 => /\ thread[1].life \in {"run", "done"} /\ thread[1].detached = FALSE
                         /\ thread[1].life = "done" => mem["ret"] \in Here
                         /\ thread[1].life = "run" /\ thread[1].at # 1 => mem["ret"] \in Here
                         /\ thread[1].life = "run" /\ thread[1].at = 3 => mem["ret"] = "live"
  /\ thread[0].at \in {3, 4} => mem["ret"] \in Here
  /\ thread[0].at \in {5, 6} => mem["ret"] = "live"
  /\ thread[0].at = 7 => mem["ret"] \in {"null", "freed"}

Handed == program \in {"num_thread", "str_thread"}

LEMMA HandedCalls ==
  ASSUME Types, Located, Handed, thread[0].at \in 1..8
  PROVE  /\ thread[0].at = 1 => Op(0) = <<"create", 1, 8>>
         /\ thread[0].at = 2 => Op(0) = <<"join", 1>>
         /\ thread[0].at = 3 => Op(0) = <<"claim", 1>>
         /\ thread[0].at = 4 => Op(0) = <<"ifnull", "ret", 7>>
         /\ thread[0].at = 5 => Op(0) = <<"use", "ret">>
         /\ thread[0].at = 6 => Op(0) = <<"free", "ret">>
         /\ thread[0].at = 7 => Op(0) = <<"return">>
         /\ thread[0].at = 8 => Op(0) = <<"fail">>
         /\ \/ thread[1].at = 1 /\ Op(1) = <<"malloc", "ret">>
            \/ thread[1].at = 2 /\ Op(1) = <<"ifnull", "ret", 4>>
            \/ thread[1].at = 3 /\ Op(1) = <<"use", "ret">>
            \/ thread[1].at \in {2, 4} /\ Op(1) = <<"return">>
<1>1. 1 \in Workers /\ 1 \in Thread
  BY ThreadAssumption DEF Workers, Thread
<1>2. CASE program = "num_thread"
  <2>1. Op(0) = NumThread.main[thread[0].at]
    BY <1>2, Titles DEF Op, Code
  <2>2. NumThread.work[1] = << <<"malloc", "ret">>, <<"ifnull", "ret", 4>>, <<"use", "ret">>, <<"return">> >>
    BY <1>1 DEF NumThread, NumWork, Each
  <2> DEFINE c == NumThread.work[1]
             k == thread[1].at
  <2>3. Op(1) = c[k] /\ k \in DOMAIN c
    BY <1>1, <1>2, Titles DEF Op, Code, Located
  <2> HIDE DEF c, k
  <2>4. \/ k = 1 /\ Op(1) = <<"malloc", "ret">>
        \/ k = 2 /\ Op(1) = <<"ifnull", "ret", 4>>
        \/ k = 3 /\ Op(1) = <<"use", "ret">>
        \/ k = 4 /\ Op(1) = <<"return">>
    BY <2>2, <2>3 DEF c
  <2> QED BY <2>1, <2>4 DEF NumThread, k
<1>3. CASE program = "str_thread"
  <2>1. Op(0) = StrThread.main[thread[0].at]
    BY <1>3, Titles DEF Op, Code
  <2>2. StrThread.work[1] = << <<"malloc", "ret">>, <<"return">> >>
    BY <1>1 DEF StrThread, Each
  <2> DEFINE c == StrThread.work[1]
             k == thread[1].at
  <2>3. Op(1) = c[k] /\ k \in DOMAIN c
    BY <1>1, <1>3, Titles DEF Op, Code, Located
  <2> HIDE DEF c, k
  <2>4. \/ k = 1 /\ Op(1) = <<"malloc", "ret">>
        \/ k = 2 /\ Op(1) = <<"return">>
    BY <2>2, <2>3 DEF c
  <2> QED BY <2>1, <2>4 DEF StrThread, k
<1> QED BY <1>2, <1>3 DEF Handed

LEMMA HandingStep ==
  ASSUME Types, Located, MainStays, Handed, Handing, Next
  PROVE  Handing'
<1> USE DEF Is, Arg, At, Beyond, Proceed
<1>0. /\ 0 \in Thread /\ 1 \in Thread /\ 1 \in Workers /\ Workers \subseteq Thread /\ Thread = DOMAIN thread
      /\ 0 \notin Workers /\ Thread = {0} \cup Workers
      /\ {"ret", "msg", "str"} \subseteq DOMAIN mem /\ DOMAIN mem = Block
  BY ThreadAssumption DEF Thread, Types, Workers, Block
<1>1. ASSUME NEW t \in Thread, Running(t) PROVE t = 0 \/ (t = 1 /\ thread[0].at = 2 /\ thread[1].life = "run")
  BY <1>0, <1>1 DEF Handing, Running
<1>2. ASSUME NEW t \in Thread
      PROVE  Running(t) => Op(t)[1] \in {"create", "join", "claim", "ifnull", "use", "free", "return", "fail", "malloc"}
  BY <1>1, HandedCalls DEF Handing
<1>3. CASE Create
  <2>1. thread[0].at = 1 /\ Op(0) = <<"create", 1, 8>> /\ UNCHANGED mem
    BY <1>3, CreateStep, HandedCalls DEF Handing
  <2>2. /\ thread'[0] = [thread[0] EXCEPT !.at = thread[0].at + 1]
        /\ thread'[1].life = "run" /\ thread'[1].at = 1 /\ thread'[1].detached = FALSE
        /\ \A u \in Thread \ {0, 1} : thread'[u] = thread[u]
    <3>1. PICK w \in Workers :
             /\ Op(0)[2] \in {0, w}
             /\ thread'[0] = [thread[0] EXCEPT !.at = thread[0].at + 1]
             /\ \A u \in Thread \ {0, w} : thread'[u] = thread[u]
             /\ thread'[w].life = "run" /\ thread'[w].at = 1
             /\ (Op(0)[1] = "create" => thread'[w].detached = FALSE)
      BY <1>3, CreateStep
    <3>2. w = 1 /\ Op(0)[1] = "create"
      BY <2>1, <3>1
    <3> HIDE DEF Is, At, Beyond, Proceed
    <3> QED BY <3>1, <3>2
  <2>3. thread'[0].at = 2
    BY <1>0, <2>1, <2>2 DEF Types, ThreadRec
  <2> QED BY <1>0, <2>1, <2>2, <2>3 DEF Handing
<1>4. CASE CreateFails
  <2>1. thread[0].at = 1 /\ Op(0) = <<"create", 1, 8>>
    BY <1>4, HandedCalls DEF CreateFails, Handing
  <2>2. UNCHANGED mem /\ Op(0)[3] = 8 /\ thread' = [thread EXCEPT ![0].at = Op(0)[3]]
    BY <1>4, <2>1 DEF CreateFails
  <2> QED BY <1>0, <2>1, <2>2 DEF Types, ThreadRec, Handing
<1>5. CASE Join
  <2>1. thread[0].at = 2 /\ Op(0) = <<"join", 1>>
    BY <1>5, HandedCalls DEF Join, Handing
  <2>2. /\ UNCHANGED mem /\ thread[1].life = "done"
        /\ Op(0)[2] = 1 /\ thread' = [[thread EXCEPT ![0].at = thread[0].at + 1] EXCEPT ![Op(0)[2]] = Unborn]
    BY <1>5, <2>1 DEF Join
  <2>3. thread'[0].at = 3 /\ thread'[1].life = "none" /\ \A u \in Thread \ {0, 1} : thread'[u] = thread[u]
    BY <1>0, <2>1, <2>2 DEF Unborn, Types, ThreadRec
  <2>4. mem["ret"] \in Here /\ \A w \in Workers : thread'[w].life = "none"
    BY <1>0, <2>1, <2>2, <2>3 DEF Handing
  <2>5. mem["msg"] = "none" /\ mem["str"] = "none" /\ mem' = mem
    BY <2>2 DEF Handing
  <2> HIDE DEF Is, At, Beyond, Proceed
  <2> QED BY <1>0, <2>3, <2>4, <2>5 DEF Handing
<1>6. CASE WildId
  <2>1. thread[0].at = 2 /\ Op(0) = <<"join", 1>>
    BY <1>6, HandedCalls DEF WildId, Handing
  <2> QED BY <1>6, <2>1 DEF WildId, Handing
<1>7. CASE Cancel \/ SigAction
  BY <1>0, <1>2, <1>7 DEF Cancel, SigAction
<1>8. CASE MainReturns
  <2>1. /\ UNCHANGED mem
        /\ \E l \in {"returned", "failed", "done"} : thread' = [thread EXCEPT ![0].life = l]
    BY <1>8 DEF MainReturns
  <2> QED BY <1>0, <2>1 DEF Types, ThreadRec, Handing
<1>9. CASE ProcessEnds \/ Send \/ Deliver
  BY <1>9 DEF ProcessEnds, Send, Deliver, Handing
<1>10. ASSUME NEW t \in Thread, Return(t) PROVE Handing'
  <2>1. t = 1 /\ Op(1)[1] = "return" /\ UNCHANGED mem /\ thread[0].at = 2 /\ thread[1].life = "run"
    BY <1>1, <1>10 DEF Return
  <2>2. thread[1].at # 1 /\ thread[1].detached = FALSE
    BY <2>1, HandedCalls DEF Handing
  <2>3. thread' = [thread EXCEPT ![1] = [thread[1] EXCEPT !.life = "done"]]
    BY <1>10, <2>1, <2>2 DEF Return, Ended
  <2>4. thread'[1].life = "done" /\ thread'[1].detached = thread[1].detached /\ \A u \in Thread \ {1} : thread'[u] = thread[u]
    BY <1>0, <2>3 DEF Types, ThreadRec
  <2> QED BY <1>0, <2>1, <2>2, <2>4 DEF Handing
<1>11. ASSUME NEW t \in Thread,
              \/ Detach(t) \/ Cancelled(t) \/ Printf(t) \/ Synchronise(t) \/ Mask(t)
       PROVE  FALSE
  BY <1>2, <1>11 DEF Detach, Cancelled, Printf, Synchronise, Mask
<1>12. ASSUME NEW t \in Thread, NullPointer(t) \/ SigWait(t) PROVE Handing'
  BY <1>12 DEF NullPointer, SigWait, Handing
<1>13. ASSUME NEW t \in Thread, Memory(t) PROVE Handing'
  <2>1. thread' = [thread EXCEPT ![t].at = thread[t].at + 1] /\ Running(t)
    BY <1>13 DEF Memory
  <2>2. /\ \A u \in Thread \ {t} : thread'[u] = thread[u]
        /\ thread'[t].at = thread[t].at + 1 /\ thread'[t].life = thread[t].life
        /\ thread'[t].detached = thread[t].detached
    BY <1>0, <2>1 DEF Types, ThreadRec
  <2>3. CASE t = 0
    <3>1. \/ thread[0].at = 5 /\ UNCHANGED mem
          \/ thread[0].at = 6 /\ mem' = [mem EXCEPT !["ret"] = "freed"]
      BY <1>13, <2>3, HandedCalls DEF Memory, Store, Handing
    <3> QED BY <1>0, <2>2, <2>3, <3>1 DEF Handing
  <2>4. CASE t = 1
    <3>1. \/ thread[1].at = 1 /\ \E s \in Here : mem' = [mem EXCEPT !["ret"] = s]
          \/ thread[1].at = 3 /\ UNCHANGED mem
      BY <1>13, <2>4, HandedCalls DEF Memory, Store, Handing, Here
    <3>2. thread[0].at = 2 /\ thread[1].life = "run"
      BY <1>1, <2>1, <2>4
    <3> QED BY <1>0, <2>2, <2>4, <3>1, <3>2 DEF Handing, Here
  <2> QED BY <1>1, <2>1, <2>3, <2>4
<1>14. ASSUME NEW t \in Thread, Control(t) PROVE Handing'
  <2>1. UNCHANGED mem /\ Running(t)
    BY <1>14 DEF Control
  <2>2. CASE t = 0
    <3>1. \/ thread[0].at = 3 /\ thread' = [thread EXCEPT ![0].at = 4]
          \/ thread[0].at = 4 /\ mem["ret"] = "null" /\ thread' = [thread EXCEPT ![0].at = 7]
          \/ thread[0].at = 4 /\ mem["ret"] # "null" /\ thread' = [thread EXCEPT ![0].at = 5]
      BY <1>14, <2>2, HandedCalls DEF Control, Handing
    <3> QED BY <1>0, <2>1, <3>1 DEF Types, ThreadRec, Handing, Here
  <2>3. CASE t = 1
    <3>1. \/ thread[1].at = 2 /\ mem["ret"] = "null" /\ thread' = [thread EXCEPT ![1].at = 4]
          \/ thread[1].at = 2 /\ mem["ret"] # "null" /\ thread' = [thread EXCEPT ![1].at = 3]
      BY <1>14, <2>3, HandedCalls DEF Control, Handing
    <3>2. thread[0].at = 2 /\ thread[1].life = "run"
      BY <1>1, <2>1, <2>3
    <3> QED BY <1>0, <2>1, <3>1, <3>2 DEF Types, ThreadRec, Handing, Here
  <2> QED BY <1>1, <2>1, <2>2, <2>3
<1> QED BY <1>3, <1>4, <1>5, <1>6, <1>7, <1>8, <1>9, <1>10, <1>11, <1>12, <1>13, <1>14 DEF Next, MainStep, ThreadStep

-----------------------------------------------------------------------------
(* struct_thread.c: the struct and its string are main's until the thread  *)
(* is made, and then the thread's, which frees the string first.           *)
Gone == {"null", "freed"}

\* as the thread that owns the two sees them, by the call that it makes next
Owned == /\ thread[1].at \in 1..7
         /\ thread[1].at =< 6 => mem["msg"] = "live"
         /\ thread[1].at \in {1, 2, 4, 5} => mem["str"] \in Here
         /\ thread[1].at = 3 => mem["str"] = "live"
         /\ thread[1].at \in {6, 7} => mem["str"] \in Gone
         /\ thread[1].at = 7 => mem["msg"] = "freed"

Giving ==
  /\ mem["ret"] = "none"
  /\ thread[0].at \in 1..10
  /\ thread[0].at =< 3 => mem["str"] = "none"
  /\ thread[0].at = 1 => mem["msg"] = "none"
  /\ thread[0].at = 2 => mem["msg"] \in Here
  /\ thread[0].at \in {3, 4, 5, 7, 8, 9} => mem["msg"] = "live"
  /\ thread[0].at \in {4, 5, 7, 8} => mem["str"] \in Here
  /\ thread[0].at \in {9, 10} => mem["str"] \in Gone
  /\ thread[0].at = 10 => mem["msg"] = "freed"
  /\ \A w \in Workers : thread[w].life # "none" => w = 1 /\ thread[0].at = 6
  /\ thread[0].at = 6 => \/ thread[1].life = "none" /\ mem["msg"] = "freed" /\ mem["str"] \in Gone
                         \/ thread[1].life = "run" /\ thread[1].detached = TRUE /\ Owned

Given == program = "struct_thread"

LEMMA GivenCalls ==
  ASSUME Types, Located, Given, thread[0].at \in 1..10
  PROVE  /\ thread[0].at = 1 => Op(0) = <<"malloc", "msg">>
         /\ thread[0].at = 2 => Op(0) = <<"use", "msg">>
         /\ thread[0].at = 3 => Op(0) = <<"malloc", "str">>
         /\ thread[0].at = 4 => Op(0) = <<"use", "msg">>
         /\ thread[0].at = 5 => Op(0) = <<"spawn", 1, 7>>
         /\ thread[0].at = 6 => Op(0) = <<"return">>
         /\ thread[0].at = 7 => Op(0) = <<"use", "msg">>
         /\ thread[0].at = 8 => Op(0) = <<"free", "str">>
         /\ thread[0].at = 9 => Op(0) = <<"free", "msg">>
         /\ thread[0].at = 10 => Op(0) = <<"fail">>
         /\ \/ thread[1].at = 1 /\ Op(1) = <<"use", "msg">>
            \/ thread[1].at = 2 /\ Op(1) = <<"ifnull", "str", 4>>
            \/ thread[1].at = 3 /\ Op(1) = <<"use", "str">>
            \/ thread[1].at = 4 /\ Op(1) = <<"use", "msg">>
            \/ thread[1].at = 5 /\ Op(1) = <<"free", "str">>
            \/ thread[1].at = 6 /\ Op(1) = <<"free", "msg">>
            \/ thread[1].at = 7 /\ Op(1) = <<"return">>
<1>1. 1 \in Workers /\ 1 \in Thread
  BY ThreadAssumption DEF Workers, Thread
<1>2. Op(0) = StructThread.main[thread[0].at]
  BY Titles DEF Op, Code, Given
<1> DEFINE m == StructThread.main
           h == thread[0].at
           c == StructThread.work[1]
           k == thread[1].at
<1>3. m = << <<"malloc", "msg">>, <<"use", "msg">>, <<"malloc", "str">>, <<"use", "msg">>, <<"spawn", 1, 7>>,
             <<"return">>, <<"use", "msg">>, <<"free", "str">>, <<"free", "msg">>, <<"fail">> >>
  BY DEF StructThread, StructOwner
<1>4. c = << <<"use", "msg">>, <<"ifnull", "str", 4>>, <<"use", "str">>,
             <<"use", "msg">>, <<"free", "str">>, <<"free", "msg">>, <<"return">> >>
  BY <1>1 DEF StructThread, Each
<1>5. Op(1) = c[k] /\ k \in DOMAIN c
  BY <1>1, Titles DEF Op, Code, Located, Given
<1>6. Op(0) = m[h] /\ h \in 1..10
  BY <1>2
<1> HIDE DEF m, h, c, k
<1>7. /\ h = 1 => Op(0) = <<"malloc", "msg">>
      /\ h = 2 => Op(0) = <<"use", "msg">>
      /\ h = 3 => Op(0) = <<"malloc", "str">>
      /\ h = 4 => Op(0) = <<"use", "msg">>
      /\ h = 5 => Op(0) = <<"spawn", 1, 7>>
      /\ h = 6 => Op(0) = <<"return">>
      /\ h = 7 => Op(0) = <<"use", "msg">>
      /\ h = 8 => Op(0) = <<"free", "str">>
      /\ h = 9 => Op(0) = <<"free", "msg">>
      /\ h = 10 => Op(0) = <<"fail">>
  BY <1>3, <1>6
<1>8. \/ k = 1 /\ Op(1) = <<"use", "msg">>
      \/ k = 2 /\ Op(1) = <<"ifnull", "str", 4>>
      \/ k = 3 /\ Op(1) = <<"use", "str">>
      \/ k = 4 /\ Op(1) = <<"use", "msg">>
      \/ k = 5 /\ Op(1) = <<"free", "str">>
      \/ k = 6 /\ Op(1) = <<"free", "msg">>
      \/ k = 7 /\ Op(1) = <<"return">>
  BY <1>4, <1>5
<1> QED BY <1>7, <1>8 DEF h, k

LEMMA GivingStep ==
  ASSUME Types, Located, MainStays, Given, Giving, Next
  PROVE  Giving'
<1> USE DEF Is, Arg, At, Beyond, Proceed
<1>0. /\ 0 \in Thread /\ 1 \in Thread /\ 1 \in Workers /\ Workers \subseteq Thread /\ Thread = DOMAIN thread
      /\ 0 \notin Workers /\ Thread = {0} \cup Workers
      /\ {"ret", "msg", "str"} \subseteq DOMAIN mem /\ DOMAIN mem = Block
  BY ThreadAssumption DEF Thread, Types, Workers, Block
<1>1. ASSUME NEW t \in Thread, Running(t)
      PROVE  t = 0 \/ (t = 1 /\ thread[0].at = 6 /\ thread[1].life = "run" /\ Owned)
  BY <1>0, <1>1 DEF Giving, Running
<1>2. ASSUME NEW t \in Thread
      PROVE  Running(t) => Op(t)[1] \in {"malloc", "use", "spawn", "free", "return", "fail", "ifnull"}
  BY <1>1, GivenCalls DEF Giving
<1>3. CASE Create
  <2>1. thread[0].at = 5 /\ Op(0) = <<"spawn", 1, 7>> /\ UNCHANGED mem
    BY <1>3, CreateStep, GivenCalls DEF Giving
  <2>2. /\ thread'[0] = [thread[0] EXCEPT !.at = thread[0].at + 1]
        /\ thread'[1].life = "run" /\ thread'[1].at = 1 /\ thread'[1].detached = TRUE
        /\ \A u \in Thread \ {0, 1} : thread'[u] = thread[u]
    <3>1. PICK w \in Workers :
             /\ Op(0)[2] \in {0, w}
             /\ thread'[0] = [thread[0] EXCEPT !.at = thread[0].at + 1]
             /\ \A u \in Thread \ {0, w} : thread'[u] = thread[u]
             /\ thread'[w].life = "run" /\ thread'[w].at = 1
             /\ (Op(0)[1] = "spawn" => thread'[w].detached = TRUE)
      BY <1>3, CreateStep
    <3>2. w = 1 /\ Op(0)[1] = "spawn"
      BY <2>1, <3>1
    <3> HIDE DEF Is, At, Beyond, Proceed
    <3> QED BY <3>1, <3>2
  <2>3. thread'[0].at = 6
    BY <1>0, <2>1, <2>2 DEF Types, ThreadRec
  <2>4. Owned'
    BY <2>1, <2>2 DEF Giving, Owned
  <2>5. \A w \in Workers : thread'[w].life # "none" => w = 1
    BY <1>0, <2>1, <2>2 DEF Giving
  <2>6. mem["ret"] = "none" /\ mem' = mem
    BY <2>1 DEF Giving
  <2> HIDE DEF Is, At, Beyond, Proceed
  <2> QED BY <2>2, <2>3, <2>4, <2>5, <2>6 DEF Giving
<1>4. CASE CreateFails
  <2>1. thread[0].at = 5 /\ Op(0) = <<"spawn", 1, 7>>
    BY <1>4, GivenCalls DEF CreateFails, Giving
  <2>2. UNCHANGED mem /\ Op(0)[3] = 7 /\ thread' = [thread EXCEPT ![0].at = Op(0)[3]]
    BY <1>4, <2>1 DEF CreateFails
  <2> QED BY <1>0, <2>1, <2>2 DEF Types, ThreadRec, Giving
<1>5. CASE Join \/ Cancel \/ SigAction
  BY <1>0, <1>2, <1>5 DEF Join, Cancel, SigAction
<1>6. CASE WildId
  BY <1>0, <1>2, <1>6 DEF WildId
<1>8. CASE MainReturns
  <2>1. /\ UNCHANGED mem
        /\ \E l \in {"returned", "failed", "done"} : thread' = [thread EXCEPT ![0].life = l]
    BY <1>8 DEF MainReturns
  <2>2. thread'[0].at = thread[0].at /\ \A w \in Workers : thread'[w] = thread[w]
    BY <1>0, <2>1 DEF Types, ThreadRec
  <2> HIDE DEF Is, At, Beyond, Proceed
  <2> QED BY <1>0, <2>1, <2>2 DEF Giving, Owned
<1>9. CASE ProcessEnds \/ Send \/ Deliver
  BY <1>9 DEF ProcessEnds, Send, Deliver, Giving, Owned
<1>10. ASSUME NEW t \in Thread, Return(t) PROVE Giving'
  <2>1. t = 1 /\ Op(1)[1] = "return" /\ UNCHANGED mem /\ thread[0].at = 6 /\ thread[1].life = "run" /\ Owned
    BY <1>1, <1>10 DEF Return
  <2>2. thread[1].at = 7 /\ thread[1].detached = TRUE
    BY <2>1, GivenCalls DEF Giving
  <2>3. thread' = [thread EXCEPT ![1] = Unborn]
    BY <1>10, <2>1, <2>2 DEF Return, Ended
  <2>4. thread'[1].life = "none" /\ \A u \in Thread \ {1} : thread'[u] = thread[u]
    BY <1>0, <2>3 DEF Unborn, Types
  <2> QED BY <1>0, <2>1, <2>2, <2>4 DEF Giving, Owned
<1>11. ASSUME NEW t \in Thread, Detach(t) \/ Cancelled(t) \/ Printf(t) \/ Synchronise(t) \/ Mask(t)
       PROVE  FALSE
  BY <1>2, <1>11 DEF Detach, Cancelled, Printf, Synchronise, Mask
<1>12. ASSUME NEW t \in Thread, NullPointer(t) \/ SigWait(t) PROVE Giving'
  BY <1>12 DEF NullPointer, SigWait, Giving, Owned
<1>13. ASSUME NEW t \in Thread, Memory(t) PROVE Giving'
  <2>1. thread' = [thread EXCEPT ![t].at = thread[t].at + 1] /\ Running(t)
    BY <1>13 DEF Memory
  <2>2. /\ \A u \in Thread \ {t} : thread'[u] = thread[u]
        /\ thread'[t].at = thread[t].at + 1 /\ thread'[t].life = thread[t].life
        /\ thread'[t].detached = thread[t].detached
    BY <1>0, <2>1 DEF Types, ThreadRec
  <2>3. CASE t = 0
    <3>1. \/ thread[0].at = 1 /\ \E s \in Here : mem' = [mem EXCEPT !["msg"] = s]
          \/ thread[0].at = 2 /\ mem["msg"] # "null" /\ UNCHANGED mem
          \/ thread[0].at = 3 /\ \E s \in Here : mem' = [mem EXCEPT !["str"] = s]
          \/ thread[0].at = 4 /\ UNCHANGED mem
          \/ thread[0].at = 7 /\ UNCHANGED mem
          \/ thread[0].at = 8 /\ \E s \in Gone : mem' = [mem EXCEPT !["str"] = s]
          \/ thread[0].at = 9 /\ mem' = [mem EXCEPT !["msg"] = "freed"]
      BY <1>13, <2>3, GivenCalls DEF Memory, Store, Giving, Here, Gone, Block
    <3> HIDE DEF Is, At, Beyond, Proceed
    <3> QED BY <1>0, <2>2, <2>3, <3>1 DEF Giving, Here, Gone
  <2>4. CASE t = 1
    <3>1. thread[0].at = 6 /\ thread[1].life = "run" /\ Owned /\ thread[1].detached = TRUE
      BY <1>1, <2>1, <2>4 DEF Giving
    <3>2. \/ thread[1].at = 1 /\ UNCHANGED mem
          \/ thread[1].at = 3 /\ UNCHANGED mem
          \/ thread[1].at = 4 /\ UNCHANGED mem
          \/ thread[1].at = 5 /\ \E s \in Gone : mem' = [mem EXCEPT !["str"] = s]
          \/ thread[1].at = 6 /\ mem' = [mem EXCEPT !["msg"] = "freed"]
      BY <1>13, <2>4, <3>1, GivenCalls DEF Memory, Store, Owned, Here, Gone
    <3> HIDE DEF Is, At, Beyond, Proceed
    <3>3. thread'[1].at = thread[1].at + 1 /\ Owned'
      BY <1>0, <2>2, <2>4, <3>1, <3>2 DEF Owned, Here, Gone
    <3>4. mem'["ret"] = mem["ret"]
      BY <1>0, <3>2
    <3> QED BY <1>0, <2>2, <2>4, <3>1, <3>3, <3>4 DEF Giving
  <2> QED BY <1>1, <2>1, <2>3, <2>4
<1>14. ASSUME NEW t \in Thread, Control(t) PROVE Giving'
  <2>1. UNCHANGED mem /\ Running(t) /\ Op(t)[1] = "ifnull"
    BY <1>2, <1>14 DEF Control
  <2>2. t = 1 /\ thread[0].at = 6 /\ thread[1].life = "run" /\ thread[1].at = 2 /\ Owned /\ thread[1].detached = TRUE
    BY <1>1, <2>1, GivenCalls DEF Giving
  <2>3. \/ mem["str"] = "null" /\ thread' = [thread EXCEPT ![1].at = 4]
        \/ mem["str"] # "null" /\ thread' = [thread EXCEPT ![1].at = 3]
    BY <1>14, <2>2, GivenCalls DEF Control, Giving
  <2>4. /\ \A u \in Thread \ {1} : thread'[u] = thread[u]
        /\ thread'[1].life = "run" /\ thread'[1].detached = TRUE
        /\ thread'[1].at = 4 \/ (mem["str"] # "null" /\ thread'[1].at = 3)
    BY <1>0, <2>2, <2>3 DEF Types, ThreadRec
  <2>5. Owned'
    BY <2>1, <2>2, <2>4 DEF Owned, Here
  <2> HIDE DEF Is, At, Beyond, Proceed
  <2> QED BY <1>0, <2>1, <2>2, <2>4, <2>5 DEF Giving
<1> QED BY <1>3, <1>4, <1>5, <1>6, <1>8, <1>9, <1>10, <1>11, <1>12, <1>13, <1>14 DEF Next, MainStep, ThreadStep

-----------------------------------------------------------------------------
(* thread_cancel_malloc.c: the buffer goes with the cancelled thread.      *)
Buffered == program = "thread_cancel_malloc"

Cancelling ==
  /\ mem["msg"] = "none" /\ mem["str"] = "none"
  /\ thread[0].at \in 1..4
  /\ \A w \in Workers : thread[w].life # "none" => w = 1 /\ thread[0].at \in {2, 3}
  /\ thread[1].life # "none" => thread[1].detached = FALSE
  /\ thread[1].life # "run" => mem["ret"] # "live"
  /\ thread[1].life = "run" /\ thread[1].at \in {3, 4} => "ret" \in thread[1].cleanup

LEMMA BufferedCalls ==
  ASSUME Types, Located, Buffered, thread[0].at \in 1..4
  PROVE  /\ thread[0].at = 1 => Op(0) = <<"create", 1, 0>>
         /\ thread[0].at = 2 => Op(0) = <<"cancel", 1>>
         /\ thread[0].at = 3 => Op(0) = <<"join", 1>>
         /\ thread[0].at = 4 => Op(0) = <<"return">>
         /\ \/ thread[1].at = 1 /\ Op(1) = <<"malloc", "ret">>
            \/ thread[1].at = 2 /\ Op(1) = <<"push", "ret">>
            \/ thread[1].at = 3 /\ Op(1) = <<"print">>
            \/ thread[1].at = 4 /\ Op(1) = <<"goto", 3>>
<1>1. 1 \in Workers /\ 1 \in Thread
  BY ThreadAssumption DEF Workers, Thread
<1>2. Op(0) = ThreadCancelMalloc.main[thread[0].at]
  BY Titles DEF Op, Code, Buffered
<1> DEFINE c == ThreadCancelMalloc.work[1]
           k == thread[1].at
<1>3. c = << <<"malloc", "ret">>, <<"push", "ret">>, <<"print">>, <<"goto", 3>> >>
  BY <1>1 DEF ThreadCancelMalloc, Each
<1>4. Op(1) = c[k] /\ k \in DOMAIN c
  BY <1>1, Titles DEF Op, Code, Located, Buffered
<1>5. /\ thread[0].at = 1 => Op(0) = <<"create", 1, 0>>
      /\ thread[0].at = 2 => Op(0) = <<"cancel", 1>>
      /\ thread[0].at = 3 => Op(0) = <<"join", 1>>
      /\ thread[0].at = 4 => Op(0) = <<"return">>
  BY <1>2 DEF ThreadCancelMalloc
<1> HIDE DEF c, k
<1>6. \/ k = 1 /\ Op(1) = <<"malloc", "ret">>
      \/ k = 2 /\ Op(1) = <<"push", "ret">>
      \/ k = 3 /\ Op(1) = <<"print">>
      \/ k = 4 /\ Op(1) = <<"goto", 3>>
  BY <1>3, <1>4
<1> QED BY <1>5, <1>6 DEF k

LEMMA CancellingStep ==
  ASSUME Types, Located, MainStays, Buffered, Cancelling, Next
  PROVE  Cancelling'
<1> USE DEF Is, Arg, At, Beyond, Proceed
<1>0. /\ 0 \in Thread /\ 1 \in Thread /\ 1 \in Workers /\ Workers \subseteq Thread /\ Thread = DOMAIN thread
      /\ 0 \notin Workers /\ Thread = {0} \cup Workers
      /\ {"ret", "msg", "str"} \subseteq DOMAIN mem /\ DOMAIN mem = Block
  BY ThreadAssumption DEF Thread, Types, Workers, Block
<1>1. ASSUME NEW t \in Thread, Running(t) PROVE t = 0 \/ (t = 1 /\ thread[0].at \in {2, 3} /\ thread[1].life = "run")
  BY <1>0, <1>1 DEF Cancelling, Running
<1>2. ASSUME NEW t \in Thread
      PROVE  Running(t) => Op(t)[1] \in {"create", "cancel", "join", "return", "malloc", "push", "print", "goto"}
  BY <1>1, BufferedCalls DEF Cancelling
<1>3. CASE Create
  <2>1. thread[0].at = 1 /\ Op(0) = <<"create", 1, 0>> /\ UNCHANGED mem
    BY <1>3, CreateStep, BufferedCalls DEF Cancelling
  <2>2. /\ thread'[0] = [thread[0] EXCEPT !.at = thread[0].at + 1]
        /\ thread'[1].life = "run" /\ thread'[1].at = 1 /\ thread'[1].detached = FALSE
        /\ \A u \in Thread \ {0, 1} : thread'[u] = thread[u]
    <3>1. PICK w \in Workers :
             /\ Op(0)[2] \in {0, w}
             /\ thread'[0] = [thread[0] EXCEPT !.at = thread[0].at + 1]
             /\ \A u \in Thread \ {0, w} : thread'[u] = thread[u]
             /\ thread'[w].life = "run" /\ thread'[w].at = 1
             /\ (Op(0)[1] = "create" => thread'[w].detached = FALSE)
      BY <1>3, CreateStep
    <3>2. w = 1 /\ Op(0)[1] = "create"
      BY <2>1, <3>1
    <3> HIDE DEF Is, At, Beyond, Proceed
    <3> QED BY <3>1, <3>2
  <2>3. thread'[0].at = 2
    BY <1>0, <2>1, <2>2 DEF Types, ThreadRec
  <2> QED BY <1>0, <2>1, <2>2, <2>3 DEF Cancelling
<1>4. CASE CreateFails
  <2>1. thread[0].at = 1 /\ Op(0) = <<"create", 1, 0>>
    BY <1>4, BufferedCalls DEF CreateFails, Cancelling
  <2>2. UNCHANGED mem /\ thread' = [thread EXCEPT ![0].at = thread[0].at + 1]
    BY <1>4, <2>1 DEF CreateFails
  <2>3. thread'[0].at = 2 /\ \A w \in Workers : thread'[w] = thread[w]
    BY <1>0, <2>1, <2>2 DEF Types, ThreadRec
  <2> QED BY <1>0, <2>1, <2>2, <2>3 DEF Cancelling
<1>5. CASE Join
  <2>1. thread[0].at = 3 /\ Op(0) = <<"join", 1>>
    BY <1>5, BufferedCalls DEF Join, Cancelling
  <2>2. /\ UNCHANGED mem /\ thread[1].life = "done"
        /\ Op(0)[2] = 1 /\ thread' = [[thread EXCEPT ![0].at = thread[0].at + 1] EXCEPT ![Op(0)[2]] = Unborn]
    BY <1>5, <2>1 DEF Join
  <2>3. thread'[0].at = 4 /\ thread'[1].life = "none" /\ \A u \in Thread \ {0, 1} : thread'[u] = thread[u]
    BY <1>0, <2>1, <2>2 DEF Unborn, Types, ThreadRec
  <2>4. mem["ret"] # "live" /\ \A w \in Workers : thread'[w].life = "none"
    BY <1>0, <2>1, <2>2, <2>3 DEF Cancelling
  <2>5. mem["msg"] = "none" /\ mem["str"] = "none" /\ mem' = mem
    BY <2>2 DEF Cancelling
  <2> HIDE DEF Is, At, Beyond, Proceed
  <2> QED BY <1>0, <2>3, <2>4, <2>5 DEF Cancelling
<1>6. CASE WildId
  <2>1. thread[0].at \in {2, 3} /\ Op(0)[2] = 1
    BY <1>6, BufferedCalls DEF WildId, Cancelling
  <2>2. /\ UNCHANGED mem /\ thread[1].life = "none"
        /\ (thread' = [thread EXCEPT ![0].at = thread[0].at + 1] \/ UNCHANGED thread)
    BY <1>6, <2>1 DEF WildId
  <2>3. /\ \A w \in Workers : thread'[w] = thread[w]
        /\ thread'[0].at \in 2..4
    BY <1>0, <2>1, <2>2 DEF Types, ThreadRec
  <2> HIDE DEF Is, At, Beyond, Proceed
  <2> QED BY <1>0, <2>2, <2>3 DEF Cancelling
<1>7. CASE Cancel
  <2>1. thread[0].at = 2 /\ Op(0)[2] = 1
    BY <1>7, BufferedCalls DEF Cancel, Cancelling
  <2>2. /\ UNCHANGED mem
        /\ thread' = [[thread EXCEPT ![0].at = thread[0].at + 1] EXCEPT ![Op(0)[2]].cancelled = TRUE]
    BY <1>7 DEF Cancel
  <2>3. /\ thread'[0].at = 3 /\ \A u \in Thread \ {0, 1} : thread'[u] = thread[u]
        /\ thread'[1] = [thread[1] EXCEPT !.cancelled = TRUE]
    <3> DEFINE r == [thread[0] EXCEPT !.at = thread[0].at + 1]
               v == Op(0)[2]
    <3>1. r.at = 3 /\ v = 1
      BY <1>0, <2>1 DEF Types, ThreadRec
    <3>2. thread' = [[thread EXCEPT ![0] = r] EXCEPT ![v].cancelled = TRUE]
      BY <2>2
    <3> HIDE DEF r, v
    <3> QED BY <1>0, <3>1, <3>2 DEF Types
  <2>4. thread'[1].life = thread[1].life /\ thread'[1].at = thread[1].at /\ thread'[1].cleanup = thread[1].cleanup
    BY <1>0, <2>3 DEF Types, ThreadRec
  <2>5. thread'[1].detached = thread[1].detached
    BY <1>0, <2>3 DEF Types, ThreadRec
  <2> HIDE DEF Is, At, Beyond, Proceed
  <2>6. /\ \A w \in Workers : thread'[w].life # "none" => w = 1
        /\ thread'[1].life # "none" => thread'[1].detached = FALSE
    BY <1>0, <2>1, <2>3, <2>4, <2>5 DEF Cancelling
  <2>7. /\ mem["msg"] = "none" /\ mem["str"] = "none" /\ mem' = mem
        /\ thread'[1].life # "run" => mem["ret"] # "live"
        /\ thread'[1].life = "run" /\ thread'[1].at \in {3, 4} => "ret" \in thread'[1].cleanup
    BY <2>2, <2>4 DEF Cancelling
  <2> QED BY <2>3, <2>6, <2>7 DEF Cancelling
<1>8. CASE SigAction
  BY <1>0, <1>2, <1>8 DEF SigAction
<1>9. CASE MainReturns
  <2>1. /\ UNCHANGED mem
        /\ \E l \in {"returned", "failed", "done"} : thread' = [thread EXCEPT ![0].life = l]
    BY <1>9 DEF MainReturns
  <2>2. thread'[0].at = thread[0].at /\ \A w \in Workers : thread'[w] = thread[w]
    BY <1>0, <2>1 DEF Types, ThreadRec
  <2> HIDE DEF Is, At, Beyond, Proceed
  <2> QED BY <1>0, <2>1, <2>2 DEF Cancelling
<1>10. CASE ProcessEnds \/ Send \/ Deliver
  BY <1>10 DEF ProcessEnds, Send, Deliver, Cancelling
<1>11. ASSUME NEW t \in Thread, Return(t) PROVE FALSE
  BY <1>1, <1>11, BufferedCalls DEF Return, Cancelling
<1>12. ASSUME NEW t \in Thread, Detach(t) \/ Synchronise(t) \/ Mask(t) \/ SigWait(t) \/ NullPointer(t)
       PROVE  FALSE
  BY <1>2, <1>12 DEF Detach, Synchronise, Mask, SigWait, NullPointer
<1>13. ASSUME NEW t \in Thread, Cancelled(t) PROVE Cancelling'
  <2>1. t = 1 /\ thread[0].at \in {2, 3} /\ thread[1].life = "run" /\ thread[1].at = 3
    <3>1. Running(t) /\ Op(t)[1] \in {"print", "testcancel"}
      BY <1>13 DEF Cancelled
    <3> QED BY <1>1, <3>1, BufferedCalls DEF Cancelling
  <2>2. "ret" \in thread[1].cleanup /\ thread[1].detached = FALSE
    BY <2>1 DEF Cancelling
  <2>3. /\ thread' = [thread EXCEPT ![1] = [thread[1] EXCEPT !.life = "done"]]
        /\ mem' = [b \in Block |-> IF b \in thread[1].cleanup /\ mem[b] = "live" THEN "freed" ELSE mem[b]]
    BY <1>13, <2>1, <2>2 DEF Cancelled, Ended
  <2>4. thread'[1].life = "done" /\ thread'[1].detached = thread[1].detached /\ \A u \in Thread \ {1} : thread'[u] = thread[u]
    BY <1>0, <2>3 DEF Types, ThreadRec
  <2>5. mem'["ret"] # "live" /\ mem'["msg"] = "none" /\ mem'["str"] = "none"
    BY <1>0, <2>2, <2>3 DEF Cancelling
  <2> HIDE DEF Is, At, Beyond, Proceed
  <2> QED BY <1>0, <2>1, <2>2, <2>4, <2>5 DEF Cancelling
<1>14. ASSUME NEW t \in Thread, Printf(t) \/ Memory(t) \/ Control(t) PROVE Cancelling'
  <2>1. t = 1 /\ thread[0].at \in {2, 3} /\ thread[1].life = "run" /\ thread[1].detached = FALSE
    <3>1. Running(t) /\ Op(t)[1] \notin {"create", "cancel", "join", "return"}
      BY <1>14 DEF Printf, Memory, Control
    <3> QED BY <1>1, <3>1, BufferedCalls DEF Cancelling
  <2>2. /\ \A b \in {"msg", "str"} : mem'[b] = mem[b]
        /\ \/ \E k \in {2, 3, 4} : /\ thread' = [thread EXCEPT ![1].at = k]
                                   /\ k \in {3, 4} => "ret" \in thread[1].cleanup
           \/ thread' = [[thread EXCEPT ![1].at = 3] EXCEPT ![1].cleanup = thread[1].cleanup \cup {"ret"}]
    <3>1. CASE Printf(t)
      <4>1. thread[1].at = 3
        BY <2>1, <3>1, BufferedCalls DEF Printf, Cancelling
      <4> QED BY <2>1, <3>1, <4>1 DEF Printf, Cancelling
    <3>2. CASE Memory(t)
      <4>1. thread[1].at = 1 /\ Op(1) = <<"malloc", "ret">>
        BY <2>1, <3>2, BufferedCalls DEF Memory, Cancelling
      <4>2. \E s \in Here : mem' = [mem EXCEPT !["ret"] = s]
        BY <2>1, <3>2, <4>1 DEF Memory, Store, Here
      <4> QED BY <1>0, <2>1, <3>2, <4>1, <4>2 DEF Memory
    <3>3. CASE Control(t)
      <4>1. \/ thread[1].at = 2 /\ Op(1) = <<"push", "ret">>
            \/ thread[1].at = 4 /\ Op(1) = <<"goto", 3>>
        BY <2>1, <3>3, BufferedCalls DEF Control, Cancelling
      <4>2. CASE thread[1].at = 4 /\ Op(1) = <<"goto", 3>>
        BY <2>1, <3>3, <4>2 DEF Control, Cancelling
      <4>3. CASE thread[1].at = 2 /\ Op(1) = <<"push", "ret">>
        BY <1>0, <2>1, <3>3, <4>3 DEF Control, Types
      <4> QED BY <4>1, <4>2, <4>3
    <3> QED BY <1>14, <3>1, <3>2, <3>3
  <2>3. /\ \A u \in Thread \ {1} : thread'[u] = thread[u]
        /\ thread'[1].life = "run" /\ thread'[1].detached = FALSE
        /\ thread'[1].at \in {3, 4} => "ret" \in thread'[1].cleanup
    <3>1. CASE \E k \in {2, 3, 4} : /\ thread' = [thread EXCEPT ![1].at = k]
                                    /\ k \in {3, 4} => "ret" \in thread[1].cleanup
      BY <1>0, <2>1, <3>1 DEF Types, ThreadRec
    <3>2. CASE thread' = [[thread EXCEPT ![1].at = 3] EXCEPT ![1].cleanup = thread[1].cleanup \cup {"ret"}]
      <4> DEFINE r == [thread[1] EXCEPT !.at = 3]
                 q == [r EXCEPT !.cleanup = thread[1].cleanup \cup {"ret"}]
      <4>1. thread' = [thread EXCEPT ![1] = q]
        BY <1>0, <3>2 DEF Types
      <4>2. r.life = "run" /\ r.detached = FALSE /\ r \in ThreadRec
        BY <1>0, <2>1 DEF Types, ThreadRec
      <4> HIDE DEF r
      <4>3. q.life = "run" /\ q.detached = FALSE /\ "ret" \in q.cleanup
        BY <4>2 DEF ThreadRec
      <4> HIDE DEF q
      <4> QED BY <1>0, <4>1, <4>3 DEF Types
    <3> QED BY <2>2, <3>1, <3>2, Zenon
  <2> HIDE DEF Is, At, Beyond, Proceed
  <2> QED BY <1>0, <2>1, <2>2, <2>3 DEF Cancelling
<1> QED BY <1>3, <1>4, <1>5, <1>6, <1>7, <1>8, <1>9, <1>10, <1>11, <1>12, <1>13, <1>14 DEF Next, MainStep, ThreadStep

-----------------------------------------------------------------------------
(* struct_thread_stack.c and thread.c: main is in its frame as long as a   *)
(* thread is there, but for the failure of thread.c.                       *)
OnStack == program = "struct_thread_stack"

Framed == \A w \in Workers : thread[w].life # "none" => w = 1 /\ thread[0].at = 2

LEMMA OnStackCalls ==
  ASSUME Types, Located, OnStack
  PROVE  /\ thread[0].at \in 1..4
         /\ thread[0].at = 1 => Op(0) = <<"create", 1, 4>>
         /\ thread[0].at = 2 => Op(0) = <<"join", 1>>
         /\ thread[0].at = 3 => Op(0) = <<"return">>
         /\ thread[0].at = 4 => Op(0) = <<"fail">>
<1>1. 0 \in Thread
  BY DEF Thread
<1> DEFINE c == StructThreadStack.main
           k == thread[0].at
<1>2. c = << <<"create", 1, 4>>, <<"join", 1>>, <<"return">>, <<"fail">> >>
  BY DEF StructThreadStack
<1>3. Op(0) = c[k] /\ k \in DOMAIN c
  BY <1>1, Titles DEF Op, Code, Located, OnStack
<1> HIDE DEF c, k
<1>4. /\ k \in 1..4
      /\ k = 1 => Op(0) = <<"create", 1, 4>>
      /\ k = 2 => Op(0) = <<"join", 1>>
      /\ k = 3 => Op(0) = <<"return">>
      /\ k = 4 => Op(0) = <<"fail">>
  BY <1>2, <1>3
<1> QED BY <1>4 DEF k

LEMMA FramedStep ==
  ASSUME Types, Located, MainStays, OnStack, Framed, Next
  PROVE  Framed'
<1>0. /\ 0 \in Thread /\ 1 \in Thread /\ 1 \in Workers /\ Workers \subseteq Thread
      /\ 0 \notin Workers
  BY ThreadAssumption DEF Thread, Workers
<1>1. ASSUME NEW w \in Workers, thread'[w].life # "none", thread[w].life = "none"
      PROVE  w = 1 /\ thread'[0].at = 2
  <2>1. thread'[w] # thread[w]
    BY <1>1
  <2>2. Create /\ (Is(0, "create") \/ Is(0, "spawn")) /\ Arg(0) \in {0, w} /\ w # 0
    BY <1>0, <1>1, <2>1, AwayStep
  <2>3. thread[0].at = 1 /\ w = 1
    BY <1>0, <2>2, OnStackCalls DEF Is, Arg
  <2>4. thread'[0] = [thread[0] EXCEPT !.at = thread[0].at + 1]
    BY <2>2, CreateStep
  <2>5. thread'[0].at = 2
    BY <1>0, <2>3, <2>4 DEF Types, ThreadRec
  <2> QED BY <2>3, <2>5
<1>2. ASSUME NEW w \in Workers, thread'[w].life # "none", thread[w].life # "none"
      PROVE  w = 1 /\ thread'[0].at = 2
  <2>1. w = 1 /\ thread[0].at = 2 /\ Op(0) = <<"join", 1>>
    BY <1>2, OnStackCalls DEF Framed
  <2>2. CASE thread'[0].at # thread[0].at
    <3>1. Running(0)
      BY <1>0, <2>2, PlaceStep, MainStaysStep DEF MainStays
    <3>2. thread'[Op(0)[2]].life = "none"
      BY <2>1, <2>2, <3>1, JoinStep DEF Is
    <3> QED BY <1>2, <2>1, <3>2
  <2> QED BY <2>1, <2>2
<1> QED BY <1>1, <1>2 DEF Framed

(* struct_main.c: a thread is there only behind the pthread_create, where  *)
(* main leaves with pthread_exit.                                          *)
Departing == program = "struct_main"

Behind == \A w \in Workers : thread[w].life # "none" => thread[0].at = 2

LEMMA DepartingCalls ==
  ASSUME Types, Located, Departing
  PROVE  /\ thread[0].at \in 1..3
         /\ thread[0].at = 1 => Op(0) = <<"create", 1, 3>>
         /\ thread[0].at = 2 => Op(0) = <<"exit">>
         /\ thread[0].at = 3 => Op(0) = <<"fail">>
<1>1. 0 \in Thread
  BY DEF Thread
<1> DEFINE c == StructMain.main
           k == thread[0].at
<1>2. c = << <<"create", 1, 3>>, <<"exit">>, <<"fail">> >>
  BY DEF StructMain
<1>3. Op(0) = c[k] /\ k \in DOMAIN c
  BY <1>1, Titles DEF Op, Code, Located, Departing
<1> HIDE DEF c, k
<1>4. /\ k \in 1..3
      /\ k = 1 => Op(0) = <<"create", 1, 3>>
      /\ k = 2 => Op(0) = <<"exit">>
      /\ k = 3 => Op(0) = <<"fail">>
  BY <1>2, <1>3
<1> QED BY <1>4 DEF k

(* Nobody goes on from pthread_exit.                                       *)
LEMMA ExitStep ==
  ASSUME Types, Located, Next, Op(0)[1] = "exit"
  PROVE  thread'[0].at = thread[0].at
<1>0. 0 \in Thread /\ Thread = DOMAIN thread
  BY DEF Thread, Types
<1>1. CASE MainStep
  <2>1. MainReturns
    BY <1>1, CreateStep DEF MainStep, CreateFails, Join, Cancel, WildId, SigAction, Is
  <2> QED BY <1>0, <2>1 DEF MainReturns, Is, Types, ThreadRec
<1>2. CASE ProcessEnds \/ Send \/ Deliver
  BY <1>2 DEF ProcessEnds, Send, Deliver
<1>3. ASSUME NEW t \in Thread, ThreadStep(t) \/ Cancelled(t) PROVE thread'[0] = thread[0]
  <2>1. t # 0
    BY <1>3 DEF ThreadStep, Return, Detach, Printf, Memory, NullPointer, Control, Synchronise, Mask, SigWait,
                Cancelled, Is
  <2>2. \E v : thread' = [thread EXCEPT ![t] = v] \/ thread' = thread
    BY <1>0, <1>3 DEF ThreadStep, Return, Detach, Printf, Memory, NullPointer, Control, Synchronise, Mask, SigWait,
                Cancelled, Proceed, Beyond, At, Types
  <2> QED BY <1>0, <2>1, <2>2
<1> QED BY <1>1, <1>2, <1>3 DEF Next

LEMMA BehindStep ==
  ASSUME Types, Located, Departing, Behind, Next
  PROVE  Behind'
<1>0. 0 \in Thread /\ Workers \subseteq Thread /\ 0 \notin Workers
  BY ThreadAssumption DEF Thread, Workers
<1> SUFFICES ASSUME NEW w \in Workers, thread'[w].life # "none" PROVE thread'[0].at = 2
  BY DEF Behind
<1>1. CASE thread[w].life = "none"
  <2>1. Create /\ (Is(0, "create") \/ Is(0, "spawn"))
    BY <1>0, <1>1, AwayStep
  <2>2. thread[0].at = 1
    BY <2>1, DepartingCalls DEF Is
  <2>3. thread'[0] = [thread[0] EXCEPT !.at = thread[0].at + 1]
    BY <2>1, CreateStep
  <2> QED BY <1>0, <2>2, <2>3 DEF Types, ThreadRec
<1>2. CASE thread[w].life # "none"
  <2>1. thread[0].at = 2 /\ Op(0)[1] = "exit"
    BY <1>2, DepartingCalls DEF Behind
  <2> QED BY <2>1, ExitStep
<1> QED BY <1>1, <1>2

(* thread.c makes no more threads than it joins.                           *)
Borrowed == program = "thread"

FewOnly == \A w \in Workers : w > Few => thread[w].life = "none"

LEMMA BorrowedCalls ==
  ASSUME Types, Located, Borrowed
  PROVE  /\ Code(0) = SelfIds.main /\ thread[0].at \in 1..3 * Few + 2
         /\ Op(0) = SelfIds.main[thread[0].at]
BY Titles, SelfIdsMain DEF Op, Code, Located, Borrowed, Thread

LEMMA FewStep ==
  ASSUME Types, Located, Borrowed, FewOnly, Next
  PROVE  FewOnly'
<1> SUFFICES ASSUME NEW w \in Workers, w > Few, thread'[w].life # "none" PROVE FALSE
  BY DEF FewOnly
<1>1. w \in Thread /\ thread[w].life = "none" /\ w # 0 /\ Few \in Nat /\ w \in Int
  BY ThreadAssumption DEF Thread, FewOnly, Workers
<1>2. (Is(0, "create") \/ Is(0, "spawn")) /\ Arg(0) \in {0, w}
  BY <1>1, AwayStep
<1>3. Op(0)[1] \in {"create", "spawn"} /\ Op(0)[2] \in {0, w}
  BY <1>2 DEF Is, Arg
<1> DEFINE k == thread[0].at
<1>4. k \in 1..3 * Few + 2 /\ Op(0) = SelfIds.main[k]
  BY BorrowedCalls
<1> HIDE DEF k
<1>5. \/ k \in 1..Few /\ Op(0) = <<"create", k, 3 * Few + 2>>
      \/ k \in Few + 1..2 * Few /\ Op(0) = <<"join", k - Few>>
      \/ k \in 2 * Few + 1..3 * Few /\ Op(0) = <<"claim", k - 2 * Few>>
      \/ k = 3 * Few + 1 /\ Op(0) = <<"return">>
      \/ k = 3 * Few + 2 /\ Op(0) = <<"fail">>
  BY <1>4, SelfIdsParts
<1>6. k \in 1..Few /\ Op(0)[2] = k
  BY <1>3, <1>5
<1> QED BY <1>1, <1>3, <1>6

(* When thread.c's main returns, every thread has been joined.             *)
LEMMA AllJoined ==
  ASSUME Types, Located, Borrowed, FewOnly, Joined, Op(0)[1] = "return", NEW w \in Workers
  PROVE  thread[w].life = "none"
<1> DEFINE c == SelfIds.main
           e == 3 * Few + 1
<1>1. Few \in Nat /\ w \in Nat /\ 1 <= w
  BY ThreadAssumption DEF Workers
<1>2. c = Code(0) /\ thread[0].at \in DOMAIN c /\ Op(0) = c[thread[0].at] /\ DOMAIN c = 1..3 * Few + 2
  BY BorrowedCalls, SelfIdsMain
<1>3. ASSUME NEW k \in DOMAIN c
      PROVE  \/ k \in 1..Few /\ c[k] = <<"create", k, 3 * Few + 2>>
             \/ k \in Few + 1..2 * Few /\ c[k] = <<"join", k - Few>>
             \/ k \in 2 * Few + 1..3 * Few /\ c[k] = <<"claim", k - 2 * Few>>
             \/ k = e /\ c[k] = <<"return">>
             \/ k = 3 * Few + 2 /\ c[k] = <<"fail">>
  BY <1>2, SelfIdsParts
<1> HIDE DEF c
<1>4. thread[0].at = e
  BY <1>2, <1>3
<1>5. CASE w =< Few
  <2> DEFINE j == Few + w
  <2>1. j \in DOMAIN c /\ j \in Few + 1..2 * Few /\ j < e /\ j - Few = w /\ e \in DOMAIN c
    BY <1>1, <1>2, <1>5
  <2> HIDE DEF j
  <2>2. c[j] = <<"join", w>>
    BY <1>1, <1>3, <2>1
  <2>3. ASSUME NEW m \in DOMAIN c, j < m, m =< e
        PROVE  c[m][1] \notin {"create", "spawn"} /\ \A n \in DOMAIN c : ~JumpsTo(c, n, m)
    <3>1. m \in Few + 1..e
      BY <1>1, <1>2, <2>1, <2>3
    <3>2. c[m][1] \in {"join", "claim", "return"}
      BY <1>1, <1>3, <3>1
    <3>3. ASSUME NEW n \in DOMAIN c PROVE ~JumpsTo(c, n, m)
      BY <1>1, <1>3, <3>1 DEF JumpsTo
    <3> QED BY <3>2, <3>3
  <2>4. Straight(c, j, e)
    BY <2>1, <2>2, <2>3 DEF Straight
  <2>5. j < thread[0].at /\ thread[0].at =< e
    BY <1>1, <1>4, <2>1
  <2> HIDE DEF e
  <2> QED BY <1>2, <2>1, <2>2, <2>4, <2>5 DEF Joined
<1>6. CASE w > Few
  BY <1>6 DEF FewOnly
<1> QED BY <1>1, <1>5, <1>6

-----------------------------------------------------------------------------
(* All of it together.                                                     *)
Minding == /\ Types /\ Located /\ MainStays /\ Joined /\ Left /\ Untouched
           /\ Handed => Handing
           /\ Given => Giving
           /\ Buffered => Cancelling
           /\ OnStack => Framed
           /\ Departing => Behind
           /\ Borrowed => FewOnly

LEMMA MindingStart == Init => Minding
<1> SUFFICES ASSUME Init PROVE Minding
  OBVIOUS
<1>0. 0 \in Thread /\ Workers \subseteq Thread /\ 0 \notin Workers /\ 1 \in Workers
  BY ThreadAssumption DEF Thread, Workers
<1>1. Types /\ Located /\ Joined /\ MainStays
  BY ThreadsStart
<1>2. /\ thread[0].life = "run" /\ thread[0].at = 1
      /\ \A w \in Workers : thread[w] = Unborn
  BY <1>0 DEF Init, Unborn
<1>3. \A b \in Block : mem[b] = "none"
  BY DEF Init
<1>4. \A w \in Workers : thread[w].life = "none"
  BY <1>2 DEF Unborn
<1>5. mem["msg"] = "none" /\ mem["str"] = "none" /\ mem["ret"] = "none"
  BY <1>3 DEF Block
<1>6. Left
  BY <1>2 DEF Left, Init
<1>7. Untouched /\ Handing /\ Giving /\ Cancelling
  BY <1>0, <1>2, <1>3, <1>4, <1>5 DEF Untouched, Handing, Giving, Cancelling
<1>8. Framed /\ Behind /\ FewOnly
  BY <1>4 DEF Framed, Behind, FewOnly
<1> QED BY <1>1, <1>6, <1>7, <1>8 DEF Minding

LEMMA MindingStep == Minding /\ [Next]_vars => Minding'
<1>1. ASSUME Minding, Next PROVE Minding'
  <2>1. Types' /\ Located' /\ MainStays' /\ Joined' /\ program' = program
    BY <1>1, TypesStep, LocatedStep, MainStaysStep, JoinedStep DEF Minding
  <2>2. Left' /\ Untouched'
    BY <1>1, LeftStep, UntouchedStep DEF Minding
  <2>3. (Handed => Handing)'
    BY <1>1, <2>1, HandingStep DEF Minding, Handed
  <2>4. (Given => Giving)'
    BY <1>1, <2>1, GivingStep DEF Minding, Given
  <2>5. (Buffered => Cancelling)'
    BY <1>1, <2>1, CancellingStep DEF Minding, Buffered
  <2>6. (OnStack => Framed)'
    BY <1>1, <2>1, FramedStep DEF Minding, OnStack
  <2>7. (Borrowed => FewOnly)'
    BY <1>1, <2>1, FewStep DEF Minding, Borrowed
  <2>8. (Departing => Behind)'
    BY <1>1, <2>1, BehindStep DEF Minding, Departing
  <2> QED BY <2>1, <2>2, <2>3, <2>4, <2>5, <2>6, <2>7, <2>8 DEF Minding
<1>2. ASSUME Minding, UNCHANGED vars PROVE Minding'
  BY <1>2 DEF Minding, Types, Located, MainStays, Joined, Left, Untouched, Handed, Handing, Given, Giving, Owned,
              Buffered, Cancelling, OnStack, Framed, Departing, Behind, Borrowed, FewOnly, Op, Code, vars
<1> QED BY <1>1, <1>2

(* A block is there when it is used or freed, and main's frame when a      *)
(* thread uses it, but for the frame that struct_main.c leaves with        *)
(* pthread_exit and the one thread.c leaves when a pthread_create fails.   *)
THEOREM AccessIsLive == Spec => []AccessLive
<1>1. Minding => AccessLive
  <2> SUFFICES ASSUME Minding, NEW t \in Thread, Is(t, "use") \/ Is(t, "free")
               PROVE  IF Arg(t) = "frame"
                      THEN FrameLives \/ FrameLeft
                      ELSE mem[Arg(t)] \in {"live", "null"}
    BY DEF AccessLive
  <2>0. /\ Types /\ Located /\ Op(t)[1] \in {"use", "free"} /\ Arg(t) = Op(t)[2]
        /\ over = "no" /\ thread[t].life = "run" /\ 0 \in Thread
        /\ program \in DOMAIN Script /\ 1 \in Workers
    BY ThreadAssumption DEF Minding, Is, Arg, Running, Types, Thread, Workers
  <2>1. CASE Arg(t) = "frame"
    <3>1. CASE t = 0
      BY <2>0, <2>1, <3>1 DEF FrameLives
    <3>2. CASE t # 0
      <4>1. t \in Workers
        BY <3>2 DEF Thread
      <4>2. program \in Borrowers
        <5> SUFFICES ASSUME program \notin Borrowers PROVE FALSE
          OBVIOUS
        <5> DEFINE c == Code(t)
                   k == thread[t].at
        <5>1. NoFrame(c)
          BY <2>0, <3>2, <4>1, ScriptsFrame DEF AllNoFrame, Code
        <5>2. WellFormed(c) /\ k \in DOMAIN c /\ Op(t) = c[k]
          BY <2>0, CodeForm DEF Op, Located
        <5> HIDE DEF c, k
        <5>3. Op(t)[2] \in Block
          BY <2>0, <5>1, <5>2 DEF NoFrame, WellFormed
        <5> QED BY <2>0, <2>1, <5>3 DEF Block
      <4>3. CASE OnStack
        <5>1. Op(0) = <<"join", 1>>
          BY <2>0, <4>1, <4>3, OnStackCalls DEF Minding, Framed
        <5>2. thread[0].life = "run"
          BY <5>1 DEF Minding, Left
        <5> QED BY <2>1, <5>2 DEF FrameLives
      <4>4. CASE Borrowed
        <5>1. Op(0)[1] # "return"
          BY <2>0, <4>1, <4>4, AllJoined DEF Minding
        <5>2. Op(0)[1] # "exit"
          <6> DEFINE k == thread[0].at
          <6>1. k \in 1..3 * Few + 2 /\ Op(0) = SelfIds.main[k]
            BY <2>0, <4>4, BorrowedCalls
          <6> HIDE DEF k
          <6> QED BY <6>1, SelfIdsParts
        <5>3. thread[0].life \in {"run", "failed"}
          BY <2>0, <5>1, <5>2 DEF Minding, Left, Types, ThreadRec, Lives, MainStays
        <5> QED BY <2>1, <4>4, <5>3 DEF FrameLives, FrameLeft, Borrowed
      <4>5. CASE Departing
        <5>1. Op(0) = <<"exit">>
          BY <2>0, <4>1, <4>5, DepartingCalls DEF Minding, Behind
        <5>2. thread[0].life \in {"run", "done"}
          BY <2>0, <5>1 DEF Minding, Left, Types, ThreadRec, Lives, MainStays
        <5> QED BY <2>1, <4>5, <5>2 DEF FrameLives, FrameLeft, Departing
      <4> QED BY <2>1, <4>2, <4>3, <4>4, <4>5 DEF Borrowers, OnStack, Borrowed, Departing
    <3> QED BY <3>1, <3>2
  <2>2. CASE Arg(t) # "frame"
    <3>1. program \in Owners
      <4> SUFFICES ASSUME program \notin Owners PROVE FALSE
        OBVIOUS
      <4> DEFINE c == Code(t)
                 k == thread[t].at
      <4>1. NoHeap(c)
        BY <2>0, ScriptsHeap DEF AllNoHeap, Code, Thread
      <4>2. k \in DOMAIN c /\ Op(t) = c[k]
        BY <2>0 DEF Op, Located
      <4> HIDE DEF c, k
      <4> QED BY <2>0, <2>2, <4>1, <4>2 DEF NoHeap
    <3>2. t = 0 \/ t = 1
      <4>1. CASE Handed
        BY <2>0, <4>1 DEF Minding, Handing, Thread
      <4>2. CASE Given
        BY <2>0, <4>2 DEF Minding, Giving, Thread
      <4>3. CASE Buffered
        BY <2>0, <4>3 DEF Minding, Cancelling, Thread
      <4> QED BY <3>1, <4>1, <4>2, <4>3 DEF Owners, Handed, Given, Buffered
    <3>3. CASE Handed
      <4>1. Handing
        BY <3>3 DEF Minding
      <4>2. CASE t = 0
        <5>1. Op(0)[2] = "ret" /\ thread[0].at \in {5, 6}
          BY <2>0, <3>3, <4>1, <4>2, HandedCalls DEF Handing
        <5> QED BY <2>0, <2>2, <4>1, <4>2, <5>1 DEF Handing
      <4>3. CASE t = 1
        <5>1. Op(1)[2] = "ret" /\ thread[1].at = 3
          BY <2>0, <3>3, <4>1, <4>3, HandedCalls DEF Handing
        <5>2. thread[0].at = 2
          BY <2>0, <4>1, <4>3 DEF Handing
        <5> QED BY <2>0, <2>2, <4>1, <4>3, <5>1, <5>2 DEF Handing
      <4> QED BY <3>2, <4>2, <4>3
    <3>4. CASE Given
      <4>1. Giving
        BY <3>4 DEF Minding
      <4>2. CASE t = 0
        <5>1. \/ Op(0)[2] = "msg" /\ thread[0].at \in {2, 4, 7, 9}
              \/ Op(0)[2] = "str" /\ thread[0].at = 8
          BY <2>0, <3>4, <4>1, <4>2, GivenCalls DEF Giving
        <5> QED BY <2>0, <2>2, <4>1, <4>2, <5>1 DEF Giving, Here
      <4>3. CASE t = 1
        <5>1. \/ Op(1)[2] = "msg" /\ thread[1].at \in {1, 4, 6}
              \/ Op(1)[2] = "str" /\ thread[1].at \in {3, 5}
          BY <2>0, <3>4, <4>1, <4>3, GivenCalls DEF Giving
        <5>2. Owned
          BY <2>0, <4>1, <4>3 DEF Giving
        <5> QED BY <2>0, <2>2, <4>3, <5>1, <5>2 DEF Owned, Here
      <4> QED BY <3>2, <4>2, <4>3
    <3>5. CASE Buffered
      BY <2>0, <3>2, <3>5, BufferedCalls DEF Minding, Cancelling
    <3> QED BY <3>1, <3>3, <3>4, <3>5 DEF Owners, Handed, Given, Buffered
  <2> QED BY <2>1, <2>2
<1> QED BY <1>1, MindingStart, MindingStep, PTL DEF Spec

(* A process that ends by itself, with no thread cut off in its work, has  *)
(* freed what it allocated.                                                *)
THEOREM NothingIsLost == Spec => []NothingLost
<1>1. Minding => NothingLost
  <2> SUFFICES ASSUME Minding, over = "ended", \A w \in Workers : thread[w].life # "run"
               PROVE  \A b \in Block : mem[b] # "live"
    BY DEF NothingLost
  <2>0. /\ Types /\ Located /\ 1 \in Workers
        /\ Op(0)[1] \in {"return", "fail", "exit"}
    BY ThreadAssumption DEF Minding, Left, Workers
  <2>1. CASE program \notin Owners
    BY <2>1 DEF Minding, Untouched
  <2>2. CASE Handed
    <3>1. Handing /\ thread[0].at \in {7, 8}
      BY <2>0, <2>2, HandedCalls DEF Minding, Handing
    <3> QED BY <3>1 DEF Handing, Block
  <2>3. CASE Given
    <3>1. Giving /\ thread[0].at \in {6, 10}
      BY <2>0, <2>3, GivenCalls DEF Minding, Giving
    <3> QED BY <2>0, <3>1 DEF Giving, Gone, Block
  <2>4. CASE Buffered
    BY <2>0, <2>4 DEF Minding, Cancelling, Block
  <2> QED BY <2>1, <2>2, <2>3, <2>4 DEF Owners, Handed, Given, Buffered
<1> QED BY <1>1, MindingStart, MindingStep, PTL DEF Spec
=============================================================================

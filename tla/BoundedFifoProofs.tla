------------------------- MODULE BoundedFifoProofs -------------------------
(***************************************************************************)
(* The abstract queue hands over each writer's values in the order sent,   *)
(* none lost and none twice, and never holds more than max_count.          *)
(***************************************************************************)
EXTENDS BoundedFifo, TLAPS

(* The initial queue satisfies the invariant.                              *)
LEMMA InitFifoInv == Init => FifoInv
BY DEF Init, FifoInv, FifoTypeOK, Behind, Window, Sorted, Dense, Values

(* The facts about types that the other proofs use.                        *)
LEMMA FifoTypes ==
  ASSUME FifoTypeOK
  PROVE  /\ Len(items) \in Nat
         /\ \A k \in 1..Len(items) : items[k][1] \in Writers /\ items[k][2] \in Nat
         /\ \A w \in Writers : sent[w] \in Nat /\ got[w] \in Nat
BY DEF FifoTypeOK, Values

(* Putting a value in keeps the invariant: the new value is the largest of *)
(* its writer.                                                             *)
LEMMA PutFifoInv ==
  ASSUME FifoInv, NEW w \in Writers, Put(w)
  PROVE  FifoInv'
<1> DEFINE n == Len(items)
<1>0. FifoTypeOK /\ Behind /\ Window /\ Sorted /\ Dense
  BY DEF FifoInv
<1>1. /\ Len(items') = n + 1
      /\ items'[n + 1] = <<w, sent[w]>>
      /\ \A k \in 1..n : items'[k] = items[k]
  BY <1>0 DEF Put, FifoTypeOK
<1>2. /\ \A u \in Writers : sent'[u] = IF u = w THEN sent[u] + 1 ELSE sent[u]
      /\ got' = got
  BY <1>0 DEF Put, FifoTypeOK
<1>3. /\ n \in Nat
      /\ \A k \in 1..n : items[k][1] \in Writers /\ items[k][2] \in Nat
      /\ \A u \in Writers : sent[u] \in Nat /\ got[u] \in Nat
  BY <1>0, FifoTypes
<1> HIDE DEF n
<1>4. FifoTypeOK'
  BY <1>0 DEF Put, FifoTypeOK, Values
<1>5. Behind'
  BY <1>0, <1>2, <1>3 DEF Behind
<1>6. Window'
  <2> SUFFICES ASSUME NEW k \in 1..n + 1
               PROVE  /\ got[items'[k][1]] =< items'[k][2]
                      /\ items'[k][2] < sent'[items'[k][1]]
    BY <1>1, <1>2 DEF Window
  <2>1. CASE k = n + 1
    BY <2>1, <1>0, <1>1, <1>2, <1>3 DEF Behind
  <2>2. CASE k \in 1..n
    <3>1. /\ got[items[k][1]] =< items[k][2]
          /\ items[k][2] < sent[items[k][1]]
      BY <2>2, <1>0 DEF Window, n
    <3>2. items[k][1] \in Writers /\ items[k][2] \in Nat /\ items'[k] = items[k]
      BY <2>2, <1>1, <1>3
    <3> QED BY <3>1, <3>2, <1>2, <1>3
  <2> QED BY <2>1, <2>2, <1>3
<1>7. Sorted'
  <2> SUFFICES ASSUME NEW j \in 1..n + 1, NEW k \in 1..n + 1,
                      j < k, items'[j][1] = items'[k][1]
               PROVE  items'[j][2] < items'[k][2]
    BY <1>1 DEF Sorted
  <2>1. j \in 1..n /\ items'[j] = items[j]
    BY <1>1, <1>3
  <2>2. CASE k = n + 1
    BY <2>1, <2>2, <1>0, <1>1 DEF Window, n
  <2>3. CASE k \in 1..n
    <3>1. items'[k] = items[k]
      BY <2>3, <1>1
    <3> QED BY <3>1, <2>1, <2>3, <1>0 DEF Sorted, n
  <2> QED BY <2>2, <2>3, <1>3
<1>8. Dense'
  <2> SUFFICES ASSUME NEW u \in Writers, NEW i \in Nat,
                      got[u] =< i, i < sent'[u]
               PROVE  \E k \in 1..n + 1 : items'[k] = <<u, i>>
    BY <1>1, <1>2 DEF Dense
  <2>1. CASE u = w /\ i = sent[w]
    BY <2>1, <1>1, <1>3
  <2>2. CASE ~(u = w /\ i = sent[w])
    <3>1. i < sent[u]
      BY <2>2, <1>2, <1>3
    <3>2. PICK k \in 1..n : items[k] = <<u, i>>
      BY <3>1, <1>0 DEF Dense, n
    <3> QED BY <3>2, <1>1, <1>3
  <2> QED BY <2>1, <2>2
<1> QED BY <1>4, <1>5, <1>6, <1>7, <1>8 DEF FifoInv

(* The head is the oldest value of its writer that is still due.           *)
LEMMA HeadIsNext == FifoInv => InOrder
<1> SUFFICES ASSUME FifoInv, items # <<>>
             PROVE  Head(items)[2] = got[Head(items)[1]]
  BY DEF InOrder
<1> DEFINE w == items[1][1]
           i == items[1][2]
<1>0. FifoTypeOK /\ Window /\ Sorted /\ Dense
  BY DEF FifoInv
<1>1. 1 \in 1..Len(items) /\ Head(items) = items[1]
  BY <1>0 DEF FifoTypeOK
<1>2. w \in Writers /\ i \in Nat /\ got[w] \in Nat
  BY <1>0, <1>1, FifoTypes
<1>3. got[w] =< i /\ i < sent[w]
  BY <1>0, <1>1 DEF Window
<1>4. ASSUME got[w] < i
      PROVE  FALSE
  <2> HIDE DEF w, i
  <2>1. got[w] =< got[w] /\ got[w] < sent[w]
    BY <1>0, <1>2, <1>3, <1>4, FifoTypes
  <2>2. PICK k \in 1..Len(items) : items[k] = <<w, got[w]>>
    BY <1>0, <1>2, <2>1 DEF Dense
  <2>3. items[k][1] = w /\ items[k][2] = got[w]
    BY <2>2
  <2>4. k # 1
    BY <2>3, <1>2, <1>4 DEF i
  <2>5. i < got[w]
    BY <2>3, <2>4, <1>0, <1>1 DEF Sorted, w, i
  <2> QED BY <2>5, <1>2, <1>4
<1> QED BY <1>1, <1>2, <1>3, <1>4

(* Taking the head keeps the invariant.                                    *)
LEMMA TakeFifoInv ==
  ASSUME FifoInv, Take
  PROVE  FifoInv'
<1> DEFINE n == Len(items)
           w == items[1][1]
           i == items[1][2]
<1>0. FifoTypeOK /\ Behind /\ Window /\ Sorted /\ Dense
  BY DEF FifoInv
<1>1. /\ n \in Nat \ {0}
      /\ Len(items') = n - 1
      /\ \A k \in 1..n - 1 : items'[k] = items[k + 1]
      /\ Head(items) = items[1]
  BY <1>0 DEF Take, FifoTypeOK
<1>2. /\ \A k \in 1..n : items[k][1] \in Writers /\ items[k][2] \in Nat
      /\ \A u \in Writers : sent[u] \in Nat /\ got[u] \in Nat
      /\ w \in Writers /\ i \in Nat
  BY <1>0, <1>1, FifoTypes
<1>3. /\ \A u \in Writers : got'[u] = IF u = w THEN i + 1 ELSE got[u]
      /\ sent' = sent
  BY <1>0, <1>1 DEF Take, FifoTypeOK
<1>4. got[w] =< i /\ i < sent[w]
  BY <1>0, <1>1 DEF Window
<1>5. \A k \in 2..n : items[k][1] = w => i < items[k][2]
  BY <1>0, <1>1 DEF Sorted
<1>6. \A k \in 1..n : got[items[k][1]] =< items[k][2] /\ items[k][2] < sent[items[k][1]]
  BY <1>0 DEF Window
<1>7. FifoTypeOK'
  BY <1>0, <1>1, <1>2 DEF Take, FifoTypeOK
<1> HIDE DEF n, w, i
<1>8. Behind'
  BY <1>0, <1>2, <1>3, <1>4 DEF Behind
<1>9. Window'
  <2> SUFFICES ASSUME NEW k \in 1..n - 1
               PROVE  /\ got'[items'[k][1]] =< items'[k][2]
                      /\ items'[k][2] < sent[items'[k][1]]
    BY <1>1, <1>3 DEF Window
  <2>1. /\ items'[k] = items[k + 1]
        /\ k + 1 \in 2..n
        /\ k + 1 \in 1..n
        /\ items[k + 1][1] \in Writers /\ items[k + 1][2] \in Nat
    BY <1>1, <1>2
  <2> QED BY <2>1, <1>2, <1>3, <1>5, <1>6
<1>10. Sorted'
  <2> SUFFICES ASSUME NEW j \in 1..n - 1, NEW k \in 1..n - 1,
                      j < k, items'[j][1] = items'[k][1]
               PROVE  items'[j][2] < items'[k][2]
    BY <1>1 DEF Sorted
  <2>1. /\ j + 1 \in 1..n /\ k + 1 \in 1..n /\ j + 1 < k + 1
        /\ items'[j] = items[j + 1] /\ items'[k] = items[k + 1]
    BY <1>1
  <2> QED BY <2>1, <1>0 DEF Sorted, n
<1>11. Dense'
  <2>1. ASSUME NEW u \in Writers, NEW m \in Nat, got'[u] =< m, m < sent'[u]
        PROVE  \E k \in 1..Len(items') : items'[k] = <<u, m>>
    <3>1. got[u] =< m /\ m < sent[u]
      BY <2>1, <1>2, <1>3, <1>4
    <3>2. PICK k \in 1..n : items[k] = <<u, m>>
      BY <3>1, <1>0 DEF Dense, n
    <3>3. items[k][1] = u /\ items[k][2] = m
      BY <3>2
    <3>4. k # 1
      BY <2>1, <3>3, <1>2, <1>3 DEF w, i
    <3>5. k - 1 \in 1..n - 1 /\ items'[k - 1] = items[k]
      BY <3>4, <1>1
    <3> QED BY <3>2, <3>5, <1>1
  <2> QED BY <2>1 DEF Dense
<1> QED BY <1>7, <1>8, <1>9, <1>10, <1>11 DEF FifoInv

(* FifoInv holds in every state of the abstract queue.                     *)
THEOREM FifoInvariant == Spec => []FifoInv
<1>1. FifoInv /\ [Next]_fifoVars => FifoInv'
  <2> SUFFICES ASSUME FifoInv, [Next]_fifoVars PROVE FifoInv'
    OBVIOUS
  <2>1. CASE Take
    BY <2>1, TakeFifoInv
  <2>2. ASSUME NEW w \in Writers, Put(w) PROVE FifoInv'
    BY <2>2, PutFifoInv
  <2>3. CASE UNCHANGED fifoVars
    BY <2>3 DEF fifoVars, FifoInv, FifoTypeOK, Behind, Window, Sorted, Dense
  <2> QED BY <2>1, <2>2, <2>3 DEF Next
<1> QED BY <1>1, InitFifoInv, PTL DEF Spec

(* Values leave in the order their writer sent them, none lost, none twice *)
(* - what reader() in queue-threads.c checks.                              *)
THEOREM FifoOrder == Spec => []InOrder
BY FifoInvariant, HeadIsNext, PTL

(* The queue never holds more than max_count values.                       *)
THEOREM FifoCapacity ==
  ASSUME max_count \in Nat
  PROVE  Spec => [](FifoTypeOK /\ WithinCapacity)
<1> DEFINE CapInv == FifoInv /\ WithinCapacity
<1>1. Init => WithinCapacity
  BY DEF Init, WithinCapacity
<1>2. FifoInv /\ WithinCapacity /\ [Next]_fifoVars => WithinCapacity'
  BY DEF FifoInv, FifoTypeOK, WithinCapacity, Next, Put, Take, fifoVars
<1> QED BY <1>1, <1>2, FifoInvariant, PTL DEF Spec, FifoInv
=============================================================================

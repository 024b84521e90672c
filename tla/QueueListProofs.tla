-------------------------- MODULE QueueListProofs --------------------------
(***************************************************************************)
(* What the steps of queue_add, queue_get and queue_destroy do to the      *)
(* list, whichever lock guards them: a thread that is alone in its         *)
(* critical section keeps the list, the heap and the counters in order,    *)
(* and makes the abstract queue take a step or stutter.  The proofs about  *)
(* LockQueue, CvQueue and SemQueue cite these lemmas, one for each step.   *)
(***************************************************************************)
EXTENDS QueueList, SequenceTheorems, TLAPS

\* no thread but t is in a critical section
Solo(t) == \A u \in Threads \ {t} : ~Inside(u)

ListInv == ListTypeOK /\ ChainOK /\ Spelled /\ Tailed /\ OwnNodes

\* what HeapOK says until queue_destroy starts to free
HeapRun == heap = Range(chain) \cup {node[t] : t \in Fresh \cup Removing}

-----------------------------------------------------------------------------
(* The list as a function on positions.                                    *)
LEMMA ChainFacts ==
  ASSUME ListTypeOK
  PROVE  /\ Len(chain) \in Nat
         /\ \A k \in 1..Len(chain) : chain[k] \in Node
         /\ chain = <<>> <=> Len(chain) = 0
         /\ \A n : n \in Range(chain) <=> \E k \in 1..Len(chain) : chain[k] = n
BY DEF ListTypeOK, Range

(* Appending a node to the list.                                           *)
LEMMA AppendFacts ==
  ASSUME ListTypeOK, NEW n \in Node, chain' = Append(chain, n)
  PROVE  /\ chain' \in Seq(Node)
         /\ Len(chain') = Len(chain) + 1
         /\ chain'[Len(chain) + 1] = n
         /\ \A k \in 1..Len(chain) : chain'[k] = chain[k]
         /\ Range(chain') = Range(chain) \cup {n}
         /\ chain' # <<>>
<1>1. /\ chain' \in Seq(Node)
      /\ Len(chain') = Len(chain) + 1
      /\ chain'[Len(chain) + 1] = n
      /\ \A k \in 1..Len(chain) : chain'[k] = chain[k]
      /\ Len(chain) \in Nat
  BY DEF ListTypeOK
<1>2. Range(chain') = Range(chain) \cup {n}
  <2>1. Range(chain) = {chain[k] : k \in 1..Len(chain)}
    BY DEF Range, ListTypeOK
  <2>2. Range(chain') = {chain'[k] : k \in 1..Len(chain) + 1}
    BY <1>1 DEF Range
  <2> QED BY <2>1, <2>2, <1>1
<1> QED BY <1>1, <1>2

(* Removing the head of the list.                                          *)
LEMMA TailFacts ==
  ASSUME ListTypeOK, ChainOK, chain # <<>>, chain' = Tail(chain)
  PROVE  /\ chain' \in Seq(Node)
         /\ Len(chain) \in Nat \ {0}
         /\ Len(chain') = Len(chain) - 1
         /\ \A k \in 1..Len(chain) - 1 : chain'[k] = chain[k + 1]
         /\ Range(chain') = Range(chain) \ {chain[1]}
         /\ chain[1] \in Range(chain)
         /\ chain' = <<>> <=> Len(chain) = 1
<1>1. /\ chain' \in Seq(Node)
      /\ Len(chain') = Len(chain) - 1
      /\ \A k \in 1..Len(chain) - 1 : chain'[k] = chain[k + 1]
      /\ Len(chain) \in Nat \ {0}
  <2>1. chain \in Seq(Node)
    BY DEF ListTypeOK
  <2> QED BY <2>1, EmptySeq, HeadTailProperties
<1>a. chain' = <<>> <=> Len(chain) = 1
  <2>1. Len(<<>>) = 0 /\ (chain' # <<>> => Len(chain') # 0)
    BY <1>1, EmptySeq
  <2> QED BY <2>1, <1>1
<1>2. /\ Range(chain) = {chain[k] : k \in 1..Len(chain)}
      /\ Range(chain') = {chain'[k] : k \in 1..Len(chain) - 1}
  <2>1. chain \in Seq(Node)
    BY DEF ListTypeOK
  <2>2. DOMAIN chain = 1..Len(chain) /\ DOMAIN chain' = 1..Len(chain')
    BY <2>1, <1>1, LenProperties
  <2> QED BY <2>2, <1>1 DEF Range
<1>3. chain[1] \in Range(chain)
  BY <1>1, <1>2
<1>4. ASSUME NEW n \in Range(chain) \ {chain[1]} PROVE n \in Range(chain')
  <2>1. PICK k \in 1..Len(chain) : n = chain[k]
    BY <1>2
  <2>2. k # 1 /\ k - 1 \in 1..Len(chain) - 1 /\ chain'[k - 1] = chain[k]
    BY <2>1, <1>1, <1>4
  <2> QED BY <2>1, <2>2, <1>2
<1>5. ASSUME NEW n \in Range(chain') PROVE n \in Range(chain) \ {chain[1]}
  <2>1. PICK k \in 1..Len(chain) - 1 : n = chain'[k]
    BY <1>2
  <2>2. n = chain[k + 1] /\ k + 1 \in 1..Len(chain) /\ k + 1 # 1 /\ 1 \in 1..Len(chain)
    BY <2>1, <1>1
  <2> QED BY <2>2, <1>2 DEF ChainOK
<1> QED BY <1>1, <1>a, <1>3, <1>4, <1>5

(* Outside the steps that move it, last is the last node.                  *)
LEMMA LastAtRest ==
  ASSUME Tailed, NEW t \in Threads, Solo(t), pc[t] \notin {"head", "tail", "free"}
  PROVE  last = IF chain = <<>> THEN NULL ELSE chain[Len(chain)]
BY DEF Tailed, Solo, Inside, Critical

(* Only t changes place.                                                   *)
LEMMA GotoFacts ==
  ASSUME ListTypeOK, NEW t \in Threads, NEW from, NEW to \in Places,
         Goto(t, from, to)
  PROVE  /\ pc' \in [Threads -> Places]
         /\ pc[t] = from /\ pc'[t] = to
         /\ \A u \in Threads \ {t} : pc'[u] = pc[u]
BY DEF ListTypeOK, Goto

(* malloc: the new node is in no list and no other thread has it.          *)
LEMMA MallocOK ==
  ASSUME ListInv, HeapRun, NEW w \in Writers, Solo(w), Malloc(w)
  PROVE  ListInv' /\ HeapRun'
<1>1. PICK n \in Node \ heap :
         /\ heap' = heap \cup {n}
         /\ val' = [val EXCEPT ![n] = <<w, sent[w]>>]
         /\ next' = [next EXCEPT ![n] = NULL]
         /\ node' = [node EXCEPT ![w] = n]
  BY DEF Malloc
<1>2. /\ ListTypeOK /\ ChainOK /\ Spelled /\ Tailed /\ OwnNodes
      /\ w \in Threads
  BY DEF ListInv, Threads, Clients
<1>3. /\ UNCHANGED <<first, last, chain, sent>>
      /\ UNCHANGED <<count, add_count, get_count, expected, errors, cancelled, alive>>
  BY DEF Malloc, linkVars, statVars, readVars, runVars
<1>4. /\ pc' \in [Threads -> Places]
      /\ pc[w] = "add" /\ pc'[w] = "link"
      /\ \A u \in Threads \ {w} : pc'[u] = pc[u]
  <2>1. Goto(w, "add", "link")
    BY DEF Malloc
  <2> QED BY <2>1, <1>2, GotoFacts DEF Places
<1>5. ListTypeOK'
  BY <1>1, <1>2, <1>3, <1>4 DEF ListTypeOK
<1>6. \A k \in 1..Len(chain) : /\ chain[k] \in Node /\ chain[k] # n
                               /\ val'[chain[k]] = val[chain[k]]
                               /\ next'[chain[k]] = next[chain[k]]
  BY <1>1, <1>2, ChainFacts DEF ListTypeOK, HeapRun
<1>7. ChainOK' /\ Spelled'
  BY <1>2, <1>3, <1>6 DEF ChainOK, Spelled
<1>8. Tailed'
  <2>1. last = IF chain = <<>> THEN NULL ELSE chain[Len(chain)]
    BY <1>2, <1>4, LastAtRest
  <2>2. \A u \in Threads : pc'[u] \notin {"head", "tail", "free"}
    BY <1>2, <1>4 DEF Solo, Inside, Critical
  <2> QED BY <2>1, <2>2, <1>3 DEF Tailed, Threads, Clients
<1>9. OwnNodes'
  <2>1. Fresh' = {w} /\ Removing' = {}
    BY <1>2, <1>4, ThreadAssumption DEF Solo, Inside, Critical, Fresh, Removing, Threads, Clients
  <2>2. n \in heap' \ Range(chain')
    BY <1>1, <1>3 DEF HeapRun
  <2>3. node'[w] = n /\ val'[n] = <<w, sent'[w]>> /\ next'[n] = NULL
    BY <1>1, <1>2, <1>3 DEF ListTypeOK
  <2> QED BY <2>1, <2>2, <2>3 DEF OwnNodes
<1>10. HeapRun'
  <2>1. Fresh' = {w} /\ Removing' = {} /\ Fresh = {} /\ Removing = {}
    BY <1>2, <1>4, ThreadAssumption DEF Solo, Inside, Critical, Fresh, Removing, Threads, Clients
  <2>2. node'[w] = n
    BY <1>1, <1>2 DEF ListTypeOK
  <2> QED BY <2>1, <2>2, <1>1, <1>3 DEF HeapRun
<1> QED BY <1>5, <1>7, <1>8, <1>9, <1>10 DEF ListInv

(* q->last = node, the first half of q->first = q->last = node.            *)
LEMMA LinkEmptyOK ==
  ASSUME ListInv, HeapRun, NEW w \in Writers, Solo(w), LinkEmpty(w)
  PROVE  ListInv' /\ HeapRun'
<1>1. /\ ListTypeOK /\ ChainOK /\ Spelled /\ Tailed /\ OwnNodes
      /\ w \in Threads
  BY DEF ListInv, Threads, Clients
<1>2. /\ UNCHANGED <<first, chain, next, val, heap, node, sent>>
      /\ UNCHANGED <<count, add_count, get_count, expected, errors, cancelled, alive>>
      /\ first = NULL /\ last' = node[w]
  BY DEF LinkEmpty, heapVars, statVars, readVars, runVars
<1>3. /\ pc' \in [Threads -> Places]
      /\ pc[w] = "link" /\ pc'[w] = "head"
      /\ \A u \in Threads \ {w} : pc'[u] = pc[u]
  <2>1. Goto(w, "link", "head")
    BY DEF LinkEmpty
  <2> QED BY <2>1, <1>1, GotoFacts DEF Places
<1>4. ListTypeOK'
  BY <1>1, <1>2, <1>3 DEF ListTypeOK
<1>5. ChainOK' /\ Spelled'
  BY <1>1, <1>2 DEF ChainOK, Spelled
<1>6. chain = <<>>
  BY <1>1, <1>2, ChainFacts, NodeAssumption DEF Spelled
<1>7. Tailed'
  BY <1>1, <1>2, <1>3, <1>6, ThreadAssumption DEF Tailed, Solo, Inside, Critical, Threads, Clients
<1>8. OwnNodes' /\ HeapRun'
  <2>1. Fresh' = Fresh /\ Removing' = Removing
    BY <1>1, <1>3, ThreadAssumption DEF Fresh, Removing, Threads, Clients
  <2> QED BY <2>1, <1>1, <1>2 DEF OwnNodes, HeapRun
<1> QED BY <1>4, <1>5, <1>7, <1>8 DEF ListInv

(* q->first = node: the list of one node.                                  *)
LEMMA SetFirstOK ==
  ASSUME ListInv, HeapRun, NEW w \in Writers, Solo(w), SetFirst(w)
  PROVE  ListInv' /\ HeapRun'
<1>1. /\ ListTypeOK /\ ChainOK /\ Spelled /\ Tailed /\ OwnNodes
      /\ w \in Threads
  BY DEF ListInv, Threads, Clients
<1>2. /\ UNCHANGED <<last, next, val, heap, node, sent>>
      /\ UNCHANGED <<count, add_count, get_count, expected, errors, cancelled, alive>>
      /\ first' = node[w] /\ chain' = Append(chain, node[w])
  BY DEF SetFirst, heapVars, statVars, readVars, runVars
<1>3. /\ pc' \in [Threads -> Places]
      /\ pc[w] = "head" /\ pc'[w] = "added"
      /\ \A u \in Threads \ {w} : pc'[u] = pc[u]
  <2>1. Goto(w, "head", "added")
    BY DEF SetFirst
  <2> QED BY <2>1, <1>1, GotoFacts DEF Places
<1>4. /\ chain = <<>> /\ last = node[w]
      /\ node[w] \in Node /\ val[node[w]] = <<w, sent[w]>> /\ next[node[w]] = NULL
      /\ sent[w] \in Nat
  BY <1>1, <1>3 DEF Tailed, OwnNodes, Fresh, ListTypeOK
<1>5. chain' = <<node[w]>> /\ Len(chain') = 1 /\ chain'[1] = node[w] /\ chain' # <<>>
  BY <1>2, <1>4
<1>6. ListTypeOK'
  BY <1>1, <1>2, <1>3, <1>4, <1>5 DEF ListTypeOK
<1>7. ChainOK' /\ Spelled'
  <2>1. \A k \in 1..Len(chain') : k = 1
    BY <1>5
  <2>2. val'[node[w]] \in Writers \X Nat /\ next'[node[w]] = NULL
    BY <1>2, <1>4
  <2> QED BY <2>1, <2>2, <1>2, <1>5 DEF ChainOK, Spelled
<1>8. Tailed'
  BY <1>1, <1>2, <1>3, <1>4, <1>5 DEF Tailed, Solo, Inside, Critical, Threads, Clients
<1>9. OwnNodes' /\ HeapRun'
  <2>1. Fresh' = {} /\ Removing' = {} /\ Fresh = {w} /\ Removing = {}
    BY <1>1, <1>3, ThreadAssumption DEF Solo, Inside, Critical, Fresh, Removing, Threads, Clients
  <2>2. Range(chain') = Range(chain) \cup {node[w]}
    BY <1>1, <1>2, <1>4, AppendFacts
  <2> QED BY <2>1, <2>2, <1>2 DEF OwnNodes, HeapRun
<1> QED BY <1>6, <1>7, <1>8, <1>9 DEF ListInv

(* q->last->next = node: the list grows behind its last node.              *)
LEMMA LinkBehindOK ==
  ASSUME ListInv, HeapRun, NEW w \in Writers, Solo(w), LinkBehind(w)
  PROVE  ListInv' /\ HeapRun'
<1> DEFINE n == Len(chain)
<1>1. /\ ListTypeOK /\ ChainOK /\ Spelled /\ Tailed /\ OwnNodes
      /\ w \in Threads
  BY DEF ListInv, Threads, Clients
<1>2. /\ UNCHANGED <<first, last, val, heap, node, sent>>
      /\ UNCHANGED <<count, add_count, get_count, expected, errors, cancelled, alive>>
      /\ first # NULL
      /\ next' = [next EXCEPT ![last] = node[w]]
      /\ chain' = Append(chain, node[w])
  BY DEF LinkBehind, statVars, readVars, runVars
<1>3. /\ pc' \in [Threads -> Places]
      /\ pc[w] = "link" /\ pc'[w] = "tail"
      /\ \A u \in Threads \ {w} : pc'[u] = pc[u]
  <2>1. Goto(w, "link", "tail")
    BY DEF LinkBehind
  <2> QED BY <2>1, <1>1, GotoFacts DEF Places
<1>4. /\ node[w] \in Node /\ node[w] \notin Range(chain)
      /\ val[node[w]] = <<w, sent[w]>> /\ next[node[w]] = NULL
      /\ sent[w] \in Nat
  BY <1>1, <1>3 DEF OwnNodes, Fresh, ListTypeOK
<1>5. /\ n \in Nat \ {0}
      /\ \A k \in 1..n : chain[k] \in Node /\ chain[k] # node[w]
      /\ last = chain[n]
  <2>1. chain # <<>>
    BY <1>1, <1>2 DEF Spelled
  <2>2. last = chain[n]
    BY <2>1, <1>1, <1>3, LastAtRest
  <2> QED BY <2>1, <2>2, <1>1, <1>4, ChainFacts
<1>6. /\ chain' \in Seq(Node)
      /\ Len(chain') = n + 1
      /\ chain'[n + 1] = node[w]
      /\ \A k \in 1..n : chain'[k] = chain[k]
      /\ Range(chain') = Range(chain) \cup {node[w]}
      /\ chain' # <<>>
  BY <1>1, <1>2, <1>4, AppendFacts
<1> HIDE DEF n
<1>7. ListTypeOK'
  BY <1>1, <1>2, <1>3, <1>4, <1>6 DEF ListTypeOK
<1>8. ChainOK'
  <2>1. \A j, k \in 1..n : chain[j] = chain[k] => j = k
    BY <1>1 DEF ChainOK, n
  <2>2. ASSUME NEW j \in 1..n + 1, NEW k \in 1..n + 1, chain'[j] = chain'[k]
        PROVE  j = k
    <3>1. CASE j \in 1..n /\ k \in 1..n
      BY <3>1, <2>1, <2>2, <1>6
    <3>2. CASE j = n + 1 /\ k \in 1..n
      BY <3>2, <2>2, <1>5, <1>6
    <3>3. CASE k = n + 1 /\ j \in 1..n
      BY <3>3, <2>2, <1>5, <1>6
    <3> QED BY <3>1, <3>2, <3>3, <1>5
  <2>3. ASSUME NEW k \in 1..n + 1
        PROVE  val'[chain'[k]] \in Writers \X Nat
    <3>1. CASE k \in 1..n
      BY <3>1, <1>1, <1>2, <1>6 DEF ChainOK, n
    <3>2. CASE k = n + 1
      <4>1. <<w, sent[w]>> \in Writers \X Nat
        BY <1>4
      <4>2. chain'[k] = node[w]
        BY <3>2, <1>6
      <4> QED BY <4>1, <4>2, <1>2, <1>4
    <3> QED BY <3>1, <3>2, <1>5
  <2> QED BY <2>2, <2>3, <1>6 DEF ChainOK
<1>9. Spelled'
  <2>1. first' = chain'[1]
    BY <1>1, <1>2, <1>5, <1>6 DEF Spelled, n
  <2>2. ASSUME NEW k \in 1..n + 1
        PROVE  next'[chain'[k]] = IF k = n + 1 THEN NULL ELSE chain'[k + 1]
    <3>1. CASE k = n + 1
      BY <3>1, <1>1, <1>2, <1>4, <1>5, <1>6 DEF ListTypeOK
    <3>2. CASE k = n
      BY <3>2, <1>1, <1>2, <1>5, <1>6 DEF ListTypeOK
    <3>3. CASE k \in 1..n - 1
      <4>1. chain[k] # last /\ next[chain[k]] = chain[k + 1]
        BY <3>3, <1>1, <1>5 DEF ChainOK, Spelled, n
      <4>2. chain'[k] = chain[k] /\ chain'[k + 1] = chain[k + 1] /\ k # n + 1
        BY <3>3, <1>5, <1>6
      <4> QED BY <4>1, <4>2, <1>2
    <3> QED BY <3>1, <3>2, <3>3, <1>5
  <2> QED BY <2>1, <2>2, <1>6 DEF Spelled
<1>10. Tailed'
  <2>1. /\ pc'[w] = "tail" /\ Len(chain') > 1
        /\ last' = chain'[Len(chain') - 1] /\ node'[w] = chain'[Len(chain')]
    BY <1>2, <1>3, <1>5, <1>6
  <2>2. \A u \in Threads \ {w} : pc'[u] \notin {"head", "tail", "free"}
    BY <1>1, <1>3 DEF Solo, Inside, Critical
  <2> QED BY <2>1, <2>2, <1>1, ThreadAssumption DEF Tailed, Threads, Clients
<1>11. OwnNodes' /\ HeapRun'
  <2>1. Fresh' = {} /\ Removing' = {} /\ Fresh = {w} /\ Removing = {}
    BY <1>1, <1>3, ThreadAssumption DEF Solo, Inside, Critical, Fresh, Removing, Threads, Clients
  <2> QED BY <2>1, <1>2, <1>6 DEF OwnNodes, HeapRun
<1> QED BY <1>7, <1>8, <1>9, <1>10, <1>11 DEF ListInv

(* q->last = node, after q->last->next = node.                             *)
LEMMA SetLastOK ==
  ASSUME ListInv, HeapRun, NEW w \in Writers, Solo(w), SetLast(w)
  PROVE  ListInv' /\ HeapRun'
<1>1. /\ ListTypeOK /\ ChainOK /\ Spelled /\ Tailed /\ OwnNodes
      /\ w \in Threads
  BY DEF ListInv, Threads, Clients
<1>2. /\ UNCHANGED <<first, chain, next, val, heap, node, sent>>
      /\ UNCHANGED <<count, add_count, get_count, expected, errors, cancelled, alive>>
      /\ last' = node[w]
  BY DEF SetLast, heapVars, statVars, readVars, runVars
<1>3. /\ pc' \in [Threads -> Places]
      /\ pc[w] = "tail" /\ pc'[w] = "added"
      /\ \A u \in Threads \ {w} : pc'[u] = pc[u]
  <2>1. Goto(w, "tail", "added")
    BY DEF SetLast
  <2> QED BY <2>1, <1>1, GotoFacts DEF Places
<1>4. ListTypeOK'
  BY <1>1, <1>2, <1>3 DEF ListTypeOK
<1>5. ChainOK' /\ Spelled'
  BY <1>1, <1>2 DEF ChainOK, Spelled
<1>6. Tailed'
  <2>1. chain # <<>> /\ last' = chain[Len(chain)]
    BY <1>1, <1>2, <1>3, ChainFacts DEF Tailed
  <2>2. \A u \in Threads : pc'[u] \notin {"head", "tail", "free"}
    BY <1>1, <1>3 DEF Solo, Inside, Critical
  <2> QED BY <2>1, <2>2, <1>2 DEF Tailed, Threads, Clients
<1>7. OwnNodes' /\ HeapRun'
  <2>1. Fresh' = {} /\ Removing' = {} /\ Fresh = {} /\ Removing = {}
    BY <1>1, <1>3, ThreadAssumption DEF Solo, Inside, Critical, Fresh, Removing, Threads, Clients
  <2> QED BY <2>1, <1>2 DEF OwnNodes, HeapRun
<1> QED BY <1>4, <1>5, <1>6, <1>7 DEF ListInv

(* tmp = q->first; q->first = tmp->next: the list loses its head, which    *)
(* stays allocated and belongs to the reader.                              *)
LEMMA UnlinkOK ==
  ASSUME ListInv, HeapRun, NEW r \in Readers, Solo(r), Unlink(r), chain # <<>>
  PROVE  ListInv' /\ HeapRun'
<1> DEFINE n == Len(chain)
<1>1. /\ ListTypeOK /\ ChainOK /\ Spelled /\ Tailed /\ OwnNodes
      /\ r \in Threads
  BY DEF ListInv, Threads, Clients
<1>2. /\ UNCHANGED <<last, next, val, heap, sent>>
      /\ UNCHANGED <<count, add_count, get_count, cancelled, alive>>
      /\ node' = [node EXCEPT ![r] = first]
      /\ first' = next[first]
      /\ chain' = Tail(chain)
      /\ errors' = (errors \/ val[first][2] # expected[val[first][1]])
      /\ expected' = [expected EXCEPT ![val[first][1]] = val[first][2] + 1]
  BY DEF Unlink, heapVars, statVars, runVars
<1>3. /\ pc' \in [Threads -> Places]
      /\ pc[r] = "get" /\ pc'[r] = "free"
      /\ \A u \in Threads \ {r} : pc'[u] = pc[u]
  <2>1. Goto(r, "get", "free")
    BY DEF Unlink
  <2> QED BY <2>1, <1>1, GotoFacts DEF Places
<1>4. /\ chain' \in Seq(Node)
      /\ n \in Nat \ {0}
      /\ Len(chain') = n - 1
      /\ \A k \in 1..n - 1 : chain'[k] = chain[k + 1]
      /\ Range(chain') = Range(chain) \ {chain[1]}
      /\ chain[1] \in Range(chain)
      /\ chain' = <<>> <=> n = 1
  BY <1>1, <1>2, TailFacts
<1>5. /\ first = chain[1] /\ first \in Node /\ first \in heap
      /\ \A k \in 1..n : chain[k] \in Node
  BY <1>1, <1>4, ChainFacts DEF Spelled, HeapRun
<1>6. val[first] \in Writers \X Nat
  BY <1>1, <1>4, <1>5 DEF ChainOK
<1>7. last = chain[n]
  BY <1>1, <1>3, LastAtRest
<1> HIDE DEF n
<1>8. /\ first' \in Node \cup {NULL}
      /\ errors' \in BOOLEAN
      /\ expected' \in [Writers -> Nat]
      /\ node' \in [Threads -> Node \cup {NULL}]
  <2>1. val[first][1] \in Writers /\ val[first][2] + 1 \in Nat
    BY <1>6
  <2> QED BY <2>1, <1>1, <1>2, <1>5 DEF ListTypeOK
<1>9. ListTypeOK'
  BY <1>1, <1>2, <1>3, <1>4, <1>8 DEF ListTypeOK
<1>10. ChainOK'
  <2>1. ASSUME NEW j \in 1..n - 1, NEW k \in 1..n - 1, chain'[j] = chain'[k]
        PROVE  j = k
    <3>1. j + 1 \in 1..n /\ k + 1 \in 1..n /\ chain[j + 1] = chain[k + 1]
      BY <2>1, <1>4
    <3>2. j + 1 = k + 1
      BY <3>1, <1>1 DEF ChainOK, n
    <3> QED BY <3>2
  <2>2. ASSUME NEW k \in 1..n - 1 PROVE val'[chain'[k]] \in Writers \X Nat
    <3>1. k + 1 \in 1..n /\ chain'[k] = chain[k + 1]
      BY <1>4
    <3> QED BY <3>1, <1>1, <1>2 DEF ChainOK, n
  <2> QED BY <2>1, <2>2, <1>4 DEF ChainOK
<1>11. Spelled'
  <2>1. first' = IF chain' = <<>> THEN NULL ELSE chain'[1]
    <3>1. 1 \in 1..n /\ next[chain[1]] = IF n = 1 THEN NULL ELSE chain[1 + 1]
      BY <1>1, <1>4 DEF Spelled, n
    <3>2. n # 1 => chain'[1] = chain[1 + 1]
      BY <1>4
    <3> QED BY <3>1, <3>2, <1>2, <1>4, <1>5
  <2>2. ASSUME NEW k \in 1..n - 1
        PROVE  next'[chain'[k]] = IF k = n - 1 THEN NULL ELSE chain'[k + 1]
    <3>1. k + 1 \in 1..n /\ chain'[k] = chain[k + 1]
      BY <1>4
    <3>2. next[chain[k + 1]] = IF k + 1 = n THEN NULL ELSE chain[k + 1 + 1]
      BY <3>1, <1>1 DEF Spelled, n
    <3> QED BY <3>1, <3>2, <1>2, <1>4
  <2> QED BY <2>1, <2>2, <1>4 DEF Spelled
<1>12. Tailed'
  <2>1. /\ pc'[r] = "free"
        /\ last' = IF chain' = <<>> THEN node'[r] ELSE chain'[Len(chain')]
    BY <1>1, <1>2, <1>3, <1>4, <1>5, <1>7 DEF ListTypeOK
  <2>2. \A u \in Threads \ {r} : pc'[u] \notin {"head", "tail", "free"}
    BY <1>1, <1>3 DEF Solo, Inside, Critical
  <2> QED BY <2>1, <2>2, <1>1, ThreadAssumption DEF Tailed, Threads, Clients
<1>13. OwnNodes' /\ HeapRun'
  <2>1. Fresh' = {} /\ Removing' = {r} /\ Fresh = {} /\ Removing = {}
    BY <1>1, <1>3, ThreadAssumption DEF Solo, Inside, Critical, Fresh, Removing, Threads, Clients
  <2>2. node'[r] = chain[1]
    BY <1>1, <1>2, <1>5 DEF ListTypeOK
  <2> QED BY <2>1, <2>2, <1>2, <1>4, <1>5 DEF OwnNodes, HeapRun
<1> QED BY <1>9, <1>10, <1>11, <1>12, <1>13 DEF ListInv

(* if (!q->first) q->last = NULL; free(tmp).                               *)
LEMMA FreeUnlinkedOK ==
  ASSUME ListInv, HeapRun, NEW r \in Readers, Solo(r), FreeUnlinked(r)
  PROVE  ListInv' /\ HeapRun'
<1>1. /\ ListTypeOK /\ ChainOK /\ Spelled /\ Tailed /\ OwnNodes
      /\ r \in Threads
  BY DEF ListInv, Threads, Clients
<1>2. /\ UNCHANGED <<first, chain, sent>>
      /\ UNCHANGED <<count, add_count, get_count, expected, errors, cancelled, alive>>
      /\ last' = IF first = NULL THEN NULL ELSE last
      /\ heap' = heap \ {node[r]}
      /\ next' = [next EXCEPT ![node[r]] = NULL]
      /\ val' = [val EXCEPT ![node[r]] = NULL]
      /\ node' = [node EXCEPT ![r] = NULL]
  BY DEF FreeUnlinked, statVars, readVars, runVars
<1>3. /\ pc' \in [Threads -> Places]
      /\ pc[r] = "free" /\ pc'[r] = "got"
      /\ \A u \in Threads \ {r} : pc'[u] = pc[u]
  <2>1. Goto(r, "free", "got")
    BY DEF FreeUnlinked
  <2> QED BY <2>1, <1>1, GotoFacts DEF Places
<1>4. node[r] \in Node /\ node[r] \in heap \ Range(chain)
  BY <1>1, <1>3 DEF OwnNodes, Removing, ListTypeOK
<1>5. \A k \in 1..Len(chain) : /\ chain[k] \in Node /\ chain[k] # node[r]
                               /\ val'[chain[k]] = val[chain[k]]
                               /\ next'[chain[k]] = next[chain[k]]
  BY <1>1, <1>2, <1>4, ChainFacts DEF ListTypeOK
<1>6. ListTypeOK'
  BY <1>1, <1>2, <1>3 DEF ListTypeOK
<1>7. ChainOK' /\ Spelled'
  BY <1>1, <1>2, <1>5 DEF ChainOK, Spelled
<1>8. Tailed'
  <2>1. last' = IF chain = <<>> THEN NULL ELSE chain[Len(chain)]
    <3>1. first = NULL <=> chain = <<>>
      <4>1. chain # <<>> => 1 \in 1..Len(chain)
        BY <1>1, ChainFacts
      <4> QED BY <4>1, <1>1, <1>5, NodeAssumption DEF Spelled
    <3>2. last = IF chain = <<>> THEN node[r] ELSE chain[Len(chain)]
      BY <1>1, <1>3 DEF Tailed
    <3> QED BY <3>1, <3>2, <1>2
  <2>2. \A u \in Threads : pc'[u] \notin {"head", "tail", "free"}
    BY <1>1, <1>3 DEF Solo, Inside, Critical
  <2> QED BY <2>1, <2>2, <1>2 DEF Tailed, Threads, Clients
<1>9. OwnNodes' /\ HeapRun'
  <2>1. Fresh' = {} /\ Removing' = {} /\ Fresh = {} /\ Removing = {r}
    BY <1>1, <1>3, ThreadAssumption DEF Solo, Inside, Critical, Fresh, Removing, Threads, Clients
  <2> QED BY <2>1, <1>2, <1>4 DEF OwnNodes, HeapRun
<1> QED BY <1>6, <1>7, <1>8, <1>9 DEF ListInv

-----------------------------------------------------------------------------
(* A step that leaves the list and the heap alone, and every thread whose  *)
(* own node matters where it is.                                           *)
Pointing == {"link", "head", "tail", "free"}

LEMMA FrameOK ==
  ASSUME ListInv, ListTypeOK', UNCHANGED <<first, last, chain, next, val, heap>>,
         \A t \in Threads : pc[t] \in Pointing \/ pc'[t] \in Pointing =>
                              pc'[t] = pc[t] /\ node'[t] = node[t],
         \A w \in Writers : pc[w] \in Pointing => sent'[w] = sent[w]
  PROVE  ListInv' /\ (HeapRun => HeapRun')
<1> USE DEF Pointing
<1>1. /\ ListTypeOK /\ ChainOK /\ Spelled /\ Tailed /\ OwnNodes
      /\ \A t \in Clients : t \in Threads
  BY DEF ListInv, Threads, Clients
<1>2. ChainOK' /\ Spelled'
  BY <1>1 DEF ChainOK, Spelled
<1>3. Tailed'
  BY <1>1 DEF Tailed, Threads, Clients
<1>4. Fresh' = Fresh /\ Removing' = Removing
  BY <1>1 DEF Fresh, Removing, Clients
<1>5. \A t \in Fresh \cup Removing : node'[t] = node[t]
  BY <1>1 DEF Fresh, Removing, Clients
<1>6. OwnNodes'
  BY <1>1, <1>4, <1>5 DEF OwnNodes, Fresh
<1>7. HeapRun => HeapRun'
  BY <1>4, <1>5 DEF HeapRun
<1> QED BY <1>2, <1>3, <1>6, <1>7 DEF ListInv

(* A thread that goes from one such place to another and touches nothing.  *)
LEMMA JustGotoOK ==
  ASSUME ListInv, NEW t \in Threads, NEW from, NEW to \in Places \ Pointing,
         JustGoto(t, from, to), from \notin Pointing
  PROVE  ListInv' /\ (HeapRun => HeapRun')
<1>1. ListTypeOK
  BY DEF ListInv
<1>2. /\ UNCHANGED <<first, last, chain, next, val, heap, count, add_count, get_count>>
      /\ UNCHANGED <<node, sent, expected, errors, cancelled, alive>>
  BY DEF JustGoto, memVars, linkVars, heapVars, statVars, readVars, runVars
<1>3. /\ pc' \in [Threads -> Places]
      /\ pc[t] = from /\ pc'[t] = to
      /\ \A u \in Threads \ {t} : pc'[u] = pc[u]
  BY <1>1, GotoFacts DEF JustGoto
<1>4. ListTypeOK'
  BY <1>1, <1>2, <1>3 DEF ListTypeOK
<1>5. /\ \A u \in Threads : pc[u] \in Pointing \/ pc'[u] \in Pointing =>
                              pc'[u] = pc[u] /\ node'[u] = node[u]
      /\ \A w \in Writers : pc[w] \in Pointing => sent'[w] = sent[w]
  BY <1>2, <1>3
<1> QED BY <1>2, <1>4, <1>5, FrameOK

(* q->count++; q->add_count++; i++.                                        *)
LEMMA CountAddedOK ==
  ASSUME ListInv, HeapRun, NEW w \in Writers, CountAdded(w),
         NEW to \in Places \ Pointing, Goto(w, "added", to)
  PROVE  ListInv' /\ HeapRun'
<1>1. ListTypeOK /\ w \in Threads
  BY DEF ListInv, Threads, Clients
<1>2. /\ UNCHANGED <<first, last, chain, next, val, heap, get_count>>
      /\ UNCHANGED <<expected, errors, cancelled, alive>>
      /\ count' = count + 1 /\ add_count' = add_count + 1
      /\ sent' = [sent EXCEPT ![w] = sent[w] + 1]
      /\ node' = [node EXCEPT ![w] = NULL]
  BY DEF CountAdded, linkVars, heapVars, readVars, runVars
<1>3. /\ pc' \in [Threads -> Places]
      /\ pc[w] = "added" /\ pc'[w] = to
      /\ \A u \in Threads \ {w} : pc'[u] = pc[u]
  BY <1>1, GotoFacts
<1>4. ListTypeOK'
  <2>1. count' \in Nat /\ add_count' \in Nat /\ get_count' \in Nat
    BY <1>1, <1>2 DEF ListTypeOK
  <2>2. sent' \in [Writers -> Nat] /\ node' \in [Threads -> Node \cup {NULL}]
    BY <1>1, <1>2 DEF ListTypeOK
  <2> QED BY <2>1, <2>2, <1>1, <1>2, <1>3 DEF ListTypeOK
<1>5. /\ \A u \in Threads : pc[u] \in Pointing \/ pc'[u] \in Pointing =>
                              pc'[u] = pc[u] /\ node'[u] = node[u]
      /\ \A u \in Writers : pc[u] \in Pointing => sent'[u] = sent[u]
  BY <1>1, <1>2, <1>3 DEF Pointing, ListTypeOK, Threads, Clients
<1> QED BY <1>2, <1>4, <1>5, FrameOK

(* HeapOK when only the clients and the monitor have moved.                *)
LEMMA HeapFrameOK ==
  ASSUME HeapOK, HeapRun => HeapRun', UNCHANGED <<chain, heap>>,
         pc'[Main] = pc[Main], node'[Main] = node[Main]
  PROVE  HeapOK'
BY DEF HeapOK, HeapRun

LEMMA HeapClientOK ==
  ASSUME HeapRun', pc'[Main] = "run"
  PROVE  HeapOK'
BY DEF HeapOK, HeapRun

-----------------------------------------------------------------------------
(* queue_destroy frees the list node by node, and all of it.               *)
ClientsGone == \A t \in Clients : pc[t] = "stopped"

LEMMA DestroyWalkOK ==
  ASSUME ListInv, HeapOK, ClientsGone, DestroyWalk
  PROVE  ListInv' /\ HeapOK'
<1>1. /\ ListTypeOK /\ ChainOK /\ Spelled /\ Tailed /\ OwnNodes
      /\ Main \in Threads /\ Main \notin Clients
  BY ThreadAssumption DEF ListInv, Threads
<1>2. /\ UNCHANGED <<first, last, chain, next, val, heap, count, add_count, get_count>>
      /\ UNCHANGED <<sent, expected, errors, cancelled, alive>>
      /\ node' = [node EXCEPT ![Main] = first]
  BY DEF DestroyWalk, linkVars, heapVars, statVars, readVars, runVars
<1>3. /\ pc' \in [Threads -> Places]
      /\ pc[Main] = "joined" /\ pc'[Main] = "walk"
      /\ \A u \in Threads \ {Main} : pc'[u] = pc[u]
  <2>1. Goto(Main, "joined", "walk")
    BY DEF DestroyWalk
  <2> QED BY <2>1, <1>1, GotoFacts DEF Places
<1>4. ListTypeOK'
  BY <1>1, <1>2, <1>3 DEF ListTypeOK
<1>5. ListInv'
  <2>1. /\ \A u \in Threads : pc[u] \in Pointing \/ pc'[u] \in Pointing =>
                                pc'[u] = pc[u] /\ node'[u] = node[u]
        /\ \A u \in Writers : pc[u] \in Pointing => sent'[u] = sent[u]
    BY <1>1, <1>2, <1>3 DEF Pointing, ListTypeOK
  <2> QED BY <2>1, <1>2, <1>4, FrameOK
<1>6. heap = Range(chain)
  <2>1. Fresh = {} /\ Removing = {}
    BY DEF ClientsGone, Fresh, Removing, Clients
  <2> QED BY <2>1, <1>3 DEF HeapOK
<1>7. Len(chain) \in Nat /\ Range(chain) = {chain[j] : j \in 1..Len(chain)}
  <2>1. chain \in Seq(Node)
    BY <1>1 DEF ListTypeOK
  <2>2. Len(chain) \in Nat /\ DOMAIN chain = 1..Len(chain)
    BY <2>1, LenProperties
  <2> QED BY <2>2 DEF Range
<1>8. node'[Main] = IF 1 > Len(chain) THEN NULL ELSE chain[1]
  <2>1. node'[Main] = first
    BY <1>1, <1>2 DEF ListTypeOK
  <2>2. chain = <<>> <=> Len(chain) = 0
    BY <1>1, ChainFacts
  <2> QED BY <2>1, <2>2, <1>1, <1>7 DEF Spelled
<1>9. HeapOK'
  BY <1>2, <1>3, <1>6, <1>7, <1>8 DEF HeapOK
<1> QED BY <1>5, <1>9

LEMMA DestroyFreeOK ==
  ASSUME ListInv, HeapOK, ClientsGone, DestroyFree
  PROVE  ListInv' /\ HeapOK'
<1> DEFINE n == Len(chain)
<1>1. /\ ListTypeOK /\ ChainOK /\ Spelled /\ Tailed /\ OwnNodes
      /\ Main \in Threads /\ Main \notin Clients
  BY ThreadAssumption DEF ListInv, Threads
<1>2. /\ UNCHANGED <<first, last, chain, next, val, count, add_count, get_count>>
      /\ UNCHANGED <<pc, sent, expected, errors, cancelled, alive>>
      /\ pc[Main] = "walk" /\ node[Main] # NULL
      /\ heap' = heap \ {node[Main]}
      /\ node' = [node EXCEPT ![Main] = next[node[Main]]]
  BY DEF DestroyFree, linkVars, statVars, readVars, runVars
<1>3. PICK k \in 1..n + 1 : /\ node[Main] = IF k > n THEN NULL ELSE chain[k]
                            /\ heap = {chain[j] : j \in k..n}
  BY <1>2 DEF HeapOK
<1>4. /\ n \in Nat /\ k \in 1..n
      /\ node[Main] = chain[k] /\ chain[k] \in Node
  BY <1>1, <1>2, <1>3, ChainFacts
<1>5. ListTypeOK'
  BY <1>1, <1>2, <1>4 DEF ListTypeOK
<1>6. ListInv'
  <2>1. ChainOK' /\ Spelled'
    BY <1>1, <1>2 DEF ChainOK, Spelled
  <2>2. Tailed' /\ OwnNodes'
    BY <1>1, <1>2, ThreadAssumption
       DEF Tailed, OwnNodes, Fresh, Removing, ClientsGone, Clients, Threads
  <2> QED BY <2>1, <2>2, <1>5 DEF ListInv
<1> HIDE DEF n
<1>7. node'[Main] = IF k + 1 > n THEN NULL ELSE chain[k + 1]
  <2>1. next[chain[k]] = IF k = n THEN NULL ELSE chain[k + 1]
    BY <1>1, <1>4 DEF Spelled, n
  <2> QED BY <2>1, <1>1, <1>2, <1>4 DEF ListTypeOK
<1>8. heap' = {chain[j] : j \in k + 1..n}
  <2>1. \A j \in k..n : chain[j] = chain[k] => j = k
    BY <1>1, <1>4 DEF ChainOK, n
  <2> QED BY <2>1, <1>2, <1>3, <1>4
<1>9. HeapOK'
  <2>1. pc'[Main] = "walk" /\ chain' = chain
    BY <1>2
  <2>2. k + 1 \in 1..n + 1
    BY <1>4
  <2>3. \E h \in 1..n + 1 : /\ node'[Main] = IF h > n THEN NULL ELSE chain[h]
                            /\ heap' = {chain[j] : j \in h..n}
    BY <2>2, <1>7, <1>8
  <2> QED BY <2>1, <2>3 DEF HeapOK, n
<1> QED BY <1>6, <1>9

LEMMA DestroyDoneOK ==
  ASSUME ListInv, HeapOK, DestroyDone
  PROVE  ListInv' /\ HeapOK'
<1>1. /\ JustGoto(Main, "walk", "returned") /\ node[Main] = NULL
      /\ Main \in Threads /\ ListTypeOK
  BY DEF DestroyDone, ListInv, Threads
<1>2. ListInv'
  BY <1>1, JustGotoOK DEF Places, Pointing
<1>3. pc[Main] = "walk" /\ pc'[Main] = "returned" /\ heap' = heap
  BY <1>1 DEF JustGoto, Goto, ListTypeOK, memVars, heapVars
<1>4. PICK k \in 1..Len(chain) + 1 :
         /\ node[Main] = IF k > Len(chain) THEN NULL ELSE chain[k]
         /\ heap = {chain[j] : j \in k..Len(chain)}
  BY <1>3 DEF HeapOK
<1>5. k > Len(chain) /\ Len(chain) \in Nat
  BY <1>1, <1>4, ChainFacts, NodeAssumption
<1>6. heap = {}
  BY <1>4, <1>5
<1> QED BY <1>2, <1>3, <1>6 DEF HeapOK

-----------------------------------------------------------------------------
(* Whole steps.  Whatever the lock, a step of a client leaves queue_destroy *)
(* where it is, since queue_destroy has not begun.                          *)
USE DEF MonitorPlaces, MainPlaces, Places, Critical

AtWork == /\ pc \in [Threads -> Places]
          /\ pc[Monitor] \in MonitorPlaces /\ pc[Main] \in MainPlaces
          /\ Quiet

HeapInv == ListInv /\ HeapOK

\* while a client has not stopped queue_destroy has not begun, so that a
\* client's step need only keep the list in order and the heap accounted for
LEMMA ClientStepOK ==
  ASSUME AtWork, HeapInv, NEW t \in Clients, NEW from, NEW to, Goto(t, from, to),
         from # "stopped", HeapRun => ListInv' /\ HeapRun'
  PROVE  HeapInv'
<1>1. t \in Threads /\ t # Main
  BY ThreadAssumption DEF Threads
<1>2. pc[Main] = "run" /\ pc'[Main] = "run"
  BY <1>1 DEF AtWork, Quiet, Goto, Threads
<1>3. HeapRun
  BY <1>2 DEF HeapInv, HeapOK, HeapRun
<1>4. HeapOK'
  BY <1>2, <1>3, HeapClientOK
<1> QED BY <1>3, <1>4 DEF HeapInv

\* a client that goes from one place that owns no node to another
LEMMA ClientGotoOK ==
  ASSUME AtWork, HeapInv, NEW t \in Clients, NEW from, NEW to \in Places \ Pointing,
         JustGoto(t, from, to), from # "stopped", from \notin Pointing
  PROVE  HeapInv'
<1>1. t \in Threads /\ ListInv /\ Goto(t, from, to)
  BY DEF Threads, HeapInv, JustGoto
<1>2. HeapRun => ListInv' /\ HeapRun'
  BY <1>1, JustGotoOK
<1> QED BY <1>1, <1>2, ClientStepOK

(* The steps of queue_add and queue_get on the list.                       *)
LEMMA WriterListHeap ==
  ASSUME AtWork, HeapInv, NEW w \in Writers, Solo(w), Malloc(w) \/ LinkStep(w)
  PROVE  HeapInv'
<1>0. w \in Clients /\ w \in Threads /\ ListInv
  BY DEF Clients, Threads, HeapInv
<1>1. PICK from \in {"add", "link", "head", "tail"}, to \in Places : Goto(w, from, to)
  BY DEF Malloc, LinkStep, LinkEmpty, SetFirst, LinkBehind, SetLast
<1>2. HeapRun => ListInv' /\ HeapRun'
  BY <1>0, MallocOK, LinkEmptyOK, SetFirstOK, LinkBehindOK, SetLastOK DEF LinkStep
<1> QED BY <1>0, <1>1, <1>2, ClientStepOK

LEMMA ReaderListHeap ==
  ASSUME AtWork, HeapInv, NEW r \in Readers, Solo(r),
         (Unlink(r) /\ chain # <<>>) \/ FreeUnlinked(r)
  PROVE  HeapInv'
<1>0. r \in Clients /\ r \in Threads /\ ListInv
  BY DEF Clients, Threads, HeapInv
<1>1. PICK from \in {"get", "free"}, to \in Places : Goto(r, from, to)
  BY DEF Unlink, FreeUnlinked
<1>2. HeapRun => ListInv' /\ HeapRun'
  BY <1>0, UnlinkOK, FreeUnlinkedOK
<1> QED BY <1>0, <1>1, <1>2, ClientStepOK

LEMMA AbortHeapInv ==
  ASSUME HeapInv, Abort
  PROVE  HeapInv'
<1>0. ListInv /\ HeapOK
  BY DEF HeapInv
<1>1. /\ UNCHANGED <<first, last, chain, next, val, heap, count, add_count, get_count>>
      /\ UNCHANGED <<pc, node, sent, expected, errors, cancelled>>
      /\ alive' = FALSE
  BY DEF Abort, linkVars, heapVars, statVars, readVars
<1>2. ListTypeOK'
  BY <1>0, <1>1 DEF ListInv, ListTypeOK
<1>3. ListInv' /\ (HeapRun => HeapRun')
  BY <1>0, <1>1, <1>2, FrameOK
<1>4. HeapOK'
  BY <1>0, <1>1, <1>3, HeapFrameOK
<1> QED BY <1>3, <1>4 DEF HeapInv

(* The monitor, a client that stops and queue_destroy before it frees.     *)
LEMMA BystanderHeapInv ==
  ASSUME AtWork, HeapInv, NEW t \in Threads, NEW from, NEW to \in Places \ Pointing,
         JustGoto(t, from, to), from \notin Pointing,
         pc'[Main] = pc[Main] \/ {pc[Main], pc'[Main]} \subseteq {"run", "join", "joined"}
  PROVE  HeapInv'
<1>1. ListInv /\ HeapOK
  BY DEF HeapInv
<1>2. ListInv' /\ (HeapRun => HeapRun')
  BY <1>1, JustGotoOK
<1>3. UNCHANGED <<chain, heap, node>>
  BY DEF JustGoto, memVars, linkVars, heapVars
<1>4. HeapOK'
  <2>1. CASE pc'[Main] = pc[Main]
    BY <2>1, <1>1, <1>2, <1>3, HeapFrameOK
  <2>2. CASE pc[Main] \in {"run", "join", "joined"} /\ pc'[Main] \in {"run", "join", "joined"}
    BY <2>2, <1>1, <1>2 DEF HeapOK, HeapRun
  <2> QED BY <2>1, <2>2
<1> QED BY <1>2, <1>4 DEF HeapInv

LEMMA MonitorHeapInv ==
  ASSUME AtWork, HeapInv, NEW from \in MonitorPlaces, NEW to \in MonitorPlaces,
         JustGoto(Monitor, from, to)
  PROVE  HeapInv'
<1>1. Monitor \in Threads /\ pc'[Main] = pc[Main]
  BY ThreadAssumption DEF JustGoto, Goto, AtWork, Threads
<1>2. to \in Places \ Pointing /\ from \notin Pointing
  BY DEF Pointing
<1> QED BY <1>1, <1>2, BystanderHeapInv

(* queue_destroy frees the list once the clients have stopped.             *)
LEMMA DestroyHeapInv ==
  ASSUME AtWork, HeapInv,
         DestroyCancel \/ DestroyJoin \/ DestroyWalk \/ DestroyFree \/ DestroyDone
  PROVE  HeapInv'
<1>0. ListInv /\ HeapOK /\ ListTypeOK /\ Main \in Threads
  BY DEF HeapInv, ListInv, Threads
<1>g. pc[Main] # "run" => ClientsGone
  BY DEF AtWork, Quiet, ClientsGone
<1>1. CASE DestroyCancel
  <2>1. /\ UNCHANGED <<first, last, chain, next, val, heap, count, add_count, get_count>>
        /\ UNCHANGED <<node, sent, expected, errors, alive>>
        /\ cancelled' = TRUE /\ Goto(Main, "run", "join")
    BY <1>1 DEF DestroyCancel, linkVars, heapVars, statVars, readVars
  <2>2. /\ pc' \in [Threads -> Places] /\ pc[Main] = "run" /\ pc'[Main] = "join"
        /\ \A u \in Threads \ {Main} : pc'[u] = pc[u]
    BY <2>1, <1>0, GotoFacts
  <2>3. ListTypeOK'
    BY <1>0, <2>1, <2>2 DEF ListTypeOK
  <2>4. /\ \A u \in Threads : pc[u] \in Pointing \/ pc'[u] \in Pointing =>
                                pc'[u] = pc[u] /\ node'[u] = node[u]
        /\ \A u \in Writers : pc[u] \in Pointing => sent'[u] = sent[u]
    BY <2>1, <2>2 DEF Pointing
  <2>5. ListInv' /\ (HeapRun => HeapRun')
    BY <1>0, <2>1, <2>3, <2>4, FrameOK
  <2>6. HeapOK'
    BY <1>0, <2>2, <2>5 DEF HeapOK, HeapRun
  <2> QED BY <2>5, <2>6 DEF HeapInv
<1>2. CASE DestroyJoin
  <2>1. JustGoto(Main, "join", "joined") /\ "joined" \in Places \ Pointing
    BY <1>2 DEF DestroyJoin, Pointing
  <2>2. {pc[Main], pc'[Main]} \subseteq {"run", "join", "joined"}
    BY <2>1 DEF JustGoto, Goto, AtWork
  <2> QED BY <1>0, <2>1, <2>2, BystanderHeapInv DEF Pointing
<1>3. CASE DestroyWalk
  <2>1. pc[Main] # "run"
    BY <1>3 DEF DestroyWalk, Goto
  <2> QED BY <1>0, <1>g, <1>3, <2>1, DestroyWalkOK DEF HeapInv
<1>4. CASE DestroyFree
  <2>1. pc[Main] # "run"
    BY <1>4 DEF DestroyFree
  <2> QED BY <1>0, <1>g, <1>4, <2>1, DestroyFreeOK DEF HeapInv
<1>5. CASE DestroyDone
  <2>1. pc[Main] # "run"
    BY <1>5 DEF DestroyDone, JustGoto, Goto
  <2> QED BY <1>0, <1>g, <1>5, <2>1, DestroyDoneOK DEF HeapInv
<1> QED BY <1>1, <1>2, <1>3, <1>4, <1>5

LEMMA InitHeapInv == ListInit => HeapInv
<1> SUFFICES ASSUME ListInit PROVE HeapInv
  OBVIOUS
<1>1. /\ first = NULL /\ last = NULL /\ chain = <<>> /\ heap = {}
      /\ next = [n \in Node |-> NULL] /\ val = [n \in Node |-> NULL]
      /\ count = 0 /\ add_count = 0 /\ get_count = 0
      /\ node = [t \in Threads |-> NULL]
      /\ sent = [w \in Writers |-> 0] /\ expected = [w \in Writers |-> 0]
      /\ errors = FALSE /\ cancelled = FALSE /\ alive = TRUE
  BY DEF ListInit
<1>3. /\ pc \in [Threads -> Places]
      /\ \A t \in Threads : pc[t] \in {"sleep", "run", "idle"}
      /\ pc[Main] = "run"
  BY ThreadAssumption DEF ListInit, Threads
<1>4. /\ chain \in Seq(Node) /\ Len(chain) = 0 /\ DOMAIN chain = {} /\ Range(chain) = {}
  <2>1. chain \in Seq(Node) /\ Len(chain) = 0
    BY <1>1, EmptySeq
  <2>2. DOMAIN chain = 1..Len(chain)
    BY <2>1, LenProperties
  <2>3. DOMAIN chain = {}
    BY <2>1, <2>2
  <2> QED BY <2>1, <2>3 DEF Range
<1>5. ListTypeOK
  <2>1. /\ count \in Nat /\ add_count \in Nat /\ get_count \in Nat
        /\ sent \in [Writers -> Nat] /\ expected \in [Writers -> Nat]
    BY <1>1
  <2> QED BY <1>1, <1>3, <1>4, <2>1 DEF ListTypeOK
<1>6. ChainOK /\ Spelled
  BY <1>1, <1>4 DEF ChainOK, Spelled
<1>7. Fresh = {} /\ Removing = {}
  BY <1>3 DEF Fresh, Removing, Threads, Clients
<1>8. Tailed
  <2>1. \A t \in Clients : pc[t] \notin {"head", "tail", "free"}
    BY <1>3 DEF Threads
  <2> QED BY <1>1, <2>1 DEF Tailed, Clients
<1>9. OwnNodes
  BY <1>7 DEF OwnNodes
<1>10. HeapOK
  BY <1>1, <1>3, <1>4, <1>7 DEF HeapOK
<1> QED BY <1>5, <1>6, <1>8, <1>9, <1>10 DEF HeapInv, ListInv

-----------------------------------------------------------------------------
(* Who is between changing the list and changing the counters.             *)
\* the counters' types, and the list's length
LEMMA CountTypes ==
  ASSUME HeapInv
  PROVE  /\ count \in Nat /\ add_count \in Nat /\ get_count \in Nat
         /\ Len(chain) \in Nat /\ max_count \in Nat
BY ChainFacts, BoundAssumption DEF HeapInv, ListInv, ListTypeOK

\* alone in its critical section, t is the only one that can be between
\* changing the list and changing the counters
LEMMA Between ==
  ASSUME NEW t \in Threads, Solo(t)
  PROVE  /\ Adding = IF t \in Writers /\ pc[t] \in {"tail", "added"} THEN {t} ELSE {}
         /\ Getting = IF t \in Readers /\ pc[t] \in {"free", "got"} THEN {t} ELSE {}
BY DEF Solo, Inside, Adding, Getting, Threads, Clients

\* when only t moves, the others stay outside
LEMMA SoloFacts ==
  ASSUME ListTypeOK, NEW t \in Clients, Solo(t), NEW from, NEW to, Goto(t, from, to)
  PROVE  /\ Solo(t)' /\ pc[t] = from /\ pc'[t] = to /\ t \in Threads
         /\ Adding = IF t \in Writers /\ from \in {"tail", "added"} THEN {t} ELSE {}
         /\ Getting = IF t \in Readers /\ from \in {"free", "got"} THEN {t} ELSE {}
         /\ Adding' = IF t \in Writers /\ to \in {"tail", "added"} THEN {t} ELSE {}
         /\ Getting' = IF t \in Readers /\ to \in {"free", "got"} THEN {t} ELSE {}
<1>1. t \in Threads /\ pc[t] = from
  BY DEF Threads, Goto
<1>2. Solo(t)' /\ pc'[t] = to
  BY <1>1 DEF ListTypeOK, Goto, Solo, Inside
<1>3. /\ Adding' = IF t \in Writers /\ pc'[t] \in {"tail", "added"} THEN {t} ELSE {}
      /\ Getting' = IF t \in Readers /\ pc'[t] \in {"free", "got"} THEN {t} ELSE {}
  BY <1>1, <1>2 DEF Solo, Inside, Adding, Getting, Threads, Clients
<1> QED BY <1>1, <1>2, <1>3, Between

-----------------------------------------------------------------------------
(* The list as the bounded FIFO it implements: linking a node is the       *)
(* abstract Put, moving q->first the abstract Take, and no other step is   *)
(* visible.                                                                *)
FifoP == INSTANCE BoundedFifoProofs
           WITH items <- Items, sent <- sentInto, got <- expected

LEMMA FunctionIsSeq ==
  ASSUME NEW S, NEW n \in Nat, NEW f, f = [k \in 1..n |-> f[k]],
         \A k \in 1..n : f[k] \in S
  PROVE  f \in Seq(S) /\ Len(f) = n
OBVIOUS

LEMMA ItemsFacts ==
  ASSUME ListTypeOK
  PROVE  /\ Items \in Seq(Range(val)) /\ Len(Items) = Len(chain)
         /\ \A k \in 1..Len(chain) : Items[k] = val[chain[k]]
<1>1. /\ Len(chain) \in Nat
      /\ \A k \in 1..Len(chain) : chain[k] \in Node
  BY ChainFacts
<1>2. /\ Items = [k \in 1..Len(chain) |-> Items[k]]
      /\ \A k \in 1..Len(chain) : Items[k] = val[chain[k]]
  BY DEF Items
<1>3. \A n \in Node : val[n] \in Range(val)
  BY DEF Range, ListTypeOK
<1>4. \A k \in 1..Len(chain) : Items[k] \in Range(val)
  BY <1>1, <1>2, <1>3
<1> QED BY <1>1, <1>2, <1>4, FunctionIsSeq

\* a step that leaves the chain and its values alone
LEMMA ItemsStay ==
  ASSUME UNCHANGED chain, \A k \in 1..Len(chain) : val'[chain[k]] = val[chain[k]]
  PROVE  UNCHANGED Items
BY DEF Items

\* a node linked behind the last
LEMMA ItemsGrow ==
  ASSUME ListTypeOK, ListTypeOK', NEW n \in Node, chain' = Append(chain, n), UNCHANGED val
  PROVE  Items' = Append(Items, val[n])
<1>1. /\ Len(chain) \in Nat /\ Len(chain') = Len(chain) + 1
      /\ chain'[Len(chain) + 1] = n
      /\ \A k \in 1..Len(chain) : chain'[k] = chain[k]
  BY ChainFacts, AppendFacts
<1>2. /\ Items \in Seq(Range(val)) /\ Len(Items) = Len(chain)
      /\ \A k \in 1..Len(chain) : Items[k] = val[chain[k]]
  BY ItemsFacts
<1>3. /\ Items' \in Seq(Range(val)) /\ Len(Items') = Len(chain')
      /\ \A k \in 1..Len(chain') : Items'[k] = val[chain'[k]]
  <2>1. /\ Len(chain') \in Nat
        /\ \A k \in 1..Len(chain') : chain'[k] \in Node
    BY <1>1, ChainFacts DEF ListTypeOK
  <2>2. /\ Items' = [k \in 1..Len(chain') |-> Items'[k]]
        /\ \A k \in 1..Len(chain') : Items'[k] = val[chain'[k]]
    BY DEF Items
  <2>3. \A m \in Node : val[m] \in Range(val)
    BY DEF Range, ListTypeOK
  <2>4. \A k \in 1..Len(chain') : Items'[k] \in Range(val)
    BY <2>1, <2>2, <2>3
  <2> QED BY <2>1, <2>2, <2>4, FunctionIsSeq
<1>4. val[n] \in Range(val)
  BY DEF Range, ListTypeOK
<1>5. /\ Append(Items, val[n]) \in Seq(Range(val))
      /\ Len(Append(Items, val[n])) = Len(chain')
      /\ \A k \in 1..Len(chain') : Append(Items, val[n])[k] =
                                     IF k = Len(chain) + 1 THEN val[n] ELSE Items[k]
  BY <1>1, <1>2, <1>4
<1>6. \A k \in 1..Len(chain') : Items'[k] = Append(Items, val[n])[k]
  BY <1>1, <1>2, <1>3, <1>5
<1> QED BY <1>3, <1>5, <1>6, SeqEqual

\* the first node unlinked
LEMMA ItemsShrink ==
  ASSUME ListTypeOK, ListTypeOK', ChainOK, chain # <<>>, chain' = Tail(chain), UNCHANGED val
  PROVE  Items # <<>> /\ Head(Items) = val[chain[1]] /\ Items' = Tail(Items)
<1>1. /\ Len(chain) \in Nat \ {0} /\ Len(chain') = Len(chain) - 1
      /\ \A k \in 1..Len(chain) - 1 : chain'[k] = chain[k + 1]
  BY TailFacts
<1>2. /\ Items \in Seq(Range(val)) /\ Len(Items) = Len(chain)
      /\ \A k \in 1..Len(chain) : Items[k] = val[chain[k]]
  BY ItemsFacts
<1>3. /\ Items' \in Seq(Range(val)) /\ Len(Items') = Len(chain')
      /\ \A k \in 1..Len(chain') : Items'[k] = val[chain'[k]]
  <2>1. \A k \in 1..Len(chain) : chain[k] \in Node
    BY ChainFacts
  <2>2. /\ Items' = [k \in 1..Len(chain') |-> Items'[k]]
        /\ \A k \in 1..Len(chain') : Items'[k] = val[chain'[k]]
    BY DEF Items
  <2>3. \A m \in Node : val[m] \in Range(val)
    BY DEF Range, ListTypeOK
  <2>4. \A k \in 1..Len(chain') : Items'[k] \in Range(val)
    BY <1>1, <2>1, <2>2, <2>3
  <2>5. Len(chain') \in Nat
    BY <1>1
  <2> QED BY <2>2, <2>4, <2>5, FunctionIsSeq
<1>4. Items # <<>>
  BY <1>1, <1>2, EmptySeq
<1>5. /\ Head(Items) = Items[1]
      /\ Tail(Items) \in Seq(Range(val)) /\ Len(Tail(Items)) = Len(Items) - 1
      /\ \A k \in 1..Len(Items) - 1 : Tail(Items)[k] = Items[k + 1]
  BY <1>2, <1>4, HeadTailProperties
<1>6. \A k \in 1..Len(Items') : Items'[k] = Tail(Items)[k]
  <2> SUFFICES ASSUME NEW k \in 1..Len(chain) - 1
               PROVE  Items'[k] = Tail(Items)[k]
    BY <1>1, <1>3
  <2>1. Items'[k] = val[chain[k + 1]]
    BY <1>1, <1>3
  <2>2. Tail(Items)[k] = val[chain[k + 1]]
    BY <1>1, <1>2, <1>5
  <2> QED BY <2>1, <2>2
<1>7. Items' = Tail(Items)
  BY <1>1, <1>2, <1>3, <1>5, <1>6, SeqEqual
<1>8. Head(Items) = val[chain[1]]
  BY <1>1, <1>2, <1>5
<1> QED BY <1>4, <1>7, <1>8

\* a step that the abstract queue does not see
Silent == UNCHANGED <<Items, sentInto, expected>>

\* sent runs ahead of the program's i while a writer is past the linking
LEMMA SilentFrame ==
  ASSUME UNCHANGED <<chain, sent, expected>>,
         \A k \in 1..Len(chain) : val'[chain[k]] = val[chain[k]],
         \A w \in Writers : pc'[w] \in {"tail", "added"} <=> pc[w] \in {"tail", "added"}
  PROVE  Silent
<1>1. UNCHANGED Items
  BY ItemsStay
<1>2. Adding' = Adding
  BY DEF Adding
<1>3. UNCHANGED sentInto
  BY <1>2 DEF sentInto
<1> QED BY <1>1, <1>3 DEF Silent

LEMMA SilentGoto ==
  ASSUME ListTypeOK, NEW t \in Threads, NEW from, NEW to, Goto(t, from, to),
         UNCHANGED <<chain, sent, expected>>,
         \A k \in 1..Len(chain) : val'[chain[k]] = val[chain[k]],
         from \in {"tail", "added"} <=> to \in {"tail", "added"}
  PROVE  Silent
<1>1. \A w \in Writers : pc'[w] \in {"tail", "added"} <=> pc[w] \in {"tail", "added"}
  BY DEF Goto, ListTypeOK, Threads, Clients
<1> QED BY <1>1, SilentFrame

LEMMA SilentMove ==
  ASSUME ListTypeOK, NEW t \in Threads, NEW from, NEW to, JustGoto(t, from, to),
         from \notin {"tail", "added"}, to \notin {"tail", "added"}
  PROVE  Silent
<1>1. Goto(t, from, to) /\ UNCHANGED <<chain, val, sent, expected>>
  BY DEF JustGoto, memVars, linkVars, heapVars, readVars
<1> QED BY <1>1, SilentGoto

(* Linking a node is the abstract Put, if there is room.                   *)
LEMMA LinkIsPut ==
  ASSUME ListInv, ListTypeOK', NEW w \in Writers, Solo(w), Len(chain) < max_count,
         SetFirst(w) \/ LinkBehind(w)
  PROVE  FifoP!Put(w)
<1>0. /\ w \in Threads /\ ListTypeOK /\ OwnNodes
      /\ \A u \in Writers : u \in Threads
  BY DEF Threads, Clients, ListInv
<1>1. PICK from \in {"link", "head"}, to \in {"tail", "added"} : Goto(w, from, to)
  BY DEF SetFirst, LinkBehind
<1>2. chain' = Append(chain, node[w]) /\ UNCHANGED <<val, sent, expected>>
  BY DEF SetFirst, LinkBehind, heapVars, readVars
<1>3. pc[w] = from /\ pc'[w] = to /\ \A u \in Threads \ {w} : pc'[u] = pc[u]
  BY <1>0, <1>1 DEF Goto, ListTypeOK
<1>4. Adding = {} /\ Adding' = {w}
  BY <1>0, <1>3 DEF Adding, Solo, Inside, Critical
<1>5. Len(Items) < max_count
  BY <1>0, ItemsFacts
<1>6. node[w] \in Node /\ val[node[w]] = <<w, sent[w]>>
  BY <1>0, <1>3 DEF OwnNodes, Fresh, ListTypeOK
<1>7. Items' = Append(Items, val[node[w]])
  BY <1>0, <1>2, <1>6, ItemsGrow
<1>8. /\ sentInto[w] = sent[w]
      /\ sentInto' = [sentInto EXCEPT ![w] = sentInto[w] + 1]
  BY <1>2, <1>4 DEF sentInto
<1> QED BY <1>2, <1>5, <1>6, <1>7, <1>8 DEF FifoP!Put

(* The other steps of queue_add are not seen, the counting included: then  *)
(* sent catches up with what is in the queue.                              *)
LEMMA WriterIsSilent ==
  ASSUME ListInv, HeapRun, NEW w \in Writers, Malloc(w) \/ LinkEmpty(w) \/ SetLast(w)
  PROVE  Silent
<1>0. w \in Threads /\ ListTypeOK
  BY DEF Threads, Clients, ListInv
<1>1. CASE Malloc(w)
  <2>1. Goto(w, "add", "link") /\ UNCHANGED <<chain, sent, expected>>
    BY <1>1 DEF Malloc, linkVars, readVars
  <2>2. PICK n \in Node \ heap : val' = [val EXCEPT ![n] = <<w, sent[w]>>]
    BY <1>1 DEF Malloc
  <2>3. \A k \in 1..Len(chain) : chain[k] \in heap
    BY <1>0, ChainFacts DEF HeapRun
  <2>4. \A k \in 1..Len(chain) : val'[chain[k]] = val[chain[k]]
    BY <2>2, <2>3, <1>0 DEF ListTypeOK
  <2> QED BY <2>1, <2>4, <1>0, SilentGoto
<1>2. CASE LinkEmpty(w) \/ SetLast(w)
  <2>1. /\ Goto(w, "link", "head") \/ Goto(w, "tail", "added")
        /\ UNCHANGED <<chain, val, sent, expected>>
    BY <1>2 DEF LinkEmpty, SetLast, heapVars, readVars
  <2> QED BY <2>1, <1>0, SilentGoto
<1> QED BY <1>1, <1>2

LEMMA CountAddedIsSilent ==
  ASSUME ListTypeOK, NEW w \in Writers, pc[w] = "added", pc'[w] \notin {"tail", "added"},
         CountAdded(w),
         \A u \in Writers \ {w} : pc'[u] \in {"tail", "added"} <=> pc[u] \in {"tail", "added"}
  PROVE  Silent
<1>1. /\ UNCHANGED <<chain, val, expected>>
      /\ sent' = [sent EXCEPT ![w] = sent[w] + 1]
  BY DEF CountAdded, linkVars, heapVars, readVars
<1>2. w \in Adding /\ \A u \in Writers : u \in Adding' <=> u \in Adding /\ u # w
  BY DEF Adding
<1>3. UNCHANGED sentInto
  BY <1>1, <1>2 DEF sentInto, ListTypeOK
<1> QED BY <1>1, <1>3, ItemsStay DEF Silent

(* Unlinking a node is the abstract Take, and finds the number that the    *)
(* abstract queue promises.                                                *)
LEMMA UnlinkIsTake ==
  ASSUME ListInv, ListTypeOK', NEW r \in Readers, chain # <<>>, Unlink(r)
  PROVE  /\ FifoP!Take
         /\ FifoP!InOrder => errors' = errors
<1>0. r \in Threads /\ r \notin Writers /\ ListTypeOK /\ ChainOK /\ Spelled
  BY ThreadAssumption DEF Threads, Clients, ListInv
<1>1. /\ Goto(r, "get", "free") /\ chain' = Tail(chain)
      /\ UNCHANGED <<val, sent>>
      /\ errors' = (errors \/ val[first][2] # expected[val[first][1]])
      /\ expected' = [expected EXCEPT ![val[first][1]] = val[first][2] + 1]
  BY DEF Unlink, heapVars
<1>2. first = chain[1]
  BY <1>0 DEF Spelled
<1>3. Items # <<>> /\ Head(Items) = val[first] /\ Items' = Tail(Items)
  BY <1>0, <1>1, <1>2, ItemsShrink
<1>4. UNCHANGED sentInto
  <2>1. Adding' = Adding
    BY <1>0, <1>1 DEF Adding, Goto, ListTypeOK
  <2> QED BY <1>1, <2>1 DEF sentInto
<1>5. FifoP!Take
  BY <1>1, <1>3, <1>4 DEF FifoP!Take
<1>6. ASSUME FifoP!InOrder PROVE errors' = errors
  <2>1. val[first][2] = expected[val[first][1]]
    BY <1>3, <1>6 DEF FifoP!InOrder
  <2>2. errors \in BOOLEAN
    BY <1>0 DEF ListTypeOK
  <2> QED BY <2>1, <2>2, <1>1
<1> QED BY <1>5, <1>6

LEMMA FreeIsSilent ==
  ASSUME ListInv, NEW r \in Readers, FreeUnlinked(r)
  PROVE  Silent
<1>0. r \in Threads /\ ListTypeOK /\ OwnNodes
  BY DEF Threads, Clients, ListInv
<1>1. /\ Goto(r, "free", "got") /\ UNCHANGED <<chain, sent, expected>>
      /\ val' = [val EXCEPT ![node[r]] = NULL] /\ pc[r] = "free"
  BY DEF FreeUnlinked, readVars, Goto
<1>2. node[r] \notin Range(chain)
  BY <1>0, <1>1 DEF OwnNodes, Removing
<1>3. \A k \in 1..Len(chain) : chain[k] \in Range(chain) /\ chain[k] \in Node
  BY <1>0, ChainFacts
<1>4. \A k \in 1..Len(chain) : val'[chain[k]] = val[chain[k]]
  BY <1>0, <1>1, <1>2, <1>3 DEF ListTypeOK
<1> QED BY <1>0, <1>1, <1>4, SilentGoto

LEMMA InitFifo ==
  ASSUME ListInit, ListTypeOK
  PROVE  FifoP!Init
<1>1. /\ chain = <<>> /\ \A w \in Writers : pc[w] \notin {"tail", "added"}
      /\ sent = [w \in Writers |-> 0] /\ expected = [w \in Writers |-> 0]
  BY DEF ListInit, Threads, Clients
<1>2. Items = <<>>
  BY <1>1, ItemsFacts, EmptySeq
<1>3. Adding = {}
  BY <1>1 DEF Adding
<1> QED BY <1>1, <1>2, <1>3 DEF FifoP!Init, sentInto

(* What is proved of FifoP is what QueueList promises.                     *)
LEMMA FifoImplements == FifoP!Spec => Implements
BY DEF Implements, Fifo!Spec, FifoP!Spec, Fifo!Init, FifoP!Init, Fifo!Next, FifoP!Next,
   Fifo!Put, FifoP!Put, Fifo!Take, FifoP!Take, Fifo!fifoVars, FifoP!fifoVars
=============================================================================

----------------------------- MODULE RacyQueue -----------------------------
(***************************************************************************)
(* queue.c of 2nd_sem/task2: no synchronisation, and tests against what    *)
(* the race may leave behind.                                              *)
(***************************************************************************)
EXTENDS RacyMemory

-----------------------------------------------------------------------------
(* queue_add.                                                              *)
AddEmpty == Test("writer", "empty?", q.first = NULL, "only", "last?")

AddHasLast == Test("writer", "last?", q.last # NULL, "tail", "first?")
AddLinkTail == LinkNew("tail2", "settail") \/ LinkCrash("tail2")

\* mutant: q->last stays behind
AddLastStays == Test("writer", "settail", TRUE, "count", "count")

AddSetLast == Store("writer", "settail", "count", "last", mine["writer"])

\* first is not NULL and last is: if (q->first && q->first->next == NULL)
AddStillFirst == Test("writer", "first?", q.first # NULL, "load first", "only")
AddLoadFirst == Load("writer", "load first", "one?", q.first)
AddOneNode == \/ /\ ptr["writer"] \in Node
                 /\ Test("writer", "one?", next[ptr["writer"]] = NULL, "repair", "only")
              \/ LinkCrash("one?")

\* q->first->next = new
AddLoadRepair == Load("writer", "repair", "repair2", q.first)
AddLinkRepair == LinkNew("repair2", "settail") \/ LinkCrash("repair2")

Add == \/ AddCalled \/ AddFull \/ AddMalloc \/ AddNoMemory \/ AddEmpty
       \/ AddOnlyLast \/ AddOnlyFirst \/ AddHasLast \/ AddLoadTail \/ AddLinkTail
       \/ AddSetLast \/ AddStillFirst \/ AddLoadFirst \/ AddOneNode \/ AddLoadRepair
       \/ AddLinkRepair \/ AddLoadCount \/ AddStoreCount \/ AddReturn

-----------------------------------------------------------------------------
(* queue_get.                                                              *)
GetCountTest == Test("reader", "count?", q.count =< 0, "idle", "first?")
GetFirstTest == Test("reader", "first?", q.first = NULL, "idle", "zero?")
GetZeroTest  == Test("reader", "zero?", q.count = 0, "idle", "tmp")

\* tmp = q->first, and return 0 if that is NULL
GetLoadFirst == /\ Go("reader", "tmp", IF q.first = NULL THEN "idle" ELSE "next")
                /\ mine' = [mine EXCEPT !["reader"] = q.first]
                /\ UNCHANGED <<q, nodes, ptr, num, checks, crashed, overlapped>>

\* *val = tmp->val; tmp->next
GetLoadNode == /\ Go("reader", "next", "move")
               /\ ptr' = [ptr EXCEPT !["reader"] = next[mine["reader"]]]
               /\ GetCheck
               /\ UNCHANGED <<q, nodes, mine, num, sent, crashed, overlapped>>

\* mutant: q->first does not move on
GetFirstStays == Test("reader", "move", TRUE, "empty?", "empty?")

GetMove == GetSetFirst("empty?")

GetEmptyTest == Test("reader", "empty?", q.first = NULL, "clear", "free")
GetClearLast == Store("reader", "clear", "free", "last", NULL)

\* if (q->count > 0) q->count--
GetPositive == Test("reader", "positive?", q.count > 0, "count", "got")

\* if (q->get_count < q->add_count) q->get_count++
GetReturn == Store("reader", "got", "idle", "get_count",
                   IF q.get_count < q.add_count THEN q.get_count + 1 ELSE q.get_count)

Get == \/ GetCalled \/ GetCountTest \/ GetFirstTest \/ GetZeroTest \/ GetLoadFirst
       \/ GetLoadNode \/ GetMove \/ GetEmptyTest \/ GetClearLast \/ GetFree("positive?")
       \/ GetPositive \/ GetLoadCount \/ GetStoreCount \/ GetReturn

Next == crashed = "no" /\ (Add \/ Get)

Spec == Init /\ [][Next]_vars

=============================================================================

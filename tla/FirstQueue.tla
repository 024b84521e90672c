----------------------------- MODULE FirstQueue -----------------------------
(***************************************************************************)
(* queue.c of 2nd_sem/task1, the first version of the queue: no            *)
(* synchronisation, and no defence but its asserts.  queue_get trusts      *)
(* count to say whether there is a node, and leaves q->last alone when it  *)
(* takes the last one.                                                     *)
(***************************************************************************)
EXTENDS RacyMemory

-----------------------------------------------------------------------------
(* queue_add.                                                              *)
AddEmpty == Test("writer", "empty?", q.first = NULL, "only", "tail")

\* q->last->next = new
AddLinkTail == LinkNew("tail2", "last") \/ LinkCrash("tail2")

\* q->last = q->last->next
AddLoadLast == Load("writer", "last", "last2", q.last)
AddLoadNext == \/ /\ ptr["writer"] \in Node
                  /\ Load("writer", "last2", "settail", next[ptr["writer"]])
               \/ LinkCrash("last2")

\* mutant: q->last stays behind
AddLastStays == Test("writer", "settail", TRUE, "count", "count")

AddSetLast == Store("writer", "settail", "count", "last", ptr["writer"])

Add == \/ AddCalled \/ AddFull \/ AddMalloc \/ AddNoMemory \/ AddEmpty
       \/ AddOnlyLast \/ AddOnlyFirst \/ AddLoadTail \/ AddLinkTail
       \/ AddLoadLast \/ AddLoadNext \/ AddSetLast
       \/ AddLoadCount \/ AddStoreCount \/ AddReturn

-----------------------------------------------------------------------------
(* queue_get.                                                              *)
GetCountTest == Test("reader", "count?", q.count = 0, "idle", "tmp")

\* tmp = q->first
GetLoadFirst == /\ Go("reader", "tmp", "val")
                /\ mine' = [mine EXCEPT !["reader"] = q.first]
                /\ UNCHANGED <<q, nodes, ptr, num, checks, crashed, overlapped>>

\* *val = tmp->val
GetLoadVal == \/ /\ mine["reader"] \in Node
                 /\ Go("reader", "val", "first")
                 /\ GetCheck
                 /\ UNCHANGED <<q, nodes, locals, sent, crashed, overlapped>>
              \/ mine["reader"] \notin Node /\ End("reader", "val")

\* q->first = q->first->next
GetReloadFirst == Load("reader", "first", "next", q.first)
GetLoadNext == \/ /\ ptr["reader"] \in Node
                  /\ Load("reader", "next", "move", next[ptr["reader"]])
               \/ ptr["reader"] \notin Node /\ End("reader", "next")
GetMove == GetSetFirst("free")

GetReturn == Store("reader", "got", "idle", "get_count", q.get_count + 1)

Get == \/ GetCalled \/ GetCountTest \/ GetLoadFirst \/ GetLoadVal \/ GetReloadFirst
       \/ GetLoadNext \/ GetMove \/ GetFree("count")
       \/ GetLoadCount \/ GetStoreCount \/ GetReturn

Next == crashed = "no" /\ (Add \/ Get)

Spec == Init /\ [][Next]_vars

=============================================================================

------------------------------ MODULE RawRing ------------------------------
(***************************************************************************)
(* lab6/sep_memory.c: the ring of sep_memory_fix.c before it had           *)
(* semaphores.  The child goes round writing 0, 1, 2, ..., the parent goes *)
(* round reading at its own pace.                                          *)
(***************************************************************************)
EXTENDS Integers

CONSTANTS PAGE_ENTRIES,
          Laps          \* bound: unsigned int counts Laps * PAGE_ENTRIES numbers, 2^32 in the code

VARIABLES
  ring,    \* the page, the writer's idx and cnt, and the slots it has filled
  scan     \* the reader: idx, prev, what cur differed by, and whether both slots were filled

ringVars == <<ring, scan>>

Modulus == Laps * PAGE_ENTRIES
Slots == 0..PAGE_ENTRIES - 1

\* mmap clears the page
Init == /\ ring = [buf |-> [i \in Slots |-> 0], idx |-> 0, cnt |-> 0, filled |-> {}]
        /\ scan = [idx |-> 0, prev |-> 0, known |-> FALSE, off |-> 0, both |-> FALSE]

\* mutant: the last slot is never used
WriteShort == /\ ring' = [buf |-> [ring.buf EXCEPT ![ring.idx] = ring.cnt],
                          idx |-> (ring.idx + 1) % (PAGE_ENTRIES - 1),
                          cnt |-> (ring.cnt + 1) % Modulus,
                          filled |-> ring.filled \cup {ring.idx}]
              /\ UNCHANGED scan

Write == /\ ring' = [buf |-> [ring.buf EXCEPT ![ring.idx] = ring.cnt],
                     idx |-> (ring.idx + 1) % PAGE_ENTRIES,
                     cnt |-> (ring.cnt + 1) % Modulus,
                     filled |-> ring.filled \cup {ring.idx}]
         /\ UNCHANGED scan

\* the first read has nothing to compare with: there prev is made up to fit
Read == /\ LET cur == ring.buf[scan.idx]  filled == scan.idx \in ring.filled IN
             scan' = [idx |-> (scan.idx + 1) % PAGE_ENTRIES, prev |-> cur, known |-> filled,
                      off |-> (cur - (scan.prev + 1)) % Modulus, both |-> scan.known /\ filled]
        /\ UNCHANGED ring

Next == Write \/ Read

-----------------------------------------------------------------------------
\* The reader does see gaps: it meets slots not yet written, and the writer overtakes it.
\* But a complaint about two slots that were both written tells of whole laps: the
\* numbers differ by a multiple of the page, also when cnt wraps (sep_memory.c:45).
RawGapsAreLaps == scan.both => scan.off % PAGE_ENTRIES = 0
=============================================================================

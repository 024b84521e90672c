CONSTANTS
  Writers = {w1, w2}
  Readers = {r1, r2}
  Monitor = monitor
  Main = main
  Node = {n1, n2, n3}
  NULL = NULL
  max_count = 2
  MaxVal = 2
SPECIFICATION FairSpec
INVARIANTS TypeOK Mutex ListShape HeapOK CountsOK NoSequenceError
PROPERTIES Implements CleanDestroyReturns
CHECK_DEADLOCK FALSE

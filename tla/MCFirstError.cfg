CONSTANTS
  Node = {n1, n2, n3}
  NULL = NULL
  Junk = Junk
  max_count = 2
  MaxVal = 3
SPECIFICATION Spec
INVARIANTS NoSequenceError
CHECK_DEADLOCK FALSE

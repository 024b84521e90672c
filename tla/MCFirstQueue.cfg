CONSTANTS
  Node = {n1, n2, n3, n4}
  NULL = NULL
  Junk = Junk
  max_count = 2
  MaxVal = 4
SPECIFICATION Spec
INVARIANTS Guarantees
CHECK_DEADLOCK FALSE

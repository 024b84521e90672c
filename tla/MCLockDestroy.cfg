CONSTANTS
  Writers = {w1}
  Readers = {r1}
  Monitor = monitor
  Main = main
  Node = {n1}
  NULL = NULL
  max_count = 1
  MaxVal = 1
SPECIFICATION FairSpec
PROPERTIES DestroyReturns
CHECK_DEADLOCK FALSE

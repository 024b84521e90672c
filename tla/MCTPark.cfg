CONSTANTS
  ITERS = 3
SPECIFICATION Spec
PROPERTIES Finishes
CHECK_DEADLOCK FALSE

CONSTANTS
  MaxThreads = 3
  Few = 1
  Programs = {"measure_tail"}
SPECIFICATION Spec
INVARIANTS EarlyClaimsTrue
CHECK_DEADLOCK FALSE

CONSTANTS
  capacity = 3
  Wrap = 7
SPECIFICATION SharedSpec
INVARIANTS NoSlotRace NoGap
PROPERTIES GoesRound

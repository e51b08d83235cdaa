SPECIFICATION Spec
CONSTANTS
  MyId = 65535
  Times <- MCTimes
  Seqs = {0, 1, 65535}
  TaskIds = {0, 3, 65535}
  HdrWords = {5, 6, 15}
  Foreign <- MCForeign
INVARIANTS
  CostIsElapsed
CHECK_DEADLOCK FALSE

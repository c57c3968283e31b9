SPECIFICATION Spec
CONSTANTS
  Addr <- MCAddr
  Batch <- MCBatch
  Requests <- MCRequests
  Start <- MCStart
  Modes = {FALSE, TRUE}
  MaxHeight = 3
  MaxReorgs = 1
INVARIANTS
  OneScanAtATime
  NothingForgotten
  HistoriesAreRight
CHECK_DEADLOCK FALSE

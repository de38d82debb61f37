SPECIFICATION Spec
CONSTANTS
  Sessions = {s1, s2, s3}
  MaxHandlers = 3
  InitSize = 1
  High = 2
  ThreadLoad = 1
  RecursiveMutex = TRUE
  MaxStarts = 2
INVARIANTS OnlyGrownLoses
PROPERTIES Drained StopReturns
CHECK_DEADLOCK FALSE

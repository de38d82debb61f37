SPECIFICATION Spec
CONSTANTS
  Callers = {c1, c2, c3}
  PoolInit = 1
  Low = 0
  High = 2
  Increment = 1
  Maximum = 3
  Faults = TRUE
  MaxGets = 5
  Services = {s1, s2}
  MaxStarts = 2
INVARIANTS CountExact NoIdleWhileAsleep StoppedIsEmpty
PROPERTIES GetReturns StopCompletes CallsReturn
CHECK_DEADLOCK FALSE

SPECIFICATION HostSpec
CONSTANTS
  QueueLength = 2
  AcceptErrors = TRUE
  MaxStarts = 3
  PoolInit = 1
  Low = 0
  High = 2
  Increment = 2
  Maximum = 3
  RecursiveMutex = TRUE
  MaxInits = 1
  Pausable = TRUE
  Programs = {"program", "service", "tool"}
INVARIANTS ChainsKeptInBounds StoppedIsClean CountExact CountBounded ReportedIsTrue
PROPERTIES StopHeeded AcceptsAgain NothingLeaks ServiceEnds
CHECK_DEADLOCK FALSE

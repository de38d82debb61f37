SPECIFICATION Spec
CONSTANTS
  Closing = "anybody"
  Duplex = TRUE
  MaxCalls = 4
  MaxCloses = 2
INVARIANTS NothingLeftBehind ErrorMeansClosed
PROPERTIES OwnResult CallsReturn
CHECK_DEADLOCK FALSE

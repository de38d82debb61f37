SPECIFICATION Spec
CONSTANTS
  Closing = "caller"
  Duplex = FALSE
  MaxCalls = 2
  MaxCloses = 1
PROPERTIES OkMeansDone
CHECK_DEADLOCK FALSE

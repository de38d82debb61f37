SPECIFICATION EchoSpec
CONSTANTS
  SessionTimeout = TRUE
  IoTimeout = TRUE
  Outstanding = 1
  Linked = FALSE
  MaxSessions = 3
  MaxOps = 2
  MaxEvents = 0
  Pauses = {TRUE, FALSE}
INVARIANTS PauseEndsWithSession FailuresCounted
PROPERTIES PauseIsHarmless SessionOver
CHECK_DEADLOCK FALSE

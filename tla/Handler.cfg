SPECIFICATION Spec
CONSTANTS
  SessionTimeout = TRUE
  IoTimeout = TRUE
  Outstanding = 1
  Linked = TRUE
  MaxSessions = 2
  MaxOps = 2
  MaxEvents = 1
INVARIANTS StoppedIsQuiet SessionIsGuarded
PROPERTIES CallbackOrder SessionEnds StoppedIsRecycled
CHECK_DEADLOCK FALSE

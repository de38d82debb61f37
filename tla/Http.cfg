SPECIFICATION Spec
CONSTANTS
  Files <- SomeFiles
  IndexHtml <- Index
  MimeTypes <- Types
  Requests <- SomeRequests
  BufferSize = 27
  MaxSessions = 2
INVARIANTS WholeReadIsAnswered
CHECK_DEADLOCK FALSE

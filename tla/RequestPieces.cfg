SPECIFICATION Spec
CONSTANTS
  Files <- SomeFiles
  IndexHtml <- Index
  MimeTypes <- Types
  Requests <- OneRequest
  BufferSize = 27
  MaxSessions = 1
INVARIANT InvalidMeansInvalid
CHECK_DEADLOCK FALSE

\* Two timeouts or two errors end a session; three requests for a queue of one,
\* two responses.
SPECIFICATION FairSpec
CONSTANTS
  MaxTimeout = 200
  MaxRecvTimeo = 100
  MaxErrors = 2
  RequestCap = 1
  ResponseCap = 2
  MaxRequests = 3
  MaxResponses = 2
INVARIANTS
  TypeOK
  ThrownOutJustly
  RepliesInOrder
  RequestsInOrder
  ExitExplained
PROPERTIES
  SessionEnds
\* The session ends.
CHECK_DEADLOCK FALSE

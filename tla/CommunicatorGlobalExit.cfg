SPECIFICATION FairSpec
CONSTANTS
  MaxTimeout = 200
  MaxRecvTimeo = 100
  MaxErrors = 2
  RequestCap = 1
  ResponseCap = 1
  MaxRequests = 2
  MaxResponses = 1
PROPERTY GlobalExitStops
CHECK_DEADLOCK FALSE

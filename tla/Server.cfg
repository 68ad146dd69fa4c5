CONSTANTS
  Clients = {c1, c2}
  MaxRequests = 2
SPECIFICATION FairServerSpec
INVARIANTS
  ReplyIsToLastRequest
  ShutdownClean
PROPERTIES
  RequestsEnd
  StopsUnlessClientIdle
CHECK_DEADLOCK FALSE

SPECIFICATION FairSpec
CONSTANTS
  MaxConns = 1
  Modes <- BothModes
  CloseOnError = TRUE
  MaxConnections = 2
  MaxSessions = 1
  MaxSids = 1
  MaxStreams = 1
  MaxRequests = 2
PROPERTY StopAlwaysReturns
CHECK_DEADLOCK FALSE

SPECIFICATION Spec
CONSTANTS
  MaxConns = 2
  Modes <- BothModes
  CloseOnError = FALSE
  MaxConnections = 2
  MaxSessions = 1
  MaxSids = 1
  MaxStreams = 1
  MaxRequests = 2
INVARIANT SlotsComeBack
CHECK_DEADLOCK FALSE

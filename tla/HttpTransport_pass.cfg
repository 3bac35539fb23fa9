SPECIFICATION FairSpec
CONSTANTS
  MaxConns = 2
  Modes <- BothModes
  CloseOnError = TRUE
  MaxConnections = 2
  MaxSessions = 1
  MaxSids = 2
  MaxStreams = 2
  MaxRequests = 3
INVARIANTS SlotsHeld SessionTable StreamsFollowSession
PROPERTIES AbandonedSessionsReaped StopReturns
CHECK_DEADLOCK FALSE

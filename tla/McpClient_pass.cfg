SPECIFICATION FairSpec
CONSTANTS
  tok = tok
  caller = caller
  NullId = NullId
  Stopper = stopper
  MaxId = 2
  Cancellable = {2}
  StringTokens <- MCStringTokens
  NumericTokens <- None
  Callers <- MCCallers
  AppStops = TRUE
  PeerThrows = TRUE
  OwnsChoices <- Yes
  TimedChoices <- Yes
  MaxHandshakes = 1
  MaxInbound = 1
INVARIANTS TableExact ConnectedWillClear LoopOutlivesTimeouts
PROPERTIES ImplementsRequestContract TimedRequestResolves StopReturns
CHECK_DEADLOCK FALSE

SPECIFICATION FairSpec
CONSTANTS
  tok = tok
  caller = caller
  NullId = NullId
  Stopper = stopper
  MaxId = 1
  Cancellable <- None
  StringTokens <- None
  NumericTokens <- None
  Callers <- MCCallers
  AppStops = FALSE
  PeerThrows = TRUE
  OwnsChoices <- Yes
  TimedChoices <- Yes
  MaxHandshakes = 1
  MaxInbound = 1
PROPERTY DrainCompletes
CHECK_DEADLOCK FALSE

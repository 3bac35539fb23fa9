SPECIFICATION FairSpec
CONSTANTS
  MaxReqs = 2
  WorkerChoices <- UpToTwo
  OwnsChoices <- Both
  TimedChoices <- Both
INVARIANTS QuietAfterStop SendIsSafe
PROPERTIES InboundAnswered StopReturns
CHECK_DEADLOCK FALSE

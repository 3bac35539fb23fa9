SPECIFICATION FairSpec
CONSTANTS
  Kinds <- AllKinds
  OneCaller = FALSE
  MaxLinks = 2
  MaxTasks = 1
  MaxGets = 2
INVARIANTS CleanLink ToldOnce OneStream
PROPERTY LossReported
CHECK_DEADLOCK FALSE

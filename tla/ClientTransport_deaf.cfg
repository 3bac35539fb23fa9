SPECIFICATION Spec
CONSTANTS
  Kinds <- AllKinds
  OneCaller = TRUE
  MaxLinks = 2
  MaxTasks = 3
  MaxGets = 2
INVARIANT NeverDeaf
CHECK_DEADLOCK FALSE

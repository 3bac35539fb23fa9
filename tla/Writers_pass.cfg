SPECIFICATION WritersFairSpec
CONSTANTS
  Sizes <- OneTwo
  MaxChoices <- MaxNoneTwoThree
  MaxStream = 7
  Kinds <- BothKinds
  Modes <- BothModes
  CloseOnError = TRUE
  Size <- SixSizes
  MaxBytes = 4
  MaxConns = 3
INVARIANTS OneWriter ErrorReportedOnce StdoutInOrder BytesCoverQueue NoGhostConnection
PROPERTIES ImplementsByteSink AcceptedIsWritten StopReturns
CHECK_DEADLOCK FALSE

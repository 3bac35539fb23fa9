SPECIFICATION WritersSpec
CONSTANTS
  Sizes <- OneTwo
  MaxChoices <- MaxNoneTwoThree
  MaxStream = 7
  Kinds <- StdioOnly
  Modes <- BothModes
  CloseOnError = TRUE
  Size <- SixSizes
  MaxBytes = 4
  MaxConns = 3
PROPERTY DropsOnlyWhenFull
CHECK_DEADLOCK FALSE

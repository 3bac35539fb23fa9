SPECIFICATION Spec
CONSTANTS
  tools = tools
  prompts = prompts
  t1 = t1
  t2 = t2
  Lists <- MCLists
  Askers <- MCThreads
  MaxVersion = 1
  SizeLimit = 8
  PageSizes <- AllSizes
  Numbers <- AllNumbers
  MaxItems = 4
  IdLimit = 4
  Ints <- AllInts
  MaxFrames = 6
  MaxTemplate = 6
INVARIANTS ListsFresh WalkInOrder MessagesOK StreamOK TemplatesOK
PROPERTY PageInRange
CHECK_DEADLOCK FALSE

SPECIFICATION ServerFairSpec
CONSTANTS
  call1 = call1
  call2 = call2
  ping = ping
  io1 = io1
  io2 = io2
  w1 = w1
  w2 = w2
  Outside = Outside
  Idle = Idle
  Requests <- AllRequests
  Deferrable <- TwoCalls
  IoThreads <- TwoIo
  Workers <- TwoWorkers
  s1 = s1
  s2 = s2
  res = res
  NoSession = NoSession
  Clients <- HttpClients
  Uris <- OneUri
  MaxId = 1
INVARIANTS OrderlyShutdown CallbackExact NoUpdateForgotten
PROPERTIES QueuedIsAnswered ShutdownEnds DeliveredIsCalled
CHECK_DEADLOCK FALSE

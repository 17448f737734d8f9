SPECIFICATION FairSpec
CONSTANTS
  Msgs = {1, 2}
  Big = {2}
  KeepAlive = 7
  SocketTimeout = 2
  IdSpace = 3
  LoopGap = 1
  CallbackTime = 1
  AnswerTime = 1
  Faults = {"stall", "hang", "close", "refuse", "disconnect"}
  MaxFaults = 1
  Backlog = 1
  MaxOut = 1
INVARIANTS TypeOK HungIsFound HeardInTime AckedWasHanded
PROPERTIES LiveBrokerKept AllHanded

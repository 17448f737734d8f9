SPECIFICATION FairSpec
CONSTANTS
  Tags = {1, 2}
  IntSize = 2
  Payloads = {0, 2}
  Blank = Blank
  Faults = {"publish", "read", "write", "mqtt", "plc", "broker"}
  MaxFaults = 2
  MaxChanges = 2
  MaxMessages = 2
INVARIANT NothingLost
PROPERTIES OnlyChangesSent ChangesArrive

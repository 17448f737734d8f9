SPECIFICATION FairSpec
CONSTANTS
  ConnectMayFail = TRUE
  MortalLinks = {}
  FallsOff = {TRUE}
PROPERTY KeepsChecking
CHECK_DEADLOCK FALSE

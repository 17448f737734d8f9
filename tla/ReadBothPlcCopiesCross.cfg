SPECIFICATION FairSpec
CONSTANTS
  ConnectMayFail = FALSE
  MortalLinks = {}
  FallsOff = {TRUE}
INVARIANT CopiesCross
CHECK_DEADLOCK FALSE

SPECIFICATION Spec
CONSTANTS
  ConnectMayFail = TRUE
  MortalLinks = {"200", "1200"}
  FallsOff = {TRUE, FALSE}
INVARIANTS LockInv ReadsExclusive
CHECK_DEADLOCK FALSE

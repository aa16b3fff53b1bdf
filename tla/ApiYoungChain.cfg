SPECIFICATION ApiSpec
CONSTANTS
  Protocols <- OnlyHttp
  Chains <- OnlyOther
  Confirmations = 2
  StartHeights <- Young
  MaxHeight = 4
  MaxSwitches = 2
INVARIANTS
  FinalizedIsBehindHead
CHECK_DEADLOCK FALSE

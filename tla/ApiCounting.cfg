SPECIFICATION ApiSpec
CONSTANTS
  Protocols <- OnlyHttp
  Chains <- Celo
  Confirmations = 2
  StartHeights <- Deep
  MaxHeight = 3
  MaxSwitches = 2
INVARIANTS
  RpcCallsAreCounted
CHECK_DEADLOCK FALSE

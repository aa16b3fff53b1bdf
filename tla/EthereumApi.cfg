SPECIFICATION FairSpec
CONSTANTS
  Protocols <- BothProtocols
  Chains <- AllChains
  Confirmations = 2
  StartHeights <- Deep
  MaxHeight = 4
  MaxSwitches = 2
INVARIANTS
  FormatsItsChain
  SwitchIsKept
  FinalizedIsBehindHead
PROPERTIES
  InitEnds
CHECK_DEADLOCK FALSE

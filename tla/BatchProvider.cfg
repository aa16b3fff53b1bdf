SPECIFICATION FairSpec
CONSTANTS
  c1 = c1
  c2 = c2
  c3 = c3
  c4 = c4
  Calls <- MCCalls
  ChainIdCalls <- MCTwoChainIdCalls
  NoChainId = NoChainId
  Undefined = Undefined
  InitialSizes = {1, 2}
  Interval = 3
  GrowthLimit = 2
  Kinds = {"result", "empty", "limit", "malformed"}
  MaxPayloads = 2
INVARIANTS
  TypeOK
  OpenCallsAreQueuedOnce
  TimerGuardsPending
  AnswersAreOwn
  BatchesAreBounded
PROPERTIES
  EverySendIsSettled
  ImplementsRpcCalls
  ChainIdIsKept

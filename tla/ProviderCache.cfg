SPECIFICATION FairSpec
CONSTANTS
  c1 = c1
  c2 = c2
  c3 = c3
  c4 = c4
  Calls = {c1, c2, c3, c4}
  Method <- MCMethod
  CachedMethods <- MCCached
  None = None
INVARIANTS
  WaitingOnOwnRequest
PROPERTIES
  ImplementsRpcCalls
  EverySendIsSettled

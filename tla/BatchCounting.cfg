SPECIFICATION Spec
CONSTANTS
  c1 = c1
  c2 = c2
  c3 = c3
  c4 = c4
  Calls <- MCFourCalls
  ChainIdCalls <- MCChainIdCalls
  NoChainId = NoChainId
  Undefined = Undefined
  InitialSizes = {1, 2}
  Interval = 3
  GrowthLimit = 2
  Kinds = {"result", "limit"}
  MaxPayloads = 2
PROPERTY OneCountPerBatch

\* Code generation refuses the address topics that the types document.
SPECIFICATION Spec
CONSTANTS
  None = None
  Invalid = Invalid
  Params <- MCParams
  Nesting <- MCNesting
  FixedSizes = {"[2]"}
  KeepsInternalType = FALSE
  AbiNames <- MCAbiNames
  AbiFiles <- MCAbiFiles
  Projects <- AddressTopicProjects
  MaxEdits = 2
  Endpoints <- MCEndpoints
  Speaks <- MCSpeaks
  ChainAliases <- MCChainAliases
  Arguments <- MCArguments
  MaxDynamic = 2
INVARIANT
  DocumentedTopicsAreAccepted

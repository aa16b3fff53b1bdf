\* An overload with an array of tuples other than tuple[].
SPECIFICATION Spec
CONSTANTS
  None = None
  Invalid = Invalid
  Params <- MCParams
  Nesting <- MCNesting
  FixedSizes = {"[2]"}
  KeepsInternalType = FALSE
  AbiNames <- MCAbiNames
  AbiFiles <- MCAbiFiles
  Projects <- AllProjects
  MaxEdits = 2
  Endpoints <- MCEndpoints
  Speaks <- MCSpeaks
  ChainAliases <- MCChainAliases
  Arguments <- MCArguments
  MaxDynamic = 2
INVARIANT
  OverloadsAreLookedUp

\* A project from its manifest to the node that indexes it.
SPECIFICATION Spec
CONSTANTS
  None = None
  Invalid = Invalid
  Params <- MCParams
  Nesting <- MCNesting
  FixedSizes = {"[2]"}
  KeepsInternalType = FALSE
  AbiNames <- MCAbiNames
  AbiFiles <- MCAbiFiles
  Projects <- AllProjects
  MaxEdits = 2
  Endpoints <- MCEndpoints
  Speaks <- MCSpeaks
  ChainAliases <- MCChainAliases
  Arguments <- MCArguments
  MaxDynamic = 2
INVARIANTS
  GeneratedFilesAgree
  OverloadsAreApart
  AcceptedFiltersFit
  LoadedIsIndexable
  DictionariesServeTheChain

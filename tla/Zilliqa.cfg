\* A bech32 address is accepted and compared with hexadecimal ones.
SPECIFICATION Spec
CONSTANTS
  None = None
  Invalid = Invalid
  Params <- MCParams
  Nesting <- MCNesting
  FixedSizes = {"[2]"}
  KeepsInternalType = FALSE
  AbiNames <- MCAbiNames
  AbiFiles <- MCAbiFiles
  Projects <- ZilliqaProjects
  MaxEdits = 2
  Endpoints <- MCEndpoints
  Speaks <- MCSpeaks
  ChainAliases <- MCChainAliases
  Arguments <- MCArguments
  MaxDynamic = 2
INVARIANT
  AddressFindsItsContract

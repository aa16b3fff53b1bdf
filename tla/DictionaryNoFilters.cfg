SPECIFICATION Spec
CONSTANTS
  Undefined = Undefined
  Null = Null
  NotNull = NotNull
  NoInput = NoInput
  a1 = a1
  a2 = a2
  t1 = t1
  t2 = t2
  f1 = f1
  DataSources <- MCDataSources
  MaxDataSources = 2
  QueryAddressLimit = 1
  AvailableFilters <- AllFields
  Transactions <- MCTransactions
  Logs <- MCLogs
  Blocks <- MCBlocks
INVARIANTS
  NoFiltersNoDictionary
CHECK_DEADLOCK FALSE

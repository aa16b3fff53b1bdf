SPECIFICATION Spec
CONSTANTS
  Fetchers = {f1, f2}
  Heights = {1, 2}
  MaxVersion = 1
  Projects <- SomeProjects
  SkipTransactions = TRUE
  Nodes <- AllNodes
INVARIANTS
  FullBlocksOwnTheirLogs
  LogsAreComplete
  LightBlocksSuffice

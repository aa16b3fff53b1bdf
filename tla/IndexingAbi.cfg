SPECIFICATION RunSpec
CONSTANTS
  Undefined = Undefined
  Null = Null
  NotNull = NotNull
  NoInput = NoInput
  NoArgs = NoArgs
  a1 = a1
  a2 = a2
  t1 = t1
  Blocks <- MCBlocks
  ProjectSources <- MCProjectSources
  TemplateSources <- MCTemplateSources
  MaxSources = 3
  Decodes <- MCDecodes
  Endpoints = {e1, e2}
  Calls = {c1}
  Heights = {2, 3}
  MaxRetries = 3
INVARIANTS
  DecodedWithOwnAbi

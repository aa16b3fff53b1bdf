SPECIFICATION Spec
CONSTANTS
  MaxHeight = 4
  MaxReorgs = 1
  PoiSettings = {FALSE}
  BlockForkReindex = 1
INVARIANTS
  RewindRemovesForkedData

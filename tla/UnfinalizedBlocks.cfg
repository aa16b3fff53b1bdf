SPECIFICATION FairSpec
CONSTANTS
  MaxHeight = 5
  MaxReorgs = 2
  PoiSettings = {TRUE, FALSE}
  BlockForkReindex = 5
INVARIANTS
  CachedHeadersLink
  IndexedIsOneBranch
  RewindRemovesForkedData
  RewindKeepsCorrectData
PROPERTIES
  IndexFollowsChain
  OrphansAreRemoved

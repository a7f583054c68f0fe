SPECIFICATION FairSpec
CONSTANTS
  i1 = i1  i2 = i2  v1 = v1  v2 = v2
  Indices = {i1, i2}
  Values = {v1, v2}
  Empty = Empty
  NoIndex = NoIndex
  StartBlock = 1
  Mode = "poll"
  MaxBlocksDistance = 2
  TwoTo64 = 256
  MaxHeight = 4
  MaxLogs = 3
  MaxStops = 2
INVARIANTS
  StoreMatchesProgress
  LeafIndexAgrees
PROPERTIES
  ProgressNeverRegresses
  MirrorFairSpec
  EveryLogIsCommitted
CHECK_DEADLOCK FALSE

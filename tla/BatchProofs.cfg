SPECIFICATION Spec
CONSTANTS
  v1 = v1  v2 = v2
  Depth = 2
  Width <- MCWidth
  Values = {v1}
  Empty = Empty
  NotFound = NotFound
  Hash <- MCHash
  EmptyBranch <- MCEmptyBranch
  TreeOf <- MCTreeOf
  Requests = {}
  MaxBatch = 1
  MaxOperations = 2
INVARIANTS
  TypeOK
  QuietBatchProofsChain
  
CONSTRAINT OverlapBound

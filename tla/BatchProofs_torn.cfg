SPECIFICATION Spec
CONSTANTS
  v1 = v1  v2 = v2
  Depth = 1
  Width <- MCWidth
  Values = {v1, v2}
  Empty = Empty
  NotFound = NotFound
  Hash <- MCHash
  EmptyBranch <- MCEmptyBranch
  TreeOf <- MCTreeOf
  Requests = {}
  MaxBatch = 1
  MaxOperations = 1
SYMMETRY Symmetry
INVARIANTS
  BatchProofsChain

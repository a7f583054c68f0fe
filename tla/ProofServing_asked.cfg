SPECIFICATION Spec
CONSTANTS
  v1 = v1  v2 = v2  r1 = r1
  Depth = 1
  Width <- MCWidth
  Values = {v1, v2}
  Empty = Empty
  NotFound = NotFound
  Hash <- MCHash
  EmptyBranch <- MCEmptyBranch
  TreeOf <- MCTreeOf
  Requests = {r1}
  MaxBatch = 1
INVARIANTS
  ProofIsOfAskedLeaf

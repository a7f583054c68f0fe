SPECIFICATION FairSpec
CONSTANTS
  v1 = v1  v2 = v2  r1 = r1
  Depth = 2
  Width <- MCWidth
  Values = {v1}
  Empty = Empty
  NotFound = NotFound
  Hash <- MCHash
  EmptyBranch <- MCEmptyBranch
  TreeOf <- MCTreeOf
  Requests = {r1}
  MaxBatch = 2
INVARIANTS
  TypeOK
  ProofVerifies
  StoreIsMerkleTree
  StoreIsContract
  LeafIndexAgrees
  UndisturbedProofIsOfAskedLeaf
PROPERTIES
  ImplementsAtomicTree
  CommitsAsIndexed
  KeepsToRegistryLock
  EveryoneGetsTheLock

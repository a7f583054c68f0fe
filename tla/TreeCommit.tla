----------------------------- MODULE TreeCommit -----------------------------
(***************************************************************************)
(* One registry's sparse Merkle tree, and the job that commits operations  *)
(* to it: HandleEVMLog fills the operations buffer, CommitOperations turns *)
(* it into a database batch (InsertLeaves recomputes the branches that the *)
(* leaves touch, level by level), and writeBatchWithLock writes the batch  *)
(* under the registry's lock.                                              *)
(*                                                                         *)
(* A node is a pair <<level, index>>; level 0 holds the leaves.  The       *)
(* database holds only nodes that were once written: any other node stands *)
(* for an empty branch.                                                    *)
(***************************************************************************)
EXTENDS Integers, Sequences, FiniteSetsExt

CONSTANTS
  Depth,        \* the registry's tree depth
  Width,        \* Width[level]: the number of nodes of a level
  Values,       \* leaf values (certificate hashes)
  Empty,        \* the registry's EmptyValue
  NotFound,     \* ErrNotFound: no leaf index is stored under a value
  Hash(_, _),   \* Poseidon (external)
  EmptyBranch,  \* EmptyBranch[level]: the root of an empty branch
  TreeOf(_),    \* TreeOf(f)[n]: the node n of the Merkle tree with the leaves f
  Requests,     \* the query handlers that read the tree
  MaxBatch      \* bound: operations in one commit

ASSUME DepthAssumption == Depth \in Nat \ {0}

(* Width[level] is 2^(Depth - level). *)
ASSUME WidthAssumption ==
  /\ Width \in [0..Depth -> Nat \ {0}]
  /\ Width[Depth] = 1
  /\ \A l \in 0..(Depth - 1) : Width[l] = 2 * Width[l + 1]

(* calculateEmptyBranchHashes. *)
ASSUME EmptyBranchAssumption ==
  /\ EmptyBranch[0] = Empty
  /\ \A l \in 0..(Depth - 1) : EmptyBranch[l + 1] = Hash(EmptyBranch[l], EmptyBranch[l])

(* The indices of the nodes of a level. *)
Level(l) == 0..(Width[l] - 1)

Indices == Level(0)

(* A certificate hash is never the empty value, and an error is no index. *)
ASSUME SentinelAssumption == Empty \notin Values /\ NotFound \notin Indices

(* The Merkle tree of a function from indices to leaves. *)
ASSUME TreeOfAssumption ==
  \A f \in [Indices -> Values \union {Empty}] :
    /\ \A i \in Indices : TreeOf(f)[<<0, i>>] = f[i]
    /\ \A l \in 0..(Depth - 1) : \A p \in Level(l + 1) :
         TreeOf(f)[<<l + 1, p>>] = Hash(TreeOf(f)[<<l, 2 * p>>], TreeOf(f)[<<l, 2 * p + 1>>])

RootOf(f) == TreeOf(f)[<<Depth, 0>>]

Nodes == UNION {{l} \X Level(l) : l \in 0..Depth}

VARIABLES
  store,           \* database: node -> hash, for the nodes it holds
  leafIndex,       \* database: value -> leaf index, or NotFound
  contract,        \* the contract's leaves after the logs handled so far
  operations,      \* the operations buffer
  pc,              \* where the committing job is
  batch,           \* the database batch: node -> hash, for the nodes it sets
  level,           \* InsertLeaves: the level whose parents are computed
  leaves,          \* InsertLeaves: the indices it ranges over
  next,            \* InsertLeaves: nextLevelLeaves
  position,        \* InsertLeaves: the position in leaves
  updatedIndexes,  \* InsertLeaves: its local of this name
  writer,          \* the registry's mutex: "none", "waiting" or "locked"
  readers,         \* the requests that hold it for reading
  waiting          \* the requests that wait for it behind the writer

insertVars == <<batch, level, leaves, next, position, updatedIndexes>>
lockVars   == <<writer, readers, waiting>>
dbVars     == <<store, leafIndex>>
treeVars   == <<dbVars, contract, operations, pc, insertVars, lockVars>>

Operations == {"Addition", "Revocation"}

-----------------------------------------------------------------------------
(***************************************************************************)
(* Reading nodes.                                                          *)
(***************************************************************************)
getLeafFromStorage(n) == IF n \in DOMAIN store THEN store[n] ELSE EmptyBranch[n[1]]

getLeafFromBatchOrStorage(n) == IF n \in DOMAIN batch THEN batch[n] ELSE getLeafFromStorage(n)

(* The writes of a batch over what was written before. *)
Set(writes, old) ==
  [n \in DOMAIN writes \union DOMAIN old |-> IF n \in DOMAIN writes THEN writes[n] ELSE old[n]]

Parent(i) == i \div 2

Sibling(i) == IF i % 2 = 0 THEN i + 1 ELSE i - 1

(* The hash of the parent of the node at an index of a level. *)
calculateHashForNode(l, i) ==
  LET left == 2 * Parent(i)
  IN Hash(getLeafFromBatchOrStorage(<<l, left>>), getLeafFromBatchOrStorage(<<l, left + 1>>))

-----------------------------------------------------------------------------
(***************************************************************************)
(* The registry's mutex, a sync.RWMutex (external).  A writer that waits   *)
(* keeps new readers out, and lets all those that wait in when it unlocks. *)
(***************************************************************************)
Lock ==
  /\ writer' = "waiting"
  /\ UNCHANGED <<readers, waiting>>

(* Mutant of LockAcquired: the writer does not wait for the readers. *)
LockAcquiredAmongReaders ==
  /\ writer' = "locked"
  /\ UNCHANGED <<readers, waiting>>

LockAcquired ==
  /\ readers = {}
  /\ writer' = "locked"
  /\ UNCHANGED <<readers, waiting>>

Unlock ==
  /\ writer' = "none"
  /\ readers' = readers \union waiting
  /\ waiting' = {}

RLock(r) ==
  /\ IF writer = "none"
     THEN readers' = readers \union {r} /\ UNCHANGED waiting
     ELSE waiting' = waiting \union {r} /\ UNCHANGED readers
  /\ UNCHANGED writer

RUnlock(r) ==
  /\ readers' = readers \ {r}
  /\ UNCHANGED <<writer, waiting>>

-----------------------------------------------------------------------------
(***************************************************************************)
(* The committing job.                                                     *)
(***************************************************************************)

(* A log that the contract emitted is appended to the operations buffer:   *)
(* the contract adds a certificate that it does not hold at an empty leaf, *)
(* or revokes one from its leaf.                                           *)
HandleEVMLog(op, i, v) ==
  /\ pc = "handle"
  /\ Len(operations) < MaxBatch
  /\ IF op = "Addition"
     THEN contract[i] = Empty /\ \A j \in Indices : contract[j] # v
     ELSE contract[i] = v
  /\ contract' = [contract EXCEPT ![i] = IF op = "Addition" THEN v ELSE Empty]
  /\ operations' = Append(operations, [op |-> op, index |-> i, value |-> v])
  /\ UNCHANGED <<dbVars, pc, insertVars, lockVars>>

OnLeaf(i) == {k \in DOMAIN operations : operations[k].index = i}

OnValue(v) == {k \in DOMAIN operations : operations[k].value = v}

(* Mutant of LeafWrite: a revocation writes the value. *)
LeafWriteKeepsRevoked(e) == e.value

(* Mutant of LeafIndexWrite: a revocation leaves the index. *)
LeafIndexWriteKeepsRevoked(e) == e.index

(* What an operation writes to its leaf and under its value. *)
LeafWrite(e) == IF e.op = "Addition" THEN e.value ELSE Empty

LeafIndexWrite(e) == IF e.op = "Addition" THEN e.index ELSE NotFound

(* Mutant of CommitOperations: a leaf that is in the batch is not set again. *)
CommitOperationsOnce ==
  /\ pc = "handle"
  /\ operations # <<>>
  /\ batch' = [n \in {<<0, i>> : i \in {j \in Indices : OnLeaf(j) # {}}} |->
                 LeafWrite(operations[Min(OnLeaf(n[2]))])]
  /\ leaves' = [k \in DOMAIN operations |-> operations[k].index]
  /\ level' = 0 /\ next' = <<>> /\ position' = 1 /\ updatedIndexes' = {}
  /\ pc' = "insert"
  /\ UNCHANGED <<dbVars, contract, operations, lockVars>>

(* CommitOperations up to the loop of InsertLeaves: the leaves are in the  *)
(* batch, each with the value of the last operation on it.                 *)
CommitOperations ==
  /\ pc = "handle"
  /\ operations # <<>>
  /\ batch' = [n \in {<<0, i>> : i \in {j \in Indices : OnLeaf(j) # {}}} |->
                 LeafWrite(operations[Max(OnLeaf(n[2]))])]
  /\ leaves' = [k \in DOMAIN operations |-> operations[k].index]
  /\ level' = 0 /\ next' = <<>> /\ position' = 1 /\ updatedIndexes' = {}
  /\ pc' = "insert"
  /\ UNCHANGED <<dbVars, contract, operations, lockVars>>

(* One turn of the inner loop.  From level 1 on nextLevelLeaves is a slice *)
(* of the array that the loop ranges over, so that appending to it         *)
(* overwrites that array from its start.                                   *)
InsertNode ==
  /\ pc = "insert"
  /\ level < Depth
  /\ position <= Len(leaves)
  /\ LET i == leaves[position]
         p == Parent(i)
     IN IF p \in updatedIndexes
        THEN UNCHANGED <<batch, next, leaves, updatedIndexes>>
        ELSE /\ batch' = Set([n \in {<<level + 1, p>>} |-> calculateHashForNode(level, i)], batch)
             /\ next' = Append(next, p)
             /\ leaves' = IF level = 0 THEN leaves ELSE [leaves EXCEPT ![Len(next) + 1] = p]
             /\ updatedIndexes' = updatedIndexes \union {p}
  /\ position' = position + 1
  /\ UNCHANGED <<dbVars, contract, operations, pc, level, lockVars>>

(* Mutant of NextLevel: updatedIndexes is not reset. *)
NextLevelKeepsUpdated ==
  /\ pc = "insert"
  /\ level < Depth
  /\ position > Len(leaves)
  /\ level' = level + 1
  /\ leaves' = next
  /\ next' = <<>> /\ position' = 1
  /\ UNCHANGED <<dbVars, contract, operations, pc, batch, updatedIndexes, lockVars>>

NextLevel ==
  /\ pc = "insert"
  /\ level < Depth
  /\ position > Len(leaves)
  /\ level' = level + 1
  /\ leaves' = next
  /\ next' = <<>> /\ position' = 1 /\ updatedIndexes' = {}
  /\ UNCHANGED <<dbVars, contract, operations, pc, batch, lockVars>>

LockTree ==
  /\ pc = "insert"
  /\ level = Depth
  /\ Lock
  /\ pc' = "lock"
  /\ UNCHANGED <<dbVars, contract, operations, insertVars>>

(* Commit without operations writes the job's progress only, and takes the *)
(* lock for it.                                                            *)
LockForProgress ==
  /\ pc = "handle"
  /\ operations = <<>>
  /\ Lock
  /\ pc' = "lock"
  /\ UNCHANGED <<dbVars, contract, operations, insertVars>>

TreeLocked ==
  /\ pc = "lock"
  /\ LockAcquired
  /\ pc' = "write"
  /\ UNCHANGED <<dbVars, contract, operations, insertVars>>

(* The database applies a batch as a whole (external). *)
WriteSync ==
  /\ pc = "write"
  /\ store' = Set(batch, store)
  /\ leafIndex' = [v \in Values |->
                     IF OnValue(v) = {} THEN leafIndex[v]
                     ELSE LeafIndexWrite(operations[Max(OnValue(v))])]
  /\ pc' = "unlock"
  /\ UNCHANGED <<contract, operations, insertVars, lockVars>>

(* The buffer and the batch go with the context of handleLogs. *)
UnlockTree ==
  /\ pc = "unlock"
  /\ Unlock
  /\ operations' = <<>> /\ batch' = [n \in {} |-> Empty]
  /\ level' = 0 /\ leaves' = <<>> /\ next' = <<>> /\ position' = 1 /\ updatedIndexes' = {}
  /\ pc' = "handle"
  /\ UNCHANGED <<dbVars, contract>>

TreeInit ==
  /\ store = [n \in {} |-> Empty]
  /\ leafIndex = [v \in Values |-> NotFound]
  /\ contract = [i \in Indices |-> Empty]
  /\ operations = <<>>
  /\ pc = "handle"
  /\ batch = [n \in {} |-> Empty]
  /\ level = 0 /\ leaves = <<>> /\ next = <<>> /\ position = 1 /\ updatedIndexes = {}
  /\ writer = "none" /\ readers = {} /\ waiting = {}

CommitStep ==
  \/ CommitOperations
  \/ InsertNode
  \/ NextLevel
  \/ LockTree
  \/ TreeLocked
  \/ WriteSync
  \/ UnlockTree

TreeNext ==
  \/ CommitStep
  \/ LockForProgress
  \/ \E op \in Operations, i \in Indices, v \in Values : HandleEVMLog(op, i, v)

TreeSpec == TreeInit /\ [][TreeNext]_treeVars

-----------------------------------------------------------------------------
(***************************************************************************)
(* Properties.                                                             *)
(***************************************************************************)

(* The variables have their types; what a hash is, is left open. *)
TreeTypeOK ==
  /\ DOMAIN store \subseteq Nodes /\ DOMAIN batch \subseteq Nodes
  /\ leafIndex \in [Values -> Indices \union {NotFound}]
  /\ contract \in [Indices -> Values \union {Empty}]
  /\ operations \in Seq([op : Operations, index : Indices, value : Values])
  /\ pc \in {"handle", "insert", "lock", "write", "unlock"}
  /\ level \in 0..Depth
  /\ leaves \in Seq(Nat) /\ next \in Seq(Nat)
  /\ position \in Nat /\ updatedIndexes \subseteq Nat
  /\ writer \in {"none", "waiting", "locked"}
  /\ readers \in SUBSET Requests /\ waiting \in SUBSET Requests

(* The database always holds a Merkle tree: every inner node is the hash   *)
(* of its children, although InsertLeaves recomputes only branches that    *)
(* the batch touches, each once, in a slice that it overwrites as it goes. *)
StoreIsMerkleTree ==
  \A l \in 0..(Depth - 1) : \A p \in Level(l + 1) :
    getLeafFromStorage(<<l + 1, p>>) =
      Hash(getLeafFromStorage(<<l, 2 * p>>), getLeafFromStorage(<<l, 2 * p + 1>>))

(* Between commits the leaves of the database are those of the contract,   *)
(* also when a batch adds and revokes at the same leaf.                    *)
StoreIsContract ==
  pc = "handle" /\ operations = <<>> =>
    \A i \in Indices : getLeafFromStorage(<<0, i>>) = contract[i]

(* GetLeafIndex finds a value exactly at the leaf that holds it, also for  *)
(* a value that one batch revokes and adds again elsewhere.                *)
LeafIndexAgrees ==
  \A i \in Indices, v \in Values : leafIndex[v] = i <=> getLeafFromStorage(<<0, i>>) = v
=============================================================================

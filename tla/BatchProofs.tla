----------------------------- MODULE BatchProofs ----------------------------
(***************************************************************************)
(* The query handler GetBatchProofs: SimulateBatchOperations applies a     *)
(* list of operations to a private copy of the tree, node by node, and     *)
(* answers one proof per operation.  It reads the database without the     *)
(* registry's lock, while the indexing job commits to it.                  *)
(*                                                                         *)
(* The receiver starts from the initial root.  It checks each proof with   *)
(* the leaf as it was, against the root it holds, and takes the root that  *)
(* the same path gives with the new leaf.                                  *)
(***************************************************************************)
EXTENDS TreeCommit

CONSTANT MaxOperations    \* bound: operations in one request

VARIABLES
  at,          \* where the handler is
  todo,        \* the operations that are left
  simulation,  \* SimulationBatch.buffer: node -> hash
  index,       \* leafIndex of the operation at hand
  leaf,        \* proof.Leaf of the operation at hand
  simLevel, pathIndex,    \* loop variables over the levels
  before,      \* the root that leaf and path give
  after,       \* the root that the new leaf and the path give
  root,        \* the root that the receiver holds
  valid,       \* history variable: all proofs so far pass the receiver's check
  applied,     \* history variable: the leaves when the request began, with the
               \* operations that are done applied to them
  overlapped   \* history variable: a commit was written since the request began

opVars  == <<index, leaf, simLevel, pathIndex, before, after>>
simVars == <<at, todo, simulation, opVars, root, valid, applied>>
vars    == <<treeVars, simVars, overlapped>>

BatchOperations == [op : Operations, value : Values]

(* Mutant of SimulatedLeaf: the buffer is not consulted. *)
SimulatedLeafStored(n) == getLeafFromStorage(n)

(* SimulationBatch.GetLeaf, and the empty branch where it finds nothing. *)
SimulatedLeaf(n) == IF n \in DOMAIN simulation THEN simulation[n] ELSE getLeafFromStorage(n)

Expected(o) == IF o.op = "Addition" THEN Empty ELSE o.value

NewLeaf(o) == IF o.op = "Addition" THEN o.value ELSE Empty

HashAt(i, node, element) == IF i % 2 = 0 THEN Hash(node, element) ELSE Hash(element, node)

-----------------------------------------------------------------------------
Begin ==
  /\ at = "idle"
  /\ \E n \in 1..MaxOperations : todo' \in [1..n -> BatchOperations]
  /\ root' = getLeafFromStorage(<<Depth, 0>>)
  /\ simulation' = [n \in {} |-> Empty]
  /\ valid' = TRUE /\ overlapped' = FALSE
  /\ applied' = [i \in Indices |-> getLeafFromStorage(<<0, i>>)]
  /\ index' = 0
  /\ at' = "find"
  /\ UNCHANGED <<treeVars, leaf, simLevel, pathIndex, before, after>>

Simulates == UNCHANGED <<treeVars, overlapped>>

Idle ==
  /\ at' = "idle" /\ todo' = <<>> /\ simulation' = [n \in {} |-> Empty]
  /\ index' = 0 /\ leaf' = Empty /\ simLevel' = 0 /\ pathIndex' = 0
  /\ before' = Empty /\ after' = Empty /\ root' = Empty
  /\ valid' = TRUE /\ overlapped' = FALSE /\ applied' = [i \in Indices |-> Empty]
  /\ UNCHANGED treeVars

(* Mutant of findEmptyLeafIndexInSimulation: the leaf is not read. *)
findAnyLeafIndex ==
  /\ at = "find" /\ Head(todo).op = "Addition"
  /\ index' \in Indices
  /\ at' = "leaf"
  /\ UNCHANGED <<todo, simulation, leaf, simLevel, pathIndex, before, after, root, valid, applied>>
  /\ Simulates

(* A random index whose leaf is empty: one that was never written or one   *)
(* that was revoked.                                                       *)
findEmptyLeafIndexInSimulation ==
  /\ at = "find" /\ Head(todo).op = "Addition"
  /\ index' \in {i \in Indices : SimulatedLeaf(<<0, i>>) = Empty}
  /\ at' = "leaf"
  /\ UNCHANGED <<todo, simulation, leaf, simLevel, pathIndex, before, after, root, valid, applied>>
  /\ Simulates

(* One turn of the scan over all leaves for the value to revoke. *)
findLeafByValueInSimulation ==
  /\ at = "find" /\ Head(todo).op = "Revocation"
  /\ SimulatedLeaf(<<0, index>>) = Head(todo).value \/ index + 1 \in Indices
  /\ IF SimulatedLeaf(<<0, index>>) = Head(todo).value
     THEN at' = "leaf" /\ UNCHANGED index
     ELSE index' = index + 1 /\ UNCHANGED at
  /\ UNCHANGED <<todo, simulation, leaf, simLevel, pathIndex, before, after, root, valid, applied>>
  /\ Simulates

(* Ten random tries have met leaves that are taken. *)
EmptyLeafNotFound ==
  /\ at = "find" /\ Head(todo).op = "Addition"
  /\ \E i \in Indices : SimulatedLeaf(<<0, i>>) # Empty
  /\ Idle

(* The scan has come to its end without the value. *)
Unfound ==
  /\ at = "find" /\ Head(todo).op = "Revocation"
  /\ SimulatedLeaf(<<0, index>>) # Head(todo).value
  /\ index + 1 \notin Indices

LeafNotFound == Unfound /\ Idle

(* The caller has gone: the loops over tries, leaves and levels see it. *)
Cancel ==
  /\ at = "find" \/ (at = "path" /\ simLevel < Depth)
  /\ Idle

(* createProofWithBatch. *)
ReadLeaf ==
  /\ at = "leaf"
  /\ leaf' = SimulatedLeaf(<<0, index>>)
  /\ before' = leaf' /\ after' = NewLeaf(Head(todo))
  /\ simLevel' = 0 /\ pathIndex' = index
  /\ at' = "path"
  /\ UNCHANGED <<todo, simulation, index, root, valid, applied>>
  /\ Simulates

(* Mutant of ReadPathElement: pathIndex is not halved. *)
ReadPathElementSameIndex ==
  /\ at = "path" /\ simLevel < Depth
  /\ simLevel' = simLevel + 1
  /\ UNCHANGED <<at, todo, simulation, index, leaf, pathIndex, before, after, root, valid, applied>>
  /\ Simulates

ReadPathElement ==
  /\ at = "path" /\ simLevel < Depth
  /\ LET element == SimulatedLeaf(<<simLevel, Sibling(pathIndex)>>)
     IN /\ before' = HashAt(pathIndex, before, element)
        /\ after' = HashAt(pathIndex, after, element)
  /\ simLevel' = simLevel + 1 /\ pathIndex' = Parent(pathIndex)
  /\ UNCHANGED <<at, todo, simulation, index, leaf, root, valid, applied>>
  /\ Simulates

(* The leaf in the proof must be empty, or the value to revoke; it is then *)
(* replaced in the simulation.                                             *)
ApplyOperation ==
  /\ at = "path" /\ simLevel = Depth
  /\ leaf = Expected(Head(todo))
  /\ simulation' = Set([n \in {<<0, index>>} |-> NewLeaf(Head(todo))], simulation)
  /\ simLevel' = 0 /\ pathIndex' = index
  /\ at' = "insert"
  /\ UNCHANGED <<todo, index, leaf, before, after, root, valid, applied>>
  /\ Simulates

RejectLeaf ==
  /\ at = "path" /\ simLevel = Depth
  /\ leaf # Expected(Head(todo))
  /\ Idle

(* InsertLeaf: one level.  The sibling is read again. *)
InsertLevel ==
  /\ at = "insert" /\ simLevel < Depth
  /\ LET h == HashAt(pathIndex, SimulatedLeaf(<<simLevel, pathIndex>>),
                                SimulatedLeaf(<<simLevel, Sibling(pathIndex)>>))
     IN simulation' = Set([n \in {<<simLevel + 1, Parent(pathIndex)>>} |-> h], simulation)
  /\ simLevel' = simLevel + 1 /\ pathIndex' = Parent(pathIndex)
  /\ UNCHANGED <<at, todo, index, leaf, before, after, root, valid, applied>>
  /\ Simulates

(* The proof is appended to the answer, for the receiver to check. *)
AppendProof ==
  /\ at = "insert" /\ simLevel = Depth
  /\ valid' = (valid /\ before = root)
  /\ root' = after
  /\ todo' = Tail(todo)
  /\ at' = IF Len(todo) = 1 THEN "answered" ELSE "find"
  /\ index' = 0 /\ leaf' = Empty /\ simLevel' = 0 /\ pathIndex' = 0
  /\ before' = Empty /\ after' = Empty
  /\ applied' = [applied EXCEPT ![index] = NewLeaf(Head(todo))]
  /\ UNCHANGED simulation
  /\ Simulates

Respond ==
  /\ at = "answered"
  /\ Idle

-----------------------------------------------------------------------------
Init ==
  /\ TreeInit
  /\ at = "idle" /\ todo = <<>> /\ simulation = [n \in {} |-> Empty]
  /\ index = 0 /\ leaf = Empty /\ simLevel = 0 /\ pathIndex = 0
  /\ before = Empty /\ after = Empty /\ root = Empty
  /\ valid = TRUE /\ overlapped = FALSE /\ applied = [i \in Indices |-> Empty]

HandlerStep ==
  \/ findEmptyLeafIndexInSimulation
  \/ findLeafByValueInSimulation
  \/ EmptyLeafNotFound
  \/ LeafNotFound
  \/ Cancel
  \/ ReadLeaf
  \/ ReadPathElement
  \/ ApplyOperation
  \/ RejectLeaf
  \/ InsertLevel
  \/ AppendProof
  \/ Respond

CommitWhileServing ==
  /\ TreeNext
  /\ overlapped' = (at # "idle" /\ (overlapped \/ store' # store))
  /\ UNCHANGED simVars

Next == Begin \/ HandlerStep \/ CommitWhileServing

Spec == Init /\ [][Next]_vars

-----------------------------------------------------------------------------
(***************************************************************************)
(* Properties.                                                             *)
(***************************************************************************)

(* The variables have their types. *)
TypeOK ==
  /\ TreeTypeOK
  /\ at \in {"idle", "find", "leaf", "path", "insert", "answered"}
  /\ todo \in Seq(BatchOperations)
  /\ DOMAIN simulation \subseteq Nodes
  /\ index \in Indices
  /\ simLevel \in 0..Depth /\ pathIndex \in Level(simLevel)
  /\ valid \in BOOLEAN /\ overlapped \in BOOLEAN
  /\ applied \in [Indices -> Values \union {Empty}]

(* "Each proof is valid against the tree state after all previous          *)
(* operations in the batch have been applied" (sparse_tree.go:468): the    *)
(* receiver's check of each proof succeeds.                                *)
BatchProofsChain == at = "answered" => valid

(* They do when no commit is written while the batch is simulated, and     *)
(* the root that the receiver ends with is the one of the tree that the    *)
(* operations of the batch make of the leaves there were at its beginning. *)
QuietBatchProofsChain == ~overlapped /\ at = "answered" => valid /\ root = RootOf(applied)

(* Without a commit in between, every operation is given the leaf that it  *)
(* expects: an addition never one that is taken, also not by an earlier    *)
(* operation of the request, and a revocation one that holds its value.    *)
(* The check behind the proof so refuses nothing, and the scan refuses a   *)
(* revocation only when no leaf holds its value, the earlier operations of *)
(* the request applied.                                                    *)
QuietBatchFindsItsLeaves ==
  ~overlapped =>
    /\ at = "path" => leaf = Expected(Head(todo))
    /\ Unfound => \A i \in Indices : applied[i] # Head(todo).value
=============================================================================

------------------------- MODULE BatchProofsProofs --------------------------
(***************************************************************************)
(* Proofs about GetBatchProofs: when no commit is written while a batch is *)
(* simulated, its proofs chain and every operation is given a leaf as it   *)
(* expects it, for every depth, every hash function and every list of      *)
(* operations.                                                             *)
(***************************************************************************)
EXTENDS BatchProofs, TreeCommitProofs

(* The parent p at level l + 1 is the hash of its children, read through   *)
(* the simulation.                                                         *)
ParentSimulated(l, p) ==
  SimulatedLeaf(<<l + 1, p>>) = Hash(SimulatedLeaf(<<l, 2 * p>>), SimulatedLeaf(<<l, 2 * p + 1>>))

(* The one parent that InsertLeaf has still to bring up to date. *)
Stale(l, p) == at = "insert" /\ l = simLevel /\ p = Parent(pathIndex)

SimulatedTree ==
  \A l \in 0..(Depth - 1) : \A p \in Level(l + 1) : Stale(l, p) \/ ParentSimulated(l, p)

(* The indices that a leaf is reached by from above, and the hashes on the *)
(* way up from the new leaf, to a level.                                   *)
Climb(path, hash, top) ==
  /\ path[0] = index /\ hash[0] = NewLeaf(Head(todo))
  /\ \A l \in 0..top : path[l] \in Level(l)
  /\ \A l \in 0..(top - 1) :
       /\ path[l + 1] = Parent(path[l])
       /\ hash[l + 1] = HashAt(path[l], hash[l], SimulatedLeaf(<<l, Sibling(path[l])>>))

(* The way that createProofWithBatch has gone up to its level, and the one *)
(* that InsertLeaf follows: it has reached the same hash, and will reach   *)
(* the root that the receiver computes.                                    *)
ReadInv ==
  \E path, hash :
    /\ Climb(path, hash, simLevel)
    /\ path[simLevel] = pathIndex /\ hash[simLevel] = after

WrittenInv ==
  \E path, hash :
    /\ Climb(path, hash, Depth)
    /\ path[simLevel] = pathIndex
    /\ hash[simLevel] = SimulatedLeaf(<<simLevel, pathIndex>>)
    /\ hash[Depth] = after

(* The leaves of the simulation, that of the operation at hand included    *)
(* once it is set.                                                         *)
AppliedInv ==
  \A i \in Indices :
    SimulatedLeaf(<<0, i>>) =
      IF at = "insert" /\ i = index THEN NewLeaf(Head(todo)) ELSE applied[i]

(* The scan for a value has passed only leaves that do not hold it. *)
ScanInv ==
  Head(todo).op = "Revocation" =>
    \A i \in Indices : i < index => applied[i] # Head(todo).value

(* A request that no commit has overlapped: between two operations the     *)
(* simulation is a Merkle tree with the root that the receiver holds.      *)
QuietInv ==
  /\ valid = TRUE
  /\ SimulatedTree /\ AppliedInv
  /\ at # "insert" => root = SimulatedLeaf(<<Depth, 0>>)
  /\ at = "find" => ScanInv
  /\ at = "leaf" => SimulatedLeaf(<<0, index>>) = Expected(Head(todo))
  /\ at = "path" =>
       /\ leaf = Expected(Head(todo))
       /\ before = SimulatedLeaf(<<simLevel, pathIndex>>)
       /\ ReadInv
  /\ at = "insert" => before = root /\ WrittenInv

BatchInv ==
  /\ Inv /\ ContractInv /\ LeavesInv
  /\ TypeOK
  /\ at \in {"find", "leaf", "path", "insert"} => todo # <<>>
  /\ at # "idle" /\ overlapped = FALSE => QuietInv

-----------------------------------------------------------------------------
(* What a write to the simulation changes. *)
LEMMA ReadSimulated ==
  ASSUME NEW N, NEW h, NEW W, DOMAIN W = {N}, W[N] = h,
         simulation' = Set(W, simulation), store' = store
  PROVE  /\ DOMAIN simulation' = DOMAIN simulation \union {N}
         /\ \A n : SimulatedLeaf(n)' = IF n = N THEN h ELSE SimulatedLeaf(n)
<1>1. DOMAIN simulation' = DOMAIN simulation \union {N}
  BY DEF Set
<1>2. \A n \in DOMAIN simulation' : simulation'[n] = IF n = N THEN h ELSE simulation[n]
  BY DEF Set
<1> QED
  BY <1>1, <1>2 DEF SimulatedLeaf, getLeafFromStorage

(* The hash of a node and its sibling is that of the two children of their *)
(* parent, and no node is its own sibling.                                 *)
LEMMA HashOfSiblings ==
  ASSUME NEW l, NEW i \in Nat
  PROVE  /\ HashAt(i, SimulatedLeaf(<<l, i>>), SimulatedLeaf(<<l, Sibling(i)>>)) =
              Hash(SimulatedLeaf(<<l, 2 * Parent(i)>>), SimulatedLeaf(<<l, 2 * Parent(i) + 1>>))
         /\ Sibling(i) # i
<1>1. CASE i % 2 = 0
  <2>1. 2 * Parent(i) = i /\ Sibling(i) = 2 * Parent(i) + 1 /\ Sibling(i) # i
    BY <1>1 DEF Parent, Sibling
  <2> QED
    BY <1>1, <2>1 DEF HashAt
<1>2. CASE i % 2 # 0
  <2>1. 2 * Parent(i) + 1 = i /\ Sibling(i) = 2 * Parent(i) /\ Sibling(i) # i
    BY <1>2 DEF Parent, Sibling
  <2> QED
    BY <1>2, <2>1 DEF HashAt
<1> QED
  BY <1>1, <1>2

(* The parent of another node has other children. *)
LEMMA OtherParent ==
  ASSUME NEW i \in Nat, NEW p \in Nat, p # Parent(i)
  PROVE  2 * p # i /\ 2 * p + 1 # i
BY DEF Parent

(* A node of the simulation that is set is a node of the tree. *)
LEMMA NodeOfLevel ==
  ASSUME NEW l \in 0..Depth, NEW i \in Level(l)
  PROVE  <<l, i>> \in Nodes /\ i \in Nat
BY DEF Nodes, Level

(* The bounds of levels and indices that the steps below keep to. *)
LEMMA Ranges ==
  /\ 0 \in 0..Depth /\ 0 \in Indices /\ Indices = Level(0) /\ Depth \in 0..Depth
  /\ Level(Depth) = {0}
  /\ \A l \in 0..Depth : l < Depth => l \in 0..(Depth - 1) /\ l + 1 \in 0..Depth
  /\ \A l \in 0..Depth : Level(l) \subseteq Nat
BY DepthAssumption, WidthAssumption DEF Indices, Level

(* A step of the handler leaves the tree and the job alone. *)
LEMMA SimulationKeepsTree ==
  ASSUME Inv, ContractInv, LeavesInv, UNCHANGED treeVars
  PROVE  Inv' /\ TreeTypeOK' /\ ContractInv' /\ LeavesInv' /\ store' = store
<1>1. /\ readers' \in SUBSET Requests /\ waiting' \in SUBSET Requests
      /\ UNCHANGED <<dbVars, contract, operations, pc, insertVars, writer>>
  BY DEF Inv, TreeTypeOK, treeVars, lockVars
<1>2. Inv' /\ ContractInv'
  BY <1>1, ReadersKeep, ReadersKeepContract
<1>3. store' = store
  BY <1>1 DEF dbVars
<1>4. LeavesInv'
  BY <1>3 DEF LeavesInv, getLeafFromStorage
<1> QED
  BY <1>2, <1>3, <1>4 DEF Inv

(* What is to be shown of a step of the handler. *)
LEMMA HandlerKeeps ==
  ASSUME BatchInv, Simulates, at # "idle",
         at' \in {"find", "leaf", "path", "insert", "answered"}, todo' \in Seq(BatchOperations),
         at' # "answered" => todo' # <<>>,
         DOMAIN simulation' \subseteq Nodes, index' \in Indices,
         simLevel' \in 0..Depth, pathIndex' \in Level(simLevel'), valid' \in BOOLEAN,
         applied' \in [Indices -> Values \union {Empty}],
         overlapped = FALSE => QuietInv'
  PROVE  BatchInv'
<1>1. /\ Inv' /\ TreeTypeOK' /\ ContractInv' /\ LeavesInv'
      /\ overlapped' = overlapped /\ overlapped \in BOOLEAN
  BY SimulationKeepsTree DEF BatchInv, TypeOK, Simulates
<1>2. TypeOK'
  BY <1>1 DEF TypeOK, Level, Indices
<1> QED
  BY <1>1, <1>2 DEF BatchInv

(* The nodes that are read stay as they are while no node is set. *)
LEMMA SimulationUnchanged ==
  ASSUME simulation' = simulation, store' = store
  PROVE  /\ \A n : SimulatedLeaf(n)' = SimulatedLeaf(n)
         /\ \A l, p : ParentSimulated(l, p)' <=> ParentSimulated(l, p)
<1>1. \A n : SimulatedLeaf(n)' = SimulatedLeaf(n)
  BY DEF SimulatedLeaf, getLeafFromStorage
<1> QED
  BY <1>1 DEF ParentSimulated

(* The facts of the invariant that the steps of the handler begin with. *)
LEMMA HandlerFacts ==
  ASSUME BatchInv, Simulates
  PROVE  /\ store' = store /\ todo \in Seq(BatchOperations) /\ DOMAIN simulation \subseteq Nodes
         /\ index \in Indices /\ simLevel \in 0..Depth /\ pathIndex \in Level(simLevel)
         /\ valid \in BOOLEAN /\ overlapped \in BOOLEAN
         /\ applied \in [Indices -> Values \union {Empty}]
         /\ at \in {"find", "leaf", "path", "insert"} => todo # <<>>
         /\ at # "idle" /\ overlapped = FALSE => QuietInv
BY SimulationKeepsTree DEF BatchInv, TypeOK, Simulates

-----------------------------------------------------------------------------
(* No request is under way. *)
LEMMA InitBatchInv == Init => BatchInv
<1> SUFFICES ASSUME Init
             PROVE  BatchInv
  OBVIOUS
<1>1. Inv /\ ContractInv /\ LeavesInv
  <2>1. LeavesInv
    BY EmptyBranchAssumption DEF Init, TreeInit, LeavesInv, getLeafFromStorage
  <2> QED
    BY <2>1, InitInv, InitContract DEF Init
<1>2. todo \in Seq(BatchOperations) /\ DOMAIN simulation \subseteq Nodes
  BY DEF Init
<1>3. TypeOK
  BY <1>1, <1>2, Ranges DEF Init, TypeOK, Inv
<1> QED
  BY <1>1, <1>3 DEF Init, BatchInv

LEMMA IdleKeeps ==
  ASSUME BatchInv, Idle
  PROVE  BatchInv'
<1>1. Inv' /\ TreeTypeOK' /\ ContractInv' /\ LeavesInv'
  BY SimulationKeepsTree DEF BatchInv, Idle
<1>2. todo' \in Seq(BatchOperations) /\ DOMAIN simulation' \subseteq Nodes
  BY DEF Idle
<1>3. TypeOK'
  BY <1>1, <1>2, Ranges DEF Idle, TypeOK, Level, Indices
<1> QED
  BY <1>1, <1>3 DEF Idle, BatchInv

(* The simulation begins with the tree of the database. *)
LEMMA BeginKeeps ==
  ASSUME BatchInv, Begin
  PROVE  BatchInv'
<1>1. /\ Inv /\ Inv' /\ TreeTypeOK' /\ TypeOK /\ store' = store
      /\ ContractInv' /\ LeavesInv /\ LeavesInv'
  BY SimulationKeepsTree DEF BatchInv, Begin
<1>2. todo' \in Seq(BatchOperations) /\ todo' # <<>>
  <2>1. PICK n \in 1..MaxOperations : todo' \in [1..n -> BatchOperations]
    BY DEF Begin
  <2>2. n \in Nat /\ n >= 1 /\ todo' \in Seq(BatchOperations) /\ Len(todo') = n
    BY <2>1
  <2> QED
    BY <2>2
<1>3. /\ at' = "find" /\ root' = getLeafFromStorage(<<Depth, 0>>) /\ DOMAIN simulation' = {}
      /\ valid' = TRUE /\ overlapped' = FALSE /\ index' = 0
      /\ UNCHANGED <<simLevel, pathIndex>>
      /\ applied' = [i \in Indices |-> getLeafFromStorage(<<0, i>>)]
  BY DEF Begin
<1>4. TypeOK'
  <2>1. applied' \in [Indices -> Values \union {Empty}]
    BY <1>1, <1>3 DEF LeavesInv
  <2> QED
    BY <1>1, <1>2, <1>3, <2>1, Ranges DEF TypeOK, Level, Indices
<1>5. \A n : SimulatedLeaf(n)' = getLeafFromStorage(n)
  BY <1>1, <1>3 DEF SimulatedLeaf, getLeafFromStorage
<1>6. SimulatedTree'
  <2>1. \A l \in 0..(Depth - 1) : \A p \in Level(l + 1) : ParentSimulated(l, p)'
    BY <1>1, <1>5 DEF Inv, StoreIsMerkleTree, ParentSimulated
  <2> QED
    BY <2>1 DEF SimulatedTree
<1>7. AppliedInv'
  BY <1>3, <1>5 DEF AppliedInv, Indices, Level
<1>8. ScanInv'
  BY <1>3, Ranges DEF ScanInv, Indices, Level
<1>9. QuietInv'
  BY <1>3, <1>5, <1>6, <1>7, <1>8 DEF QuietInv
<1> QED
  BY <1>1, <1>2, <1>3, <1>4, <1>9 DEF BatchInv

(* The leaf that is found is as the operation expects it, and the one that *)
(* the scan leaves behind does not hold the value.                         *)
LEMMA FindKeeps ==
  ASSUME BatchInv, findEmptyLeafIndexInSimulation \/ findLeafByValueInSimulation
  PROVE  BatchInv'
<1>1. /\ at = "find" /\ Simulates /\ at' \in {"find", "leaf"} /\ index' \in Indices
      /\ UNCHANGED <<todo, simulation, simLevel, pathIndex, root, valid, applied>>
      /\ at' = "leaf" => SimulatedLeaf(<<0, index'>>) = Expected(Head(todo))
  <2>1. CASE findEmptyLeafIndexInSimulation
    BY <2>1 DEF findEmptyLeafIndexInSimulation, Expected
  <2>2. CASE findLeafByValueInSimulation
    <3>1. index \in Indices
      BY DEF BatchInv, TypeOK
    <3> QED
      BY <2>2, <3>1 DEF findLeafByValueInSimulation, Expected
  <2> QED
    BY <2>1, <2>2
<1>2. ASSUME overlapped = FALSE
      PROVE  QuietInv'
  <2>1. /\ QuietInv
        /\ \A n : SimulatedLeaf(n)' = SimulatedLeaf(n)
        /\ \A l, p : ParentSimulated(l, p)' <=> ParentSimulated(l, p)
    BY <1>1, <1>2, HandlerFacts, SimulationUnchanged
  <2>2. SimulatedTree' /\ AppliedInv'
    BY <1>1, <2>1 DEF QuietInv, SimulatedTree, Stale, AppliedInv
  <2>3. ASSUME at' = "find"
        PROVE  ScanInv'
    <3>1. /\ index \in Indices /\ index' = index + 1
          /\ Head(todo).op = "Revocation"
          /\ SimulatedLeaf(<<0, index>>) # Head(todo).value
      BY <1>1, <2>3, HandlerFacts
         DEF findEmptyLeafIndexInSimulation, findLeafByValueInSimulation
    <3>2. applied[index] # Head(todo).value
      BY <1>1, <2>1, <3>1 DEF QuietInv, AppliedInv
    <3>3. \A i \in Indices : i < index => applied[i] # Head(todo).value
      BY <1>1, <2>1, <3>1 DEF QuietInv, ScanInv
    <3>4. \A i \in Indices : i < index + 1 => i < index \/ i = index
      BY <3>1, Ranges
    <3>5. \A i \in Indices : i < index + 1 => applied[i] # Head(todo).value
      BY <3>2, <3>3, <3>4
    <3> QED
      BY <1>1, <3>1, <3>5 DEF ScanInv, Indices, Level
  <2> QED
    BY <1>1, <2>1, <2>2, <2>3 DEF QuietInv
<1> QED
  BY <1>1, <1>2, HandlerFacts, HandlerKeeps

(* createProofWithBatch begins its way up at the leaf. *)
LEMMA ReadLeafKeeps ==
  ASSUME BatchInv, ReadLeaf
  PROVE  BatchInv'
<1>1. /\ at = "leaf" /\ Simulates /\ at' = "path" /\ leaf' = SimulatedLeaf(<<0, index>>)
      /\ before' = leaf' /\ after' = NewLeaf(Head(todo))
      /\ simLevel' = 0 /\ pathIndex' = index
      /\ UNCHANGED <<todo, simulation, index, root, valid, applied>>
  BY DEF ReadLeaf
<1>2. ASSUME overlapped = FALSE
      PROVE  QuietInv'
  <2>1. /\ QuietInv /\ index \in Level(0)
        /\ \A n : SimulatedLeaf(n)' = SimulatedLeaf(n)
        /\ \A l, p : ParentSimulated(l, p)' <=> ParentSimulated(l, p)
    BY <1>1, <1>2, HandlerFacts, SimulationUnchanged, Ranges
  <2>2. SimulatedTree' /\ AppliedInv'
    BY <1>1, <2>1 DEF QuietInv, SimulatedTree, Stale, AppliedInv
  <2>3. PICK path, hash : path = [l \in {0} |-> index] /\ hash = [l \in {0} |-> after']
    OBVIOUS
  <2>4. Climb(path, hash, 0)'
    BY <1>1, <2>1, <2>3 DEF Climb, Level
  <2>5. ReadInv'
    BY <1>1, <2>3, <2>4 DEF ReadInv
  <2> QED
    BY <1>1, <2>1, <2>2, <2>5 DEF QuietInv
<1> QED
  BY <1>1, <1>2, HandlerFacts, HandlerKeeps, Ranges

(* One level up on both ways: from the leaf as it is, which leads along    *)
(* the nodes of the simulation, and from the new leaf.                     *)
LEMMA ReadPathElementKeeps ==
  ASSUME BatchInv, ReadPathElement
  PROVE  BatchInv'
<1>1. PICK s, i, element :
        /\ s = simLevel /\ i = pathIndex /\ element = SimulatedLeaf(<<s, Sibling(i)>>)
        /\ at = "path" /\ at' = "path" /\ s < Depth /\ Simulates
        /\ before' = HashAt(i, before, element) /\ after' = HashAt(i, after, element)
        /\ simLevel' = s + 1 /\ pathIndex' = Parent(i)
        /\ UNCHANGED <<todo, simulation, index, leaf, root, valid, applied>>
  BY DEF ReadPathElement
<1>2. /\ s \in 0..(Depth - 1) /\ s \in Nat /\ s + 1 \in 0..Depth /\ i \in Level(s) /\ i \in Nat
      /\ Parent(i) \in Level(s + 1)
  <2>1. s \in 0..Depth /\ i \in Level(s)
    BY <1>1, HandlerFacts
  <2>2. s \in 0..(Depth - 1) /\ s + 1 \in 0..Depth /\ i \in Nat
    BY <1>1, <2>1, Ranges
  <2> QED
    BY <2>1, <2>2, Levels
<1>3. ASSUME overlapped = FALSE
      PROVE  QuietInv'
  <2>1. /\ QuietInv
        /\ \A n : SimulatedLeaf(n)' = SimulatedLeaf(n)
        /\ \A l, p : ParentSimulated(l, p)' <=> ParentSimulated(l, p)
    BY <1>1, <1>3, HandlerFacts, SimulationUnchanged
  <2>2. SimulatedTree' /\ AppliedInv'
    BY <1>1, <2>1 DEF QuietInv, SimulatedTree, Stale, AppliedInv
  <2>3. before' = SimulatedLeaf(<<s + 1, Parent(i)>>)
    <3>1. before = SimulatedLeaf(<<s, i>>)
      BY <1>1, <2>1 DEF QuietInv
    <3>2. ParentSimulated(s, Parent(i))
      BY <1>1, <1>2, <2>1 DEF QuietInv, SimulatedTree, Stale
    <3> QED
      BY <1>1, <1>2, <3>1, <3>2, HashOfSiblings DEF ParentSimulated
  <2>4. PICK path, hash :
          Climb(path, hash, s) /\ path[s] = i /\ hash[s] = after
    BY <1>1, <2>1 DEF QuietInv, ReadInv
  <2>5. PICK path2, hash2 :
          /\ path2 = [l \in 0..(s + 1) |-> IF l = s + 1 THEN Parent(i) ELSE path[l]]
          /\ hash2 = [l \in 0..(s + 1) |-> IF l = s + 1 THEN after' ELSE hash[l]]
    OBVIOUS
  <2>6. /\ path2[s + 1] = Parent(i) /\ hash2[s + 1] = after'
        /\ \A l \in 0..s : path2[l] = path[l] /\ hash2[l] = hash[l]
    BY <1>2, <2>5
  <2>7. Climb(path2, hash2, s + 1)'
    <3>1. path2[0] = index' /\ hash2[0] = NewLeaf(Head(todo'))
      BY <1>1, <1>2, <2>4, <2>6 DEF Climb
    <3>2. \A l \in 0..(s + 1) : path2[l] \in Level(l)
      BY <1>2, <2>4, <2>6 DEF Climb
    <3>3. ASSUME NEW l \in 0..s
          PROVE  /\ path2[l + 1] = Parent(path2[l])
                 /\ hash2[l + 1] = HashAt(path2[l], hash2[l],
                                          SimulatedLeaf(<<l, Sibling(path2[l])>>))
      <4>1. CASE l = s
        BY <1>1, <1>2, <2>4, <2>6, <4>1
      <4>2. CASE l # s
        <5>1. l \in 0..(s - 1) /\ l + 1 \in 0..s
          BY <1>2, <4>2
        <5> QED
          BY <2>4, <2>6, <5>1 DEF Climb
      <4> QED
        BY <4>1, <4>2
    <3>4. (s + 1) - 1 = s
      BY <1>2
    <3> QED
      BY <2>1, <3>1, <3>2, <3>3, <3>4 DEF Climb, Level
  <2>8. ReadInv'
    BY <1>1, <2>6, <2>7 DEF ReadInv
  <2> QED
    BY <1>1, <2>1, <2>2, <2>3, <2>8 DEF QuietInv
<1> QED
  BY <1>1, <1>2, <1>3, HandlerFacts, HandlerKeeps

(* The way up from the new leaf does not lead over its own siblings: it is *)
(* the same when one of its nodes is set.                                  *)
LEMMA ClimbStays ==
  ASSUME NEW path, NEW hash, Climb(path, hash, Depth), NEW s \in 0..Depth, NEW h,
         \A n : SimulatedLeaf(n)' = IF n = <<s, path[s]>> THEN h ELSE SimulatedLeaf(n),
         UNCHANGED <<index, todo>>
  PROVE  Climb(path, hash, Depth)'
<1>1. ASSUME NEW l \in 0..(Depth - 1)
      PROVE  SimulatedLeaf(<<l, Sibling(path[l])>>)' = SimulatedLeaf(<<l, Sibling(path[l])>>)
  <2>1. l \in 0..Depth /\ path[l] \in Level(l)
    BY DepthAssumption DEF Climb
  <2>2. path[l] \in Nat
    BY <2>1, Ranges
  <2>3. Sibling(path[l]) # path[l]
    BY <2>2, HashOfSiblings
  <2>4. <<l, Sibling(path[l])>> # <<s, path[s]>>
    BY <2>3
  <2> QED
    BY <2>4
<1> QED
  BY <1>1 DEF Climb, Level

(* The new leaf is set.  Only its parent is stale then. *)
LEMMA ApplyOperationKeeps ==
  ASSUME BatchInv, ApplyOperation
  PROVE  BatchInv'
<1>1. PICK N, h, W :
        /\ N = <<0, index>> /\ h = NewLeaf(Head(todo)) /\ W = [n \in {N} |-> h]
        /\ at = "path" /\ at' = "insert" /\ simLevel = Depth /\ Simulates
        /\ simulation' = Set(W, simulation)
        /\ simLevel' = 0 /\ pathIndex' = index
        /\ UNCHANGED <<todo, index, leaf, before, after, root, valid, applied>>
  BY DEF ApplyOperation
<1>2. /\ store' = store /\ index \in Level(0) /\ index \in Nat /\ <<0, index>> \in Nodes
      /\ pathIndex = 0
  BY <1>1, HandlerFacts, Ranges, NodeOfLevel
<1>3. /\ DOMAIN simulation' = DOMAIN simulation \union {N}
      /\ \A n : SimulatedLeaf(n)' = IF n = N THEN h ELSE SimulatedLeaf(n)
  <2>1. DOMAIN W = {N} /\ W[N] = h
    BY <1>1
  <2>2. simulation' = Set(W, simulation) /\ store' = store
    BY <1>1, <1>2
  <2> QED
    BY <2>1, <2>2, ReadSimulated
<1>4. ASSUME overlapped = FALSE
      PROVE  QuietInv'
  <2>1. QuietInv /\ before = root
    BY <1>1, <1>2, <1>4, HandlerFacts DEF QuietInv
  <2>2. SimulatedTree'
    <3> SUFFICES ASSUME NEW l \in 0..(Depth - 1), NEW p \in Level(l + 1),
                        ~(l = 0 /\ p = Parent(index))
                 PROVE  ParentSimulated(l, p)'
      BY <1>1 DEF SimulatedTree, Stale
    <3>1. ParentSimulated(l, p) /\ p \in Nat
      BY <1>1, <2>1, Levels DEF QuietInv, SimulatedTree, Stale, Level
    <3>2. <<l + 1, p>> # N /\ <<l, 2 * p>> # N /\ <<l, 2 * p + 1>> # N
      BY <1>1, <1>2, <3>1, OtherParent
    <3> QED
      BY <1>3, <3>1, <3>2 DEF ParentSimulated
  <2>3. PICK path, hash : Climb(path, hash, Depth) /\ hash[Depth] = after
    BY <1>1, <2>1 DEF QuietInv, ReadInv
  <2>4. path[0] = index /\ hash[0] = h
    BY <1>1, <2>3 DEF Climb
  <2>5. Climb(path, hash, Depth)'
    BY <1>1, <1>3, <2>3, <2>4, ClimbStays, Ranges
  <2>6. WrittenInv'
    BY <1>1, <1>3, <2>3, <2>4, <2>5 DEF WrittenInv
  <2>7. AppliedInv'
    BY <1>1, <1>3, <2>1 DEF QuietInv, AppliedInv
  <2> QED
    BY <1>1, <2>1, <2>2, <2>6, <2>7 DEF QuietInv
<1>5. DOMAIN simulation' \subseteq Nodes /\ 0 \in 0..Depth
  BY <1>1, <1>2, <1>3, HandlerFacts, Ranges
<1> QED
  BY <1>1, <1>2, <1>4, <1>5, HandlerFacts, HandlerKeeps

(* The stale parent is brought up to date, which leaves its own parent     *)
(* stale, if it is not the root.                                           *)
LEMMA InsertLevelKeeps ==
  ASSUME BatchInv, InsertLevel
  PROVE  BatchInv'
<1>1. PICK s, i, p, N, h, W :
        /\ s = simLevel /\ i = pathIndex /\ p = Parent(i) /\ N = <<s + 1, p>>
        /\ W = [n \in {N} |-> h]
        /\ h = HashAt(i, SimulatedLeaf(<<s, i>>), SimulatedLeaf(<<s, Sibling(i)>>))
        /\ at = "insert" /\ at' = "insert" /\ s < Depth /\ Simulates
        /\ simulation' = Set(W, simulation)
        /\ simLevel' = s + 1 /\ pathIndex' = p
        /\ UNCHANGED <<todo, index, leaf, before, after, root, valid, applied>>
  BY DEF InsertLevel
<1>2. /\ s \in 0..(Depth - 1) /\ s \in Nat /\ s + 1 \in 0..Depth /\ i \in Level(s) /\ i \in Nat
      /\ p \in Level(s + 1) /\ p \in Nat /\ store' = store
  <2>1. s \in 0..Depth /\ i \in Level(s) /\ store' = store
    BY <1>1, HandlerFacts
  <2>2. s \in 0..(Depth - 1) /\ s + 1 \in 0..Depth /\ i \in Nat
    BY <1>1, <2>1, Ranges
  <2>3. p \in Level(s + 1)
    BY <1>1, <2>1, <2>2, Levels
  <2> QED
    BY <2>1, <2>2, <2>3, Ranges
<1>3. /\ DOMAIN simulation' = DOMAIN simulation \union {N}
      /\ \A n : SimulatedLeaf(n)' = IF n = N THEN h ELSE SimulatedLeaf(n)
  <2>1. DOMAIN W = {N} /\ W[N] = h
    BY <1>1
  <2>2. simulation' = Set(W, simulation) /\ store' = store
    BY <1>1, <1>2
  <2> QED
    BY <2>1, <2>2, ReadSimulated
<1>4. ASSUME overlapped = FALSE
      PROVE  QuietInv'
  <2>1. QuietInv /\ before = root
    BY <1>1, <1>4, HandlerFacts DEF QuietInv
  <2>2. h = Hash(SimulatedLeaf(<<s, 2 * p>>), SimulatedLeaf(<<s, 2 * p + 1>>))
    BY <1>1, <1>2, HashOfSiblings
  <2>3. SimulatedTree'
    <3> SUFFICES ASSUME NEW l \in 0..(Depth - 1), NEW q \in Level(l + 1),
                        ~(l = s + 1 /\ q = Parent(p))
                 PROVE  ParentSimulated(l, q)'
      BY <1>1 DEF SimulatedTree, Stale
    <3>1. l \in Nat /\ q \in Nat
      BY DEF Level
    <3>2. <<l, 2 * q>> # N /\ <<l, 2 * q + 1>> # N
      BY <1>1, <1>2, <3>1, OtherParent
    <3>3. CASE l = s /\ q = p
      <4>1. <<l + 1, q>> = N
        BY <1>1, <3>3
      <4> QED
        BY <1>3, <2>2, <3>2, <3>3, <4>1 DEF ParentSimulated
    <3>4. CASE ~(l = s /\ q = p)
      <4>1. ParentSimulated(l, q)
        BY <1>1, <2>1, <3>4 DEF QuietInv, SimulatedTree, Stale
      <4>2. <<l + 1, q>> # N
        BY <1>1, <1>2, <3>1, <3>4
      <4> QED
        BY <1>3, <3>2, <4>1, <4>2 DEF ParentSimulated
    <3> QED
      BY <3>3, <3>4
  <2>4. PICK path, hash :
          /\ Climb(path, hash, Depth) /\ path[s] = i
          /\ hash[s] = SimulatedLeaf(<<s, i>>) /\ hash[Depth] = after
    BY <1>1, <2>1 DEF QuietInv, WrittenInv
  <2>5. path[s + 1] = p /\ hash[s + 1] = h
    BY <1>1, <1>2, <2>4 DEF Climb
  <2>6. Climb(path, hash, Depth)'
    BY <1>1, <1>2, <1>3, <2>4, <2>5, ClimbStays
  <2>7. SimulatedLeaf(<<s + 1, p>>)' = h
    BY <1>1, <1>3
  <2>8. WrittenInv'
    BY <1>1, <2>4, <2>5, <2>6, <2>7 DEF WrittenInv
  <2>9. AppliedInv'
    <3>1. \A j : <<0, j>> # N
      BY <1>1, <1>2
    <3> QED
      BY <1>1, <1>3, <2>1, <3>1 DEF QuietInv, AppliedInv
  <2> QED
    BY <1>1, <2>1, <2>3, <2>8, <2>9 DEF QuietInv
<1>5. DOMAIN simulation' \subseteq Nodes
  <2>1. N \in Nodes
    BY <1>1, <1>2, NodeOfLevel
  <2> QED
    BY <1>1, <1>3, <2>1, HandlerFacts
<1> QED
  BY <1>1, <1>2, <1>4, <1>5, HandlerFacts, HandlerKeeps

(* The receiver accepts the proof and holds the root of the simulation. *)
LEMMA AppendProofKeeps ==
  ASSUME BatchInv, AppendProof
  PROVE  BatchInv'
<1>1. /\ at = "insert" /\ simLevel = Depth /\ Simulates
      /\ valid' = (valid /\ before = root)
      /\ root' = after /\ todo' = Tail(todo)
      /\ at' = IF Len(todo) = 1 THEN "answered" ELSE "find"
      /\ index' = 0 /\ simLevel' = 0 /\ pathIndex' = 0
      /\ simulation' = simulation
      /\ applied' = [applied EXCEPT ![index] = NewLeaf(Head(todo))]
  BY DEF AppendProof
<1>2. valid' \in BOOLEAN
  BY <1>1, Zenon
<1>3. /\ todo' \in Seq(BatchOperations) /\ (at' # "answered" => todo' # <<>>)
      /\ at' \in {"find", "answered"}
  <2>1. todo \in Seq(BatchOperations) /\ todo # <<>>
    BY <1>1, HandlerFacts
  <2>2. /\ Len(todo) \in Nat /\ Tail(todo) \in Seq(BatchOperations)
        /\ Len(Tail(todo)) = Len(todo) - 1
    BY <2>1
  <2>3. Len(todo) # 1 => Len(Tail(todo)) # 0
    BY <2>2
  <2>4. Len(todo) # 1 => Tail(todo) # <<>>
    BY <2>3
  <2> QED
    BY <1>1, <2>2, <2>4
<1>4. ASSUME overlapped = FALSE
      PROVE  QuietInv'
  <2>1. /\ QuietInv /\ pathIndex = 0 /\ valid = TRUE /\ before = root
        /\ \A n : SimulatedLeaf(n)' = SimulatedLeaf(n)
        /\ \A l, p : ParentSimulated(l, p)' <=> ParentSimulated(l, p)
    BY <1>1, <1>4, HandlerFacts, SimulationUnchanged, Ranges DEF QuietInv
  <2>2. valid' = TRUE
    BY <1>1, <2>1, Zenon
  <2>3. after = SimulatedLeaf(<<Depth, 0>>)
    BY <1>1, <2>1 DEF QuietInv, WrittenInv
  <2>4. SimulatedTree'
    <3> SUFFICES ASSUME NEW l \in 0..(Depth - 1), NEW p \in Level(l + 1)
                 PROVE  ParentSimulated(l, p)
      BY <2>1 DEF SimulatedTree
    <3>1. l # Depth
      BY DepthAssumption
    <3> QED
      BY <1>1, <2>1, <3>1 DEF QuietInv, SimulatedTree, Stale
  <2>5. AppliedInv'
    BY <1>1, <1>3, <2>1, HandlerFacts DEF QuietInv, AppliedInv
  <2>6. ScanInv'
    BY <1>1, Ranges DEF ScanInv, Indices, Level
  <2> QED
    BY <1>1, <1>3, <2>1, <2>2, <2>3, <2>4, <2>5, <2>6 DEF QuietInv
<1>5. applied' \in [Indices -> Values \union {Empty}]
  <2>1. Head(todo) \in BatchOperations
    BY <1>1, HandlerFacts
  <2>2. NewLeaf(Head(todo)) \in Values \union {Empty}
    BY <2>1 DEF NewLeaf, BatchOperations
  <2> QED
    BY <1>1, <2>2, HandlerFacts
<1> QED
  BY <1>1, <1>2, <1>3, <1>4, <1>5, HandlerFacts, HandlerKeeps, Ranges

-----------------------------------------------------------------------------
(* What the handler holds does not change while the store does not. *)
LEMMA QuietStays ==
  ASSUME QuietInv, UNCHANGED simVars, store' = store
  PROVE  QuietInv'
<1>1. UNCHANGED <<at, todo, simulation, index, leaf, simLevel, pathIndex, before, after, root, valid, applied>>
  BY DEF simVars, opVars
<1>2. /\ \A n : SimulatedLeaf(n)' = SimulatedLeaf(n)
      /\ \A l, p : ParentSimulated(l, p)' <=> ParentSimulated(l, p)
  BY <1>1, SimulationUnchanged
<1>3. SimulatedTree' /\ AppliedInv'
  BY <1>1, <1>2 DEF QuietInv, SimulatedTree, Stale, AppliedInv
<1>4. \A path, hash, top : Climb(path, hash, top)' <=> Climb(path, hash, top)
  BY <1>1, <1>2 DEF Climb
<1>5. (at = "path" => ReadInv') /\ (at = "insert" => WrittenInv')
  BY <1>1, <1>2, <1>4 DEF QuietInv, ReadInv, WrittenInv
<1>6. at = "find" => ScanInv'
  BY <1>1 DEF QuietInv, ScanInv, Indices, Level
<1> QED
  BY <1>1, <1>2, <1>3, <1>5, <1>6 DEF QuietInv

(* A step of the indexing job: one that writes to the database marks the   *)
(* request as overlapped, the others leave what the handler reads.         *)
LEMMA CommitKeeps ==
  ASSUME BatchInv, CommitWhileServing
  PROVE  BatchInv'
<1>1. /\ TreeNext /\ UNCHANGED simVars
      /\ UNCHANGED <<at, todo, simulation, index, simLevel, pathIndex, valid, applied>>
  BY DEF CommitWhileServing, simVars, opVars
<1>2. Inv' /\ ContractInv' /\ LeavesInv'
  BY <1>1, TreeNextKeeps, TreeNextKeepsContract, TreeNextKeepsLeaves DEF BatchInv
<1>3. overlapped' \in BOOLEAN
  BY Zenon DEF CommitWhileServing
<1>4. TypeOK'
  BY <1>1, <1>2, <1>3 DEF BatchInv, Inv, TypeOK, Level, Indices
<1>5. ASSUME at' # "idle", overlapped' = FALSE
      PROVE  QuietInv'
  <2>1. overlapped = FALSE /\ store' = store
    <3>1. overlapped \in BOOLEAN
      BY DEF BatchInv, TypeOK
    <3>2. ~overlapped /\ ~(store' # store)
      BY <1>1, <1>5, Zenon DEF CommitWhileServing
    <3> QED
      BY <3>1, <3>2, Zenon
  <2> QED
    BY <1>1, <1>5, <2>1, QuietStays DEF BatchInv
<1> QED
  BY <1>1, <1>2, <1>4, <1>5 DEF BatchInv

LEMMA NextKeepsBatchInv == BatchInv /\ [Next]_vars => BatchInv'
<1> SUFFICES ASSUME BatchInv, [Next]_vars
             PROVE  BatchInv'
  OBVIOUS
<1>1. CASE Begin
  BY <1>1, BeginKeeps
<1>2. CASE findEmptyLeafIndexInSimulation \/ findLeafByValueInSimulation
  BY <1>2, FindKeeps
<1>3. CASE EmptyLeafNotFound \/ LeafNotFound \/ Cancel \/ RejectLeaf \/ Respond
  BY <1>3, IdleKeeps DEF EmptyLeafNotFound, LeafNotFound, Cancel, RejectLeaf, Respond
<1>4. CASE ReadLeaf
  BY <1>4, ReadLeafKeeps
<1>5. CASE ReadPathElement
  BY <1>5, ReadPathElementKeeps
<1>6. CASE ApplyOperation
  BY <1>6, ApplyOperationKeeps
<1>7. CASE InsertLevel
  BY <1>7, InsertLevelKeeps
<1>8. CASE AppendProof
  BY <1>8, AppendProofKeeps
<1>9. CASE CommitWhileServing
  BY <1>9, CommitKeeps
<1>10. CASE UNCHANGED vars
  <2>1. /\ UNCHANGED treeVars /\ UNCHANGED simVars
        /\ UNCHANGED <<at, todo, simulation, index, simLevel, pathIndex, valid, applied, overlapped>>
    BY <1>10 DEF vars, simVars, opVars
  <2>2. Inv' /\ TreeTypeOK' /\ ContractInv' /\ LeavesInv' /\ store' = store
    BY <2>1, SimulationKeepsTree DEF BatchInv
  <2>3. TypeOK'
    BY <2>1, <2>2 DEF BatchInv, TypeOK, Level, Indices
  <2> QED
    BY <2>1, <2>2, <2>3, QuietStays DEF BatchInv
<1> QED
  BY <1>1, <1>2, <1>3, <1>4, <1>5, <1>6, <1>7, <1>8, <1>9, <1>10 DEF Next, HandlerStep

LEMMA BatchAlways == Spec => []BatchInv
BY InitBatchInv, NextKeepsBatchInv, PTL DEF Spec

-----------------------------------------------------------------------------
(* The handler's variables keep their types: it sets only nodes of the     *)
(* tree in its SimulationBatch, and the index of its way up stays inside   *)
(* the level that it is at.                                                *)
THEOREM BatchTypeCorrect == Spec => []TypeOK
<1>1. BatchInv => TypeOK
  BY DEF BatchInv
<1> QED
  BY <1>1, BatchAlways, PTL

(* SimulateBatchOperations: when no commit is written while a batch is     *)
(* simulated, the receiver's check of every proof of the answer succeeds,  *)
(* and the root that it ends with is that of the tree whose leaves are     *)
(* those of the registry with the operations of the batch applied.         *)
THEOREM QuietBatchAlwaysChains == Spec => []QuietBatchProofsChain
<1>1. BatchInv => QuietBatchProofsChain
  <2> SUFFICES ASSUME BatchInv, ~overlapped, at = "answered"
               PROVE  valid /\ root = RootOf(applied)
    BY DEF QuietBatchProofsChain
  <2>1. overlapped = FALSE
    <3>1. overlapped \in BOOLEAN
      BY DEF BatchInv, TypeOK
    <3> QED
      BY <3>1, Zenon
  <2>2. /\ QuietInv /\ valid = TRUE /\ root = SimulatedLeaf(<<Depth, 0>>)
        /\ applied \in [Indices -> Values \union {Empty}]
    BY <2>1 DEF BatchInv, QuietInv, TypeOK
  <2>3. PICK G : G = [n \in Nodes |-> SimulatedLeaf(n)]
    OBVIOUS
  <2>4. \A l \in 0..Depth : \A p \in Level(l) : G[<<l, p>>] = SimulatedLeaf(<<l, p>>)
    BY <2>3, NodeOfLevel
  <2>5. \A i \in Indices : G[<<0, i>>] = applied[i]
    BY <2>2, <2>4, Ranges DEF QuietInv, AppliedInv
  <2>6. ASSUME NEW l \in 0..(Depth - 1), NEW p \in Level(l + 1)
        PROVE  G[<<l + 1, p>>] = Hash(G[<<l, 2 * p>>], G[<<l, 2 * p + 1>>])
    <3>1. l \in 0..Depth /\ l + 1 \in 0..Depth /\ 2 * p \in Level(l) /\ 2 * p + 1 \in Level(l)
      BY Children, DepthAssumption
    <3>2. ParentSimulated(l, p)
      BY <2>2 DEF QuietInv, SimulatedTree, Stale
    <3> QED
      BY <2>4, <3>1, <3>2 DEF ParentSimulated
  <2>7. G[<<Depth, 0>>] = TreeOf(applied)[<<Depth, 0>>]
    <3>1. \A l \in 0..Depth : \A p \in Level(l) : G[<<l, p>>] = TreeOf(applied)[<<l, p>>]
      BY <2>2, <2>5, <2>6, TreeIsUnique
    <3>2. Depth \in 0..Depth /\ 0 \in Level(Depth)
      BY Ranges
    <3> QED
      BY <3>1, <3>2
  <2> QED
    BY <2>2, <2>4, <2>7, Ranges DEF RootOf
<1> QED
  BY <1>1, BatchAlways, PTL

(* SimulateBatchOperations: without a commit in between, the leaf of every *)
(* proof is as its operation expects it, and a revocation is refused only  *)
(* when no leaf holds its value after the earlier operations.              *)
THEOREM QuietBatchAlwaysFindsItsLeaves == Spec => []QuietBatchFindsItsLeaves
<1>1. BatchInv => QuietBatchFindsItsLeaves
  <2> SUFFICES ASSUME BatchInv, ~overlapped
               PROVE  /\ at = "path" => leaf = Expected(Head(todo))
                      /\ Unfound => \A i \in Indices : applied[i] # Head(todo).value
    BY DEF QuietBatchFindsItsLeaves
  <2>1. overlapped = FALSE
    <3>1. overlapped \in BOOLEAN
      BY DEF BatchInv, TypeOK
    <3> QED
      BY <3>1, Zenon
  <2>2. at = "path" => leaf = Expected(Head(todo))
    BY <2>1 DEF BatchInv, QuietInv
  <2>3. ASSUME Unfound
        PROVE  \A i \in Indices : applied[i] # Head(todo).value
    <3>1. /\ at = "find" /\ Head(todo).op = "Revocation" /\ index + 1 \notin Indices
          /\ SimulatedLeaf(<<0, index>>) # Head(todo).value
      BY <2>3 DEF Unfound
    <3>2. QuietInv /\ index \in Indices
      BY <2>1, <3>1 DEF BatchInv, TypeOK
    <3>3. applied[index] # Head(todo).value
      BY <3>1, <3>2 DEF QuietInv, AppliedInv
    <3>4. \A i \in Indices : i < index => applied[i] # Head(todo).value
      BY <3>1, <3>2 DEF QuietInv, ScanInv
    <3>5. \A i \in Indices : i < index \/ i = index
      <4>1. Width[0] \in Nat /\ Indices = 0..(Width[0] - 1)
        BY WidthAssumption, DepthAssumption DEF Indices, Level
      <4> QED
        BY <3>1, <3>2, <4>1
    <3> QED
      BY <3>3, <3>4, <3>5
  <2> QED
    BY <2>2, <2>3
<1> QED
  BY <1>1, BatchAlways, PTL
=============================================================================

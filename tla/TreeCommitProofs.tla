-------------------------- MODULE TreeCommitProofs --------------------------
(***************************************************************************)
(* Proofs about the tree and the commits to it, for every depth, every     *)
(* hash function and every list of operations.                             *)
(***************************************************************************)
EXTENDS TreeCommit, TLAPS, WellFoundedInduction

(***************************************************************************)
(* The highest of a set of positions.  A commit writes its operations in   *)
(* order, so that the highest position on a key decides what it holds.     *)
(***************************************************************************)

(* A non-empty set of numbers has a least one. *)
LEMMA LeastOfSet ==
  ASSUME NEW S \in SUBSET Nat, S # {}
  PROVE  \E x \in S : \A y \in S : x <= y
<1> DEFINE R == {ss \in Nat \X Nat : ss[1] < ss[2]}
<1>1. IsWellFoundedOn(R, Nat)
  BY NatLessThanWellFounded DEF OpToRel
<1>2. PICK x \in S : \A y \in S : ~(<<y, x>> \in R)
  <2> HIDE DEF R
  <2> QED
    BY <1>1, WFMin
<1>3. ASSUME NEW y \in S
      PROVE  x <= y
  <2>1. x \in Nat /\ y \in Nat /\ <<y, x>> \notin R
    BY <1>2
  <2>2. ~(y < x)
    BY <2>1, Zenon
  <2> QED
    BY <2>1, <2>2
<1> QED
  BY <1>3

(* A non-empty set of positions has a highest one, and Max is it: the last *)
(* write to a key in a batch (CommitOperations) exists.                    *)
LEMMA MaxOfSet ==
  ASSUME NEW n \in Nat, NEW S \in SUBSET (1..n), S # {}
  PROVE  Max(S) \in S /\ \A j \in S : j <= Max(S)
<1> DEFINE T == {n - k : k \in S}
<1>1. \A k \in S : k \in Nat /\ n - k \in Nat
  OBVIOUS
<1>2. T \subseteq Nat
  BY <1>1
<1>3. T # {}
  OBVIOUS
<1>4. PICK x \in T : \A y \in T : x <= y
  <2> HIDE DEF T
  <2> QED
    BY <1>2, <1>3, LeastOfSet
<1>5. PICK m \in S : x = n - m
  OBVIOUS
<1>6. ASSUME NEW j \in S
      PROVE  m >= j
  <2>1. n - m <= n - j
    BY <1>4, <1>5
  <2> HIDE DEF T
  <2>2. m \in Nat /\ j \in Nat
    BY <1>1
  <2> QED
    BY <2>1, <2>2
<1> QED
  BY <1>6 DEF Max

(* The highest position of a set is determined by being in it and above    *)
(* the others.                                                             *)
LEMMA MaxIs ==
  ASSUME NEW S \in SUBSET Nat, NEW m \in S, \A j \in S : j <= m
  PROVE  Max(S) = m
<1>1. \A y \in S : m >= y
  OBVIOUS
<1>2. Max(S) \in S /\ \A y \in S : Max(S) >= y
  BY <1>1 DEF Max
<1>3. Max(S) \in Nat /\ m \in Nat /\ m >= Max(S) /\ Max(S) >= m
  BY <1>1, <1>2
<1> QED
  BY <1>3

-----------------------------------------------------------------------------
(* The parent p at level l + 1 is the hash of its children, read through   *)
(* the batch.                                                              *)
ParentInBatch(l, p) ==
  getLeafFromBatchOrStorage(<<l + 1, p>>) =
    Hash(getLeafFromBatchOrStorage(<<l, 2 * p>>), getLeafFromBatchOrStorage(<<l, 2 * p + 1>>))

(* The levels that the loop has left behind are done. *)
LevelsDone == \A l \in 0..(level - 1) : \A p \in Level(l + 1) : ParentInBatch(l, p)

(* Writing the batch would leave a Merkle tree. *)
AllDone == \A l \in 0..(Depth - 1) : \A p \in Level(l + 1) : ParentInBatch(l, p)

(* The loop of InsertLeaves at a level: the parents in updatedIndexes are  *)
(* done and queued for the next level, any other node that the batch has   *)
(* changed is still ahead in leaves, and the slice that is overwritten     *)
(* ends before the position.                                               *)
InsertInv ==
  /\ LevelsDone
  /\ \A p \in updatedIndexes : ParentInBatch(level, p)
  /\ \A n \in DOMAIN batch : n[1] <= level \/ (n[1] = level + 1 /\ n[2] \in updatedIndexes)
  /\ \A j \in Level(level) : <<level, j>> \in DOMAIN batch =>
       \/ Parent(j) \in updatedIndexes
       \/ \E m \in position..Len(leaves) : leaves[m] = j
  /\ \A p \in updatedIndexes : \E m \in 1..Len(next) : next[m] = p
  /\ Len(next) < position
  /\ leaves \in Seq(Level(level))
  /\ level < Depth => next \in Seq(Level(level + 1)) /\ updatedIndexes \subseteq Level(level + 1)
  /\ level = Depth => next = <<>> /\ updatedIndexes = {}

Inv ==
  /\ TreeTypeOK
  /\ StoreIsMerkleTree
  /\ pc = "insert" => InsertInv
  /\ pc \in {"lock", "write"} => AllDone
  /\ pc = "handle" => DOMAIN batch = {}

-----------------------------------------------------------------------------
(* Halving and doubling of indices between levels of the tree. *)
LEMMA Levels ==
  ASSUME NEW l \in 0..(Depth - 1)
  PROVE  /\ l + 1 \in 0..Depth /\ Width[l] \in Nat /\ Width[l + 1] \in Nat
         /\ Width[l] = 2 * Width[l + 1]
         /\ Level(l + 1) \subseteq Level(l)
         /\ \A p \in Level(l + 1) : 2 * p \in Level(l) /\ 2 * p + 1 \in Level(l)
         /\ \A p \in Nat : Parent(2 * p) = p /\ Parent(2 * p + 1) = p
         /\ \A i \in Level(l) : Parent(i) \in Level(l + 1)
<1>1. l \in 0..Depth /\ l + 1 \in 0..Depth
  BY DepthAssumption
<1>2. Width[l] \in Nat /\ Width[l + 1] \in Nat \ {0} /\ Width[l] = 2 * Width[l + 1]
  BY <1>1, WidthAssumption
<1>3. \A p \in Level(l + 1) : 2 * p \in Level(l) /\ 2 * p + 1 \in Level(l) /\ p \in Level(l)
  BY <1>2 DEF Level
<1>4. \A p \in Nat : Parent(2 * p) = p /\ Parent(2 * p + 1) = p
  BY DEF Parent
<1>5. \A i \in Level(l) : Parent(i) \in Level(l + 1)
  BY <1>2 DEF Level, Parent
<1> QED
  BY <1>1, <1>2, <1>3, <1>4, <1>5

(* Writing the batch makes the database read as the batch did. *)
LEMMA ReadAfterWrite ==
  ASSUME NEW m, store' = Set(batch, store)
  PROVE  getLeafFromStorage(m)' = getLeafFromBatchOrStorage(m)
BY DEF Set, getLeafFromBatchOrStorage, getLeafFromStorage

(* An empty database holds a tree of empty branches. *)
LEMMA InitInv == TreeInit => Inv
<1> SUFFICES ASSUME TreeInit
             PROVE  Inv
  OBVIOUS
<1>1. TreeTypeOK
  <2>1. DOMAIN store = {} /\ DOMAIN batch = {} /\ 0 \in 0..Depth
    BY DepthAssumption DEF TreeInit
  <2>2. leafIndex \in [Values -> Indices \union {NotFound}]
        /\ contract \in [Indices -> Values \union {Empty}]
    BY DEF TreeInit
  <2>3. /\ operations \in Seq([op : Operations, index : Indices, value : Values])
        /\ leaves \in Seq(Nat) /\ next \in Seq(Nat)
    BY DEF TreeInit
  <2>4. /\ readers \in SUBSET Requests /\ waiting \in SUBSET Requests
        /\ updatedIndexes \subseteq Nat
    BY DEF TreeInit
  <2> QED
    BY <2>1, <2>2, <2>3, <2>4 DEF TreeInit, TreeTypeOK
<1>2. StoreIsMerkleTree
  <2>1. \A n : getLeafFromStorage(n) = EmptyBranch[n[1]]
    BY DEF TreeInit, getLeafFromStorage
  <2> QED
    BY <2>1, EmptyBranchAssumption DEF StoreIsMerkleTree
<1> QED
  BY <1>1, <1>2 DEF Inv, TreeInit

-----------------------------------------------------------------------------
(* A step that leaves the database and the loop of InsertLeaves alone      *)
(* leaves what is known of them.                                           *)
LEMMA TreeUnchanged ==
  ASSUME UNCHANGED <<store, insertVars>>
  PROVE  /\ StoreIsMerkleTree => StoreIsMerkleTree'
         /\ LevelsDone => LevelsDone'
         /\ AllDone => AllDone'
         /\ InsertInv => InsertInv'
<1>1. /\ store' = store /\ batch' = batch /\ level' = level /\ leaves' = leaves
      /\ next' = next /\ position' = position /\ updatedIndexes' = updatedIndexes
  BY DEF insertVars
<1>2. \A n : getLeafFromStorage(n)' = getLeafFromStorage(n)
  BY <1>1 DEF getLeafFromStorage
<1>3. \A n : getLeafFromBatchOrStorage(n)' = getLeafFromBatchOrStorage(n)
  BY <1>1, <1>2 DEF getLeafFromBatchOrStorage
<1>4. StoreIsMerkleTree => StoreIsMerkleTree'
  BY <1>2 DEF StoreIsMerkleTree
<1>5. \A l, p : ParentInBatch(l, p)' <=> ParentInBatch(l, p)
  BY <1>3 DEF ParentInBatch
<1>6. LevelsDone => LevelsDone'
  BY <1>1, <1>5 DEF LevelsDone
<1>7. AllDone => AllDone'
  BY <1>5 DEF AllDone
<1>8. InsertInv => InsertInv'
  BY <1>1, <1>5, <1>6 DEF InsertInv
<1> QED
  BY <1>4, <1>6, <1>7, <1>8

(* CommitOperations puts only leaves into the batch, and all of them are   *)
(* ahead of the loop.                                                      *)
LEMMA CommitOperationsKeeps ==
  ASSUME Inv, CommitOperations
  PROVE  Inv'
<1> DEFINE touched == {j \in Indices : OnLeaf(j) # {}}
<1>1. /\ operations \in Seq([op : Operations, index : Indices, value : Values])
      /\ Len(operations) \in Nat /\ DOMAIN operations = 1..Len(operations)
      /\ \A k \in 1..Len(operations) : operations[k].index \in Indices
  <2> DEFINE R == [op : Operations, index : Indices, value : Values]
  <2>1. operations \in Seq(R)
    BY DEF Inv, TreeTypeOK
  <2>2. \A e \in R : e.index \in Indices
    OBVIOUS
  <2> HIDE DEF R
  <2>3. /\ Len(operations) \in Nat /\ DOMAIN operations = 1..Len(operations)
        /\ \A k \in 1..Len(operations) : operations[k] \in R
    BY <2>1
  <2> QED
    BY <2>1, <2>2, <2>3 DEF R
<1>2. /\ leaves' = [k \in 1..Len(operations) |-> operations[k].index]
      /\ store' = store /\ operations' = operations
      /\ level' = 0 /\ next' = <<>> /\ position' = 1 /\ updatedIndexes' = {}
      /\ pc' = "insert"
      /\ DOMAIN batch' = {<<0, i>> : i \in touched}
      /\ UNCHANGED <<leafIndex, contract, lockVars>>
  BY <1>1 DEF CommitOperations, dbVars
<1>3. /\ leaves' \in Seq(Indices) /\ Len(leaves') = Len(operations)
      /\ \A k \in 1..Len(operations) : leaves'[k] = operations[k].index
  BY <1>1, <1>2
<1>4. Indices \subseteq Nat /\ Indices = Level(0) /\ 0 \in 0..Depth /\ 0 < Depth
  BY DepthAssumption DEF Indices, Level
<1>5. TreeTypeOK'
  <2>1. DOMAIN batch' \subseteq Nodes
    BY <1>2, <1>4 DEF Nodes
  <2>2. leaves' \in Seq(Nat) /\ next' \in Seq(Nat)
    BY <1>2, <1>3, <1>4
  <2> QED
    BY <1>2, <1>4, <2>1, <2>2 DEF Inv, TreeTypeOK, lockVars
<1>6. StoreIsMerkleTree'
  <2>1. \A n : getLeafFromStorage(n)' = getLeafFromStorage(n)
    BY <1>2 DEF getLeafFromStorage
  <2> QED
    BY <2>1 DEF Inv, StoreIsMerkleTree
<1>7. InsertInv'
  <2>1. LevelsDone'
    BY <1>2 DEF LevelsDone
  <2>2. ASSUME NEW j \in Level(0), <<0, j>> \in DOMAIN batch'
        PROVE  \E m \in 1..Len(leaves') : leaves'[m] = j
    <3>1. j \in touched
      BY <1>2, <2>2
    <3>2. PICK k \in DOMAIN operations : operations[k].index = j
      BY <3>1 DEF OnLeaf
    <3> QED
      BY <1>1, <1>3, <3>2
  <2>3. \A n \in DOMAIN batch' : n[1] <= 0
    BY <1>2
  <2>4. leaves' \in Seq(Level(level'))
    BY <1>2, <1>3, <1>4
  <2>5. next' \in Seq(Level(level' + 1)) /\ updatedIndexes' \subseteq Level(level' + 1)
    BY <1>2
  <2>6. Len(next') < position'
    BY <1>2
  <2> QED
    BY <1>2, <1>4, <2>1, <2>2, <2>3, <2>4, <2>5, <2>6 DEF InsertInv
<1> QED
  BY <1>2, <1>5, <1>6, <1>7 DEF Inv

(* One turn of the inner loop finishes the parent of the node at the       *)
(* position.  What it overwrites in leaves is not ahead of the position.   *)
LEMMA InsertNodeKeeps ==
  ASSUME Inv, InsertNode
  PROVE  Inv'
<1>0. PICK i, p, N, h :
        /\ i = leaves[position] /\ p = Parent(i) /\ N = <<level + 1, p>>
        /\ h = calculateHashForNode(level, i)
  OBVIOUS
<1>1. /\ pc = "insert" /\ InsertInv /\ TreeTypeOK /\ level \in Nat /\ level < Depth
      /\ level \in 0..(Depth - 1) /\ level + 1 \in 0..Depth
      /\ position \in Nat /\ position <= Len(leaves) /\ position >= 1
  <2>1. pc = "insert" /\ InsertInv /\ TreeTypeOK /\ level < Depth /\ position <= Len(leaves)
    BY DEF InsertNode, Inv
  <2>2. level \in 0..Depth /\ position \in Nat /\ next \in Seq(Nat) /\ Len(next) < position
    BY <2>1 DEF TreeTypeOK, InsertInv
  <2>3. Len(next) \in Nat
    BY <2>2
  <2> QED
    BY <2>1, <2>2, <2>3, DepthAssumption
<1>2. /\ leaves \in Seq(Level(level)) /\ Len(leaves) \in Nat
      /\ next \in Seq(Level(level + 1)) /\ Len(next) \in Nat /\ Len(next) < position
      /\ updatedIndexes \subseteq Level(level + 1)
  BY <1>1 DEF InsertInv
<1>3. i \in Level(level) /\ p \in Level(level + 1) /\ p \in Level(level) /\ p \in Nat
  <2>1. i \in Level(level)
    BY <1>0, <1>1, <1>2
  <2>2. Parent(i) \in Level(level + 1) /\ Level(level + 1) \subseteq Level(level)
    BY <1>1, <2>1, Levels
  <2>3. Level(level + 1) \subseteq Nat
    BY DEF Level
  <2> QED
    BY <1>0, <2>1, <2>2, <2>3
<1>4. /\ store' = store /\ level' = level /\ pc' = pc /\ position' = position + 1
      /\ UNCHANGED <<leafIndex, contract, operations, lockVars>>
  BY DEF InsertNode, dbVars
<1>5. StoreIsMerkleTree'
  <2>1. \A n : getLeafFromStorage(n)' = getLeafFromStorage(n)
    BY <1>4 DEF getLeafFromStorage
  <2> QED
    BY <2>1 DEF Inv, StoreIsMerkleTree
<1>6. CASE p \in updatedIndexes
  <2>1. UNCHANGED <<batch, next, leaves, updatedIndexes>>
    BY <1>0, <1>6 DEF InsertNode
  <2>2. \A n : getLeafFromBatchOrStorage(n)' = getLeafFromBatchOrStorage(n)
    BY <1>4, <2>1 DEF getLeafFromBatchOrStorage, getLeafFromStorage
  <2>3. \A l, q : ParentInBatch(l, q)' <=> ParentInBatch(l, q)
    BY <2>2 DEF ParentInBatch
  <2>4. LevelsDone'
    BY <1>1, <1>4, <2>3 DEF InsertInv, LevelsDone
  <2>5. ASSUME NEW j \in Level(level), <<level, j>> \in DOMAIN batch, Parent(j) \notin updatedIndexes
        PROVE  \E m \in (position + 1)..Len(leaves) : leaves[m] = j
    <3>1. PICK m \in position..Len(leaves) : leaves[m] = j
      BY <1>1, <2>5 DEF InsertInv
    <3>2. m # position
      BY <1>0, <1>6, <2>5, <3>1
    <3> QED
      BY <1>1, <1>2, <3>1, <3>2
  <2>6. InsertInv'
    BY <1>1, <1>2, <1>4, <2>1, <2>3, <2>4, <2>5 DEF InsertInv
  <2>7. TreeTypeOK'
    BY <1>1, <1>4, <2>1 DEF TreeTypeOK, lockVars
  <2> QED
    BY <1>1, <1>4, <1>5, <2>6, <2>7 DEF Inv
<1>7. CASE p \notin updatedIndexes
  <2>1. /\ batch' = Set([n \in {N} |-> h], batch)
        /\ next' = Append(next, p)
        /\ leaves' = IF level = 0 THEN leaves ELSE [leaves EXCEPT ![Len(next) + 1] = p]
        /\ updatedIndexes' = updatedIndexes \union {p}
    BY <1>0, <1>7 DEF InsertNode
  <2>2. h = Hash(getLeafFromBatchOrStorage(<<level, 2 * p>>),
                 getLeafFromBatchOrStorage(<<level, 2 * p + 1>>))
    BY <1>0 DEF calculateHashForNode
  <2>3. /\ DOMAIN batch' = DOMAIN batch \union {N}
        /\ \A n : getLeafFromBatchOrStorage(n)' = IF n = N THEN h ELSE getLeafFromBatchOrStorage(n)
    <3>1. DOMAIN batch' = DOMAIN batch \union {N}
      BY <2>1 DEF Set
    <3>2. \A n \in DOMAIN batch' : batch'[n] = IF n = N THEN h ELSE batch[n]
      BY <2>1 DEF Set
    <3> QED
      BY <1>4, <3>1, <3>2 DEF getLeafFromBatchOrStorage, getLeafFromStorage
  <2>4. ASSUME NEW l \in Nat, NEW q, l < level, ParentInBatch(l, q)
        PROVE  ParentInBatch(l, q)'
    <3>1. <<l + 1, q>> # N /\ <<l, 2 * q>> # N /\ <<l, 2 * q + 1>> # N
      BY <1>0, <1>1, <2>4
    <3> QED
      BY <2>3, <2>4, <3>1 DEF ParentInBatch
  <2>5. ParentInBatch(level, p)'
    <3>1. <<level + 1, p>> = N /\ <<level, 2 * p>> # N /\ <<level, 2 * p + 1>> # N
      BY <1>0, <1>1
    <3> QED
      BY <1>4, <2>2, <2>3, <3>1 DEF ParentInBatch
  <2>6. LevelsDone'
    BY <1>1, <1>4, <2>4 DEF InsertInv, LevelsDone
  <2>7. \A q \in updatedIndexes' : ParentInBatch(level, q)'
    <3> SUFFICES ASSUME NEW q \in updatedIndexes'
                 PROVE  ParentInBatch(level, q)'
      OBVIOUS
    <3>1. CASE q = p
      BY <2>5, <3>1
    <3>2. CASE q # p
      <4>1. ParentInBatch(level, q)
        BY <1>1, <2>1, <3>2 DEF InsertInv
      <4>2. <<level + 1, q>> # N /\ <<level, 2 * q>> # N /\ <<level, 2 * q + 1>> # N
        BY <1>0, <1>1, <3>2
      <4> QED
        BY <1>4, <2>3, <4>1, <4>2 DEF ParentInBatch
    <3> QED
      BY <3>1, <3>2
  <2>8. \A n \in DOMAIN batch' :
          n[1] <= level \/ (n[1] = level + 1 /\ n[2] \in updatedIndexes')
    BY <1>0, <1>1, <2>1, <2>3 DEF InsertInv
  <2>9. /\ leaves' \in Seq(Level(level)) /\ Len(leaves') = Len(leaves)
        /\ \A m \in (position + 1)..Len(leaves) : leaves'[m] = leaves[m]
    <3>1. CASE level = 0
      BY <1>2, <2>1, <3>1
    <3>2. CASE level # 0
      <4>1. leaves' = [leaves EXCEPT ![Len(next) + 1] = p]
        BY <2>1, <3>2
      <4>2. Len(next) + 1 \in 1..Len(leaves) /\ Len(next) + 1 <= position
        BY <1>1, <1>2
      <4> QED
        BY <1>1, <1>2, <1>3, <4>1, <4>2
    <3> QED
      BY <3>1, <3>2
  <2>10. ASSUME NEW j \in Level(level), <<level, j>> \in DOMAIN batch',
                Parent(j) \notin updatedIndexes'
         PROVE  \E m \in (position + 1)..Len(leaves') : leaves'[m] = j
    <3>1. <<level, j>> \in DOMAIN batch
      BY <1>0, <1>1, <2>3, <2>10
    <3>2. PICK m \in position..Len(leaves) : leaves[m] = j
      BY <1>1, <2>1, <2>10, <3>1 DEF InsertInv
    <3>3. m # position
      BY <1>0, <2>1, <2>10, <3>2
    <3> QED
      BY <1>1, <1>2, <2>9, <3>2, <3>3
  <2>11. /\ next' \in Seq(Level(level + 1)) /\ Len(next') = Len(next) + 1
         /\ \A m \in 1..Len(next) : next'[m] = next[m]
         /\ next'[Len(next) + 1] = p
    BY <1>2, <1>3, <2>1
  <2>12. \A q \in updatedIndexes' : \E m \in 1..Len(next') : next'[m] = q
    <3> SUFFICES ASSUME NEW q \in updatedIndexes'
                 PROVE  \E m \in 1..Len(next') : next'[m] = q
      OBVIOUS
    <3>1. CASE q = p
      BY <1>2, <2>11, <3>1
    <3>2. CASE q # p
      <4>1. PICK m \in 1..Len(next) : next[m] = q
        BY <1>1, <2>1, <3>2 DEF InsertInv
      <4> QED
        BY <1>2, <2>11, <4>1
    <3> QED
      BY <3>1, <3>2
  <2>13. updatedIndexes' \subseteq Level(level + 1) /\ Len(next') < position'
    BY <1>1, <1>2, <1>3, <1>4, <2>1, <2>11
  <2>14. InsertInv'
    BY <1>1, <1>4, <2>6, <2>7, <2>8, <2>9, <2>10, <2>11, <2>12, <2>13 DEF InsertInv
  <2>15. TreeTypeOK'
    <3>1. DOMAIN batch' \subseteq Nodes
      BY <1>0, <1>1, <1>3, <2>3 DEF TreeTypeOK, Nodes
    <3>2. Level(level) \subseteq Nat /\ Level(level + 1) \subseteq Nat
      BY <1>1, WidthAssumption DEF Level
    <3>3. leaves' \in Seq(Nat) /\ next' \in Seq(Nat) /\ updatedIndexes' \subseteq Nat
      BY <2>9, <2>11, <2>13, <3>2
    <3> QED
      BY <1>1, <1>4, <3>1, <3>3 DEF TreeTypeOK, lockVars
  <2> QED
    BY <1>1, <1>4, <1>5, <2>14, <2>15 DEF Inv
<1> QED
  BY <1>6, <1>7

(* At the end of a level every parent is done: one that was not updated    *)
(* has two children that the batch does not touch.                         *)
LEMMA NextLevelKeeps ==
  ASSUME Inv, NextLevel
  PROVE  Inv'
<1>1. /\ pc = "insert" /\ InsertInv /\ TreeTypeOK /\ StoreIsMerkleTree
      /\ level \in 0..(Depth - 1) /\ level \in Nat /\ level + 1 \in 0..Depth /\ level < Depth
      /\ position > Len(leaves) /\ position \in Nat /\ Len(leaves) \in Nat
  <2>1. /\ pc = "insert" /\ InsertInv /\ TreeTypeOK /\ StoreIsMerkleTree
        /\ level < Depth /\ position > Len(leaves)
    BY DEF NextLevel, Inv
  <2>2. level \in 0..Depth /\ position \in Nat /\ leaves \in Seq(Nat)
    BY <2>1 DEF TreeTypeOK
  <2>3. Len(leaves) \in Nat
    BY <2>2
  <2> QED
    BY <2>1, <2>2, <2>3, DepthAssumption
<1>2. /\ store' = store /\ batch' = batch /\ level' = level + 1 /\ leaves' = next
      /\ next' = <<>> /\ position' = 1 /\ updatedIndexes' = {} /\ pc' = pc
      /\ UNCHANGED <<leafIndex, contract, operations, lockVars>>
  BY DEF NextLevel, dbVars
<1>3. \A n : /\ getLeafFromStorage(n)' = getLeafFromStorage(n)
             /\ getLeafFromBatchOrStorage(n)' = getLeafFromBatchOrStorage(n)
  BY <1>2 DEF getLeafFromBatchOrStorage, getLeafFromStorage
<1>4. StoreIsMerkleTree'
  BY <1>1, <1>3 DEF StoreIsMerkleTree
<1>5. ASSUME NEW p \in Level(level + 1)
      PROVE  ParentInBatch(level, p)
  <2>1. CASE p \in updatedIndexes
    BY <1>1, <2>1 DEF InsertInv
  <2>2. CASE p \notin updatedIndexes
    <3>1. /\ 2 * p \in Level(level) /\ 2 * p + 1 \in Level(level)
          /\ Parent(2 * p) = p /\ Parent(2 * p + 1) = p
      <4>1. p \in Nat
        BY DEF Level
      <4> QED
        BY <1>1, <4>1, Levels
    <3>2. <<level + 1, p>> \notin DOMAIN batch
      BY <1>1, <2>2 DEF InsertInv
    <3>3. position..Len(leaves) = {}
      BY <1>1
    <3>4. <<level, 2 * p>> \notin DOMAIN batch /\ <<level, 2 * p + 1>> \notin DOMAIN batch
      BY <1>1, <2>2, <3>1, <3>3 DEF InsertInv
    <3> QED
      BY <1>1, <3>2, <3>4 DEF ParentInBatch, getLeafFromBatchOrStorage, StoreIsMerkleTree
  <2> QED
    BY <2>1, <2>2
<1>6. LevelsDone'
  <2>1. ASSUME NEW l \in 0..level, NEW p \in Level(l + 1)
        PROVE  ParentInBatch(l, p)
    <3>1. CASE l = level
      BY <1>5, <2>1, <3>1
    <3>2. CASE l # level
      <4>1. l \in 0..(level - 1)
        BY <1>1, <3>2
      <4> QED
        BY <1>1, <4>1 DEF InsertInv, LevelsDone
    <3> QED
      BY <3>1, <3>2
  <2>2. ASSUME NEW l \in 0..level, NEW p \in Level(l + 1)
        PROVE  ParentInBatch(l, p)'
    BY <1>3, <2>1 DEF ParentInBatch
  <2>3. 0..(level' - 1) = 0..level
    BY <1>1, <1>2
  <2> QED
    BY <2>2, <2>3 DEF LevelsDone
<1>7. ASSUME NEW j \in Level(level + 1), <<level + 1, j>> \in DOMAIN batch
      PROVE  \E m \in 1..Len(next) : next[m] = j
  <2>1. j \in updatedIndexes
    BY <1>1, <1>7 DEF InsertInv
  <2> QED
    BY <1>1, <2>1 DEF InsertInv
<1>8. \A n \in DOMAIN batch : n[1] <= level + 1
  <2>1. \A n \in DOMAIN batch : n[1] \in Nat
    BY <1>1 DEF TreeTypeOK, Nodes
  <2> QED
    BY <1>1, <2>1 DEF InsertInv
<1>9. next \in Seq(Level(level + 1))
  BY <1>1 DEF InsertInv
<1>10. InsertInv'
  <2>1. next' \in Seq(Level(level' + 1)) /\ updatedIndexes' \subseteq Level(level' + 1)
        /\ Len(next') < position'
    BY <1>2
  <2> QED
    BY <1>1, <1>2, <1>6, <1>7, <1>8, <1>9, <2>1 DEF InsertInv
<1>11. TreeTypeOK'
  <2>1. leaves' \in Seq(Nat) /\ next' \in Seq(Nat)
    BY <1>1, <1>2 DEF TreeTypeOK
  <2> QED
    BY <1>1, <1>2, <2>1 DEF TreeTypeOK, lockVars
<1> QED
  BY <1>1, <1>2, <1>4, <1>10, <1>11 DEF Inv

(* The batch is written when all levels are done. *)
LEMMA WriteSyncKeeps ==
  ASSUME Inv, WriteSync
  PROVE  Inv'
<1>1. /\ pc = "write" /\ TreeTypeOK /\ AllDone
      /\ pc' = "unlock" /\ store' = Set(batch, store)
      /\ UNCHANGED <<contract, operations, insertVars, lockVars>>
  BY DEF WriteSync, Inv
<1>2. \A n : getLeafFromStorage(n)' = getLeafFromBatchOrStorage(n)
  BY <1>1, ReadAfterWrite
<1>3. StoreIsMerkleTree'
  BY <1>1, <1>2 DEF AllDone, ParentInBatch, StoreIsMerkleTree
<1>4. leafIndex' \in [Values -> Indices \union {NotFound}]
  <2> DEFINE R == [op : Operations, index : Indices, value : Values]
  <2>1. operations \in Seq(R)
    BY <1>1 DEF TreeTypeOK
  <2>2. \A e \in R : LeafIndexWrite(e) \in Indices \union {NotFound}
    BY DEF LeafIndexWrite
  <2> HIDE DEF R
  <2>3. /\ Len(operations) \in Nat /\ DOMAIN operations = 1..Len(operations)
        /\ \A k \in 1..Len(operations) : operations[k] \in R
    BY <2>1
  <2>4. ASSUME NEW v \in Values, OnValue(v) # {}
        PROVE  LeafIndexWrite(operations[Max(OnValue(v))]) \in Indices \union {NotFound}
    <3>1. OnValue(v) \in SUBSET (1..Len(operations))
      BY <2>3 DEF OnValue
    <3>2. Max(OnValue(v)) \in 1..Len(operations)
      BY <2>3, <2>4, <3>1, MaxOfSet
    <3> QED
      BY <2>2, <2>3, <3>2
  <2> QED
    BY <1>1, <2>4 DEF WriteSync, TreeTypeOK
<1>5. TreeTypeOK'
  <2>1. DOMAIN store' \subseteq Nodes
    BY <1>1 DEF Set, TreeTypeOK
  <2> QED
    BY <1>1, <1>4, <2>1 DEF TreeTypeOK, insertVars, lockVars
<1> QED
  BY <1>1, <1>3, <1>5 DEF Inv

(* Every step of the committing job keeps the invariant. *)
LEMMA TreeNextKeeps ==
  ASSUME Inv, TreeNext
  PROVE  Inv'
<1>1. CASE LockTree \/ LockForProgress \/ TreeLocked
  <2>1. /\ (pc = "insert" /\ level = Depth) \/ pc \in {"handle", "lock"}
        /\ pc' \in {"lock", "write"} /\ writer' \in {"waiting", "locked"}
        /\ UNCHANGED <<dbVars, contract, operations, insertVars, readers, waiting>>
    BY <1>1 DEF LockTree, LockForProgress, Lock, TreeLocked, LockAcquired
  <2>2. UNCHANGED <<store, insertVars>>
    BY <2>1 DEF dbVars
  <2>3. StoreIsMerkleTree' /\ AllDone'
    <3>1. CASE pc = "insert" /\ level = Depth
      BY <3>1, <2>2, TreeUnchanged DEF Inv, InsertInv, LevelsDone, AllDone
    <3>2. CASE pc = "handle"
      <4>1. \A n : getLeafFromBatchOrStorage(n) = getLeafFromStorage(n)
        BY <3>2 DEF Inv, getLeafFromBatchOrStorage
      <4>2. AllDone
        BY <4>1 DEF Inv, StoreIsMerkleTree, AllDone, ParentInBatch
      <4> QED
        BY <4>2, <2>2, TreeUnchanged DEF Inv
    <3>3. CASE pc = "lock"
      BY <3>3, <2>2, TreeUnchanged DEF Inv
    <3> QED
      BY <2>1, <3>1, <3>2, <3>3
  <2>4. TreeTypeOK'
    BY <2>1 DEF Inv, TreeTypeOK, dbVars, insertVars
  <2> QED
    BY <2>1, <2>3, <2>4 DEF Inv
<1>2. CASE UnlockTree
  <2>1. /\ pc' = "handle" /\ writer' = "none" /\ store' = store
        /\ operations' = <<>> /\ DOMAIN batch' = {}
        /\ level' = 0 /\ leaves' = <<>> /\ next' = <<>> /\ position' = 1 /\ updatedIndexes' = {}
        /\ readers' = readers \union waiting /\ waiting' = {}
        /\ UNCHANGED <<leafIndex, contract>>
    BY <1>2 DEF UnlockTree, Unlock, dbVars
  <2>2. StoreIsMerkleTree'
    <3>1. \A n : getLeafFromStorage(n)' = getLeafFromStorage(n)
      BY <2>1 DEF getLeafFromStorage
    <3> QED
      BY <3>1 DEF Inv, StoreIsMerkleTree
  <2>3. TreeTypeOK'
    <3>1. /\ operations' \in Seq([op : Operations, index : Indices, value : Values])
          /\ leaves' \in Seq(Nat) /\ next' \in Seq(Nat) /\ 0 \in 0..Depth
      BY <2>1, DepthAssumption
    <3> QED
      BY <2>1, <3>1 DEF Inv, TreeTypeOK
  <2> QED
    BY <2>1, <2>2, <2>3 DEF Inv
<1>3. ASSUME NEW op \in Operations, NEW i \in Indices, NEW v \in Values, HandleEVMLog(op, i, v)
      PROVE  Inv'
  <2>1. /\ pc = "handle" /\ pc' = "handle"
        /\ contract' = [contract EXCEPT ![i] = IF op = "Addition" THEN v ELSE Empty]
        /\ operations' = Append(operations, [op |-> op, index |-> i, value |-> v])
        /\ UNCHANGED <<dbVars, insertVars, lockVars>>
    BY <1>3 DEF HandleEVMLog
  <2>2. UNCHANGED <<store, insertVars>>
    BY <2>1 DEF dbVars
  <2>3. StoreIsMerkleTree' /\ DOMAIN batch' = {}
    BY <2>1, <2>2, TreeUnchanged DEF Inv, insertVars
  <2>4. contract' \in [Indices -> Values \union {Empty}]
    BY <2>1 DEF Inv, TreeTypeOK
  <2>5. operations' \in Seq([op : Operations, index : Indices, value : Values])
    <3> DEFINE R == [op : Operations, index : Indices, value : Values]
               e == [op |-> op, index |-> i, value |-> v]
    <3>1. operations \in Seq(R) /\ e \in R /\ operations' = Append(operations, e)
      BY <2>1 DEF Inv, TreeTypeOK
    <3> HIDE DEF R, e
    <3>2. operations' \in Seq(R)
      BY <3>1
    <3> QED
      BY <3>2 DEF R
  <2>6. TreeTypeOK'
    BY <2>1, <2>4, <2>5 DEF Inv, TreeTypeOK, dbVars, insertVars, lockVars
  <2> QED
    BY <2>1, <2>3, <2>6 DEF Inv
<1> QED
  BY <1>1, <1>2, <1>3, CommitOperationsKeeps, InsertNodeKeeps, NextLevelKeeps, WriteSyncKeeps
     DEF TreeNext, CommitStep

(* A step of a reader changes at most who holds the lock for reading and   *)
(* who waits for it.                                                       *)
LEMMA ReadersKeep ==
  ASSUME Inv, readers' \in SUBSET Requests, waiting' \in SUBSET Requests,
         UNCHANGED <<dbVars, contract, operations, pc, insertVars, writer>>
  PROVE  Inv'
<1>1. UNCHANGED <<store, insertVars>>
  BY DEF dbVars
<1>2. /\ StoreIsMerkleTree' /\ pc' = pc /\ batch' = batch
      /\ AllDone => AllDone'
      /\ InsertInv => InsertInv'
  BY <1>1, TreeUnchanged DEF Inv, insertVars
<1>3. TreeTypeOK'
  BY DEF Inv, TreeTypeOK, dbVars, insertVars
<1> QED
  BY <1>2, <1>3 DEF Inv

(* For every depth, every hash function and every list of operations the   *)
(* database holds a Merkle tree at every moment: InsertLeaves, which       *)
(* recomputes each touched branch once, in a slice that it overwrites,     *)
(* leaves no inner node that is not the hash of its children.              *)
THEOREM StoreAlwaysMerkleTree == TreeSpec => []StoreIsMerkleTree
<1>1. Inv /\ UNCHANGED treeVars => Inv'
  <2> SUFFICES ASSUME Inv, UNCHANGED treeVars
               PROVE  Inv'
    OBVIOUS
  <2>1. readers' \in SUBSET Requests /\ waiting' \in SUBSET Requests
    BY DEF Inv, TreeTypeOK, treeVars, lockVars
  <2> QED
    BY <2>1, ReadersKeep DEF treeVars, lockVars
<1>2. Inv /\ [TreeNext]_treeVars => Inv'
  BY <1>1, TreeNextKeeps
<1>3. Inv => StoreIsMerkleTree
  BY DEF Inv
<1> QED
  BY <1>2, <1>3, InitInv, PTL DEF TreeSpec

-----------------------------------------------------------------------------
(***************************************************************************)
(* The leaves of the database and those of the contract.                   *)
(***************************************************************************)

(* A leaf, and the index under a value, once the operations in the buffer  *)
(* are written.                                                            *)
Pending(i) ==
  IF OnLeaf(i) = {} THEN getLeafFromStorage(<<0, i>>) ELSE LeafWrite(operations[Max(OnLeaf(i))])

PendingIndex(v) ==
  IF OnValue(v) = {} THEN leafIndex[v] ELSE LeafIndexWrite(operations[Max(OnValue(v))])

(* What is pending is the contract's state, the batch holds what is        *)
(* pending while it is filled and written, and after that the database     *)
(* does.                                                                   *)
ContractInv ==
  /\ \A i \in Indices : Pending(i) = contract[i]
  /\ \A i \in Indices, v \in Values : PendingIndex(v) = i <=> contract[i] = v
  /\ LeafIndexAgrees
  /\ pc \in {"insert", "lock", "write"} =>
       \A i \in Indices : getLeafFromBatchOrStorage(<<0, i>>) = Pending(i)
  /\ pc = "unlock" => \A i \in Indices : getLeafFromStorage(<<0, i>>) = contract[i]

(* A step that leaves the database, the buffer and the contract alone      *)
(* keeps ContractInv if the leaves read through the batch stay.            *)
LEMMA ContractUnchanged ==
  ASSUME ContractInv, UNCHANGED <<dbVars, contract, operations>>,
         pc' \in {"insert", "lock", "write"} =>
           \A i \in Indices : getLeafFromBatchOrStorage(<<0, i>>)' = Pending(i),
         pc' = "unlock" => pc = "unlock"
  PROVE  ContractInv'
<1>1. store' = store /\ leafIndex' = leafIndex /\ contract' = contract /\ operations' = operations
  BY DEF dbVars
<1>2. \A n : getLeafFromStorage(n)' = getLeafFromStorage(n)
  BY <1>1 DEF getLeafFromStorage
<1>3. \A i : Pending(i)' = Pending(i)
  BY <1>1, <1>2 DEF Pending, OnLeaf, LeafWrite
<1>4. \A v : PendingIndex(v)' = PendingIndex(v)
  BY <1>1 DEF PendingIndex, OnValue, LeafIndexWrite
<1> QED
  BY <1>1, <1>2, <1>3, <1>4 DEF ContractInv, LeafIndexAgrees

(* The contract's guards keep it in one view with its index. *)
LEMMA HandleKeepsContract ==
  ASSUME Inv, ContractInv, NEW op \in Operations, NEW i \in Indices, NEW v \in Values,
         HandleEVMLog(op, i, v)
  PROVE  ContractInv'
<1> DEFINE e == [op |-> op, index |-> i, value |-> v]
           n == Len(operations) + 1
           R == [op : Operations, index : Indices, value : Values]
<1>1. e.op = op /\ e.index = i /\ e.value = v /\ e \in R
  OBVIOUS
<1>2. /\ pc = "handle" /\ pc' = "handle" /\ store' = store /\ leafIndex' = leafIndex
      /\ IF op = "Addition" THEN contract[i] = Empty /\ \A j \in Indices : contract[j] # v
                            ELSE contract[i] = v
      /\ contract' = [contract EXCEPT ![i] = LeafWrite(e)]
      /\ operations' = Append(operations, e)
      /\ operations \in Seq(R) /\ contract \in [Indices -> Values \union {Empty}]
  BY <1>1 DEF HandleEVMLog, dbVars, LeafWrite, Inv, TreeTypeOK
<1> HIDE DEF e, R
<1>3. /\ n \in Nat /\ n \notin DOMAIN operations /\ DOMAIN operations' = DOMAIN operations \union {n}
      /\ DOMAIN operations = 1..Len(operations) /\ Len(operations) \in Nat
      /\ \A k \in DOMAIN operations : operations'[k] = operations[k] /\ k <= n
      /\ operations'[n] = e
  BY <1>1, <1>2
<1> HIDE DEF n
<1>4. \A S : S \subseteq DOMAIN operations /\ S # {} => Max(S) \in DOMAIN operations
  BY <1>3, MaxOfSet
<1>5. \A S : S \subseteq DOMAIN operations => Max(S \union {n}) = n
  <2> SUFFICES ASSUME NEW S, S \subseteq DOMAIN operations
               PROVE  Max(S \union {n}) = n
    OBVIOUS
  <2>1. S \union {n} \in SUBSET Nat /\ n \in S \union {n} /\ \A k \in S \union {n} : k <= n
    BY <1>3
  <2> QED
    BY <2>1, MaxIs
<1>6. \A m : getLeafFromStorage(m)' = getLeafFromStorage(m)
  BY <1>2 DEF getLeafFromStorage
<1>7. ASSUME NEW j \in Indices
      PROVE  Pending(j)' = IF j = i THEN LeafWrite(e) ELSE Pending(j)
  <2>1. OnLeaf(j)' = IF j = i THEN OnLeaf(j) \union {n} ELSE OnLeaf(j)
    BY <1>1, <1>3 DEF OnLeaf
  <2>2. OnLeaf(j) \subseteq DOMAIN operations
    BY DEF OnLeaf
  <2>3. Pending(j)' = IF OnLeaf(j)' = {} THEN getLeafFromStorage(<<0, j>>)
                      ELSE LeafWrite(operations'[Max(OnLeaf(j)')])
    BY <1>6 DEF Pending, LeafWrite
  <2>4. CASE j = i
    BY <1>3, <1>5, <2>1, <2>2, <2>3, <2>4
  <2>5. CASE j # i
    BY <1>3, <1>4, <2>1, <2>2, <2>3, <2>5 DEF Pending
  <2> QED
    BY <2>4, <2>5
<1>8. ASSUME NEW w \in Values
      PROVE  PendingIndex(w)' = IF w = v THEN LeafIndexWrite(e) ELSE PendingIndex(w)
  <2>1. OnValue(w)' = IF w = v THEN OnValue(w) \union {n} ELSE OnValue(w)
    BY <1>1, <1>3 DEF OnValue
  <2>2. OnValue(w) \subseteq DOMAIN operations
    BY DEF OnValue
  <2>3. PendingIndex(w)' = IF OnValue(w)' = {} THEN leafIndex[w]
                           ELSE LeafIndexWrite(operations'[Max(OnValue(w)')])
    BY <1>2 DEF PendingIndex, LeafIndexWrite
  <2>4. CASE w = v
    BY <1>3, <1>5, <2>1, <2>2, <2>3, <2>4
  <2>5. CASE w # v
    BY <1>3, <1>4, <2>1, <2>2, <2>3, <2>5 DEF PendingIndex
  <2> QED
    BY <2>4, <2>5
<1>9. \A j \in Indices : contract'[j] = IF j = i THEN LeafWrite(e) ELSE contract[j]
  BY <1>2
<1>10. \A j \in Indices : Pending(j)' = contract'[j]
  BY <1>7, <1>9 DEF ContractInv
<1>11. ASSUME NEW j \in Indices, NEW w \in Values
       PROVE  PendingIndex(w)' = j <=> contract'[j] = w
  <2>1. PendingIndex(w) = j <=> contract[j] = w
    BY DEF ContractInv
  <2>2. PendingIndex(v) = j <=> contract[j] = v
    BY DEF ContractInv
  <2>3. PendingIndex(w) = i <=> contract[i] = w
    BY DEF ContractInv
  <2>4. CASE op = "Addition"
    <3>1. LeafWrite(e) = v /\ LeafIndexWrite(e) = i
      BY <1>1, <2>4 DEF LeafWrite, LeafIndexWrite
    <3> QED
      BY <1>2, <1>8, <1>9, <2>1, <2>3, <2>4, <3>1, SentinelAssumption
  <2>5. CASE op # "Addition"
    <3>1. LeafWrite(e) = Empty /\ LeafIndexWrite(e) = NotFound
      BY <1>1, <2>5 DEF LeafWrite, LeafIndexWrite
    <3>2. contract[i] = v /\ PendingIndex(v) = i
      BY <1>2, <2>5 DEF ContractInv
    <3> QED
      BY <1>8, <1>9, <2>1, <2>2, <2>3, <3>1, <3>2, SentinelAssumption
  <2> QED
    BY <2>4, <2>5
<1>12. LeafIndexAgrees'
  BY <1>2, <1>6 DEF ContractInv, LeafIndexAgrees
<1> QED
  BY <1>2, <1>10, <1>11, <1>12 DEF ContractInv

(* Every step of the committing job keeps ContractInv. *)
LEMMA TreeNextKeepsContract ==
  ASSUME Inv, ContractInv, TreeNext
  PROVE  ContractInv'
<1>1. CASE CommitOperations
  <2>1. /\ pc = "handle" /\ pc' = "insert" /\ UNCHANGED <<dbVars, contract, operations>>
        /\ store' = store
        /\ DOMAIN batch' = {<<0, i>> : i \in {j \in Indices : OnLeaf(j) # {}}}
        /\ \A n \in DOMAIN batch' : batch'[n] = LeafWrite(operations[Max(OnLeaf(n[2]))])
    BY <1>1 DEF CommitOperations, dbVars
  <2>2. ASSUME NEW i \in Indices
        PROVE  getLeafFromBatchOrStorage(<<0, i>>)' = Pending(i)
    <3>1. <<0, i>> \in DOMAIN batch' <=> OnLeaf(i) # {}
      BY <2>1
    <3>2. <<0, i>> \in DOMAIN batch' => batch'[<<0, i>>] = LeafWrite(operations[Max(OnLeaf(i))])
      BY <2>1
    <3> QED
      BY <2>1, <3>1, <3>2 DEF getLeafFromBatchOrStorage, getLeafFromStorage, Pending
  <2> QED
    BY <2>1, <2>2, ContractUnchanged
<1>2. CASE InsertNode
  <2>1. pc = "insert" /\ pc' = "insert" /\ UNCHANGED <<dbVars, contract, operations>>
        /\ store' = store /\ level \in Nat
    BY <1>2 DEF InsertNode, dbVars, Inv, TreeTypeOK
  <2>2. PICK p, h : batch' = batch \/ batch' = Set([n \in {<<level + 1, p>>} |-> h], batch)
    BY <1>2 DEF InsertNode
  <2>3. ASSUME NEW i \in Indices
        PROVE  getLeafFromBatchOrStorage(<<0, i>>)' = getLeafFromBatchOrStorage(<<0, i>>)
    <3>1. <<0, i>> # <<level + 1, p>>
      BY <2>1
    <3>2. CASE batch' = batch
      BY <2>1, <3>2 DEF getLeafFromBatchOrStorage, getLeafFromStorage
    <3>3. CASE batch' = Set([n \in {<<level + 1, p>>} |-> h], batch)
      <4>1. /\ <<0, i>> \in DOMAIN batch' <=> <<0, i>> \in DOMAIN batch
            /\ <<0, i>> \in DOMAIN batch => batch'[<<0, i>>] = batch[<<0, i>>]
        BY <3>1, <3>3 DEF Set
      <4> QED
        BY <2>1, <4>1 DEF getLeafFromBatchOrStorage, getLeafFromStorage
    <3> QED
      BY <2>2, <3>2, <3>3
  <2>4. \A i \in Indices : getLeafFromBatchOrStorage(<<0, i>>)' = Pending(i)
    BY <2>1, <2>3 DEF ContractInv
  <2> QED
    BY <2>1, <2>4, ContractUnchanged
<1>3. CASE NextLevel \/ LockTree \/ LockForProgress \/ TreeLocked
  <2>1. /\ pc \in {"handle", "insert", "lock"} /\ pc' \in {"insert", "lock", "write"}
        /\ UNCHANGED <<dbVars, contract, operations, batch>>
        /\ pc = "handle" => operations = <<>>
    BY <1>3 DEF NextLevel, LockTree, LockForProgress, TreeLocked, insertVars
  <2>2. ASSUME NEW i \in Indices
        PROVE  getLeafFromBatchOrStorage(<<0, i>>)' = Pending(i)
    <3>1. getLeafFromBatchOrStorage(<<0, i>>)' = getLeafFromBatchOrStorage(<<0, i>>)
      BY <2>1 DEF dbVars, getLeafFromBatchOrStorage, getLeafFromStorage
    <3>2. CASE pc = "handle"
      <4>1. DOMAIN batch = {} /\ OnLeaf(i) = {}
        BY <2>1, <3>2 DEF Inv, OnLeaf
      <4> QED
        BY <3>1, <4>1 DEF getLeafFromBatchOrStorage, Pending
    <3>3. CASE pc # "handle"
      BY <2>1, <3>1, <3>3 DEF ContractInv
    <3> QED
      BY <3>2, <3>3
  <2> QED
    BY <2>1, <2>2, ContractUnchanged
<1>4. CASE WriteSync
  <2>1. /\ pc = "write" /\ pc' = "unlock" /\ store' = Set(batch, store)
        /\ \A v \in Values : leafIndex'[v] = PendingIndex(v)
        /\ contract' = contract /\ operations' = operations
    BY <1>4 DEF WriteSync, PendingIndex
  <2>2. \A i \in Indices : getLeafFromStorage(<<0, i>>)' = contract[i]
    BY <2>1, ReadAfterWrite DEF ContractInv
  <2>3. \A i \in Indices : Pending(i)' = contract[i]
    <3> SUFFICES ASSUME NEW i \in Indices
                 PROVE  Pending(i)' = contract[i]
      OBVIOUS
    <3>1. OnLeaf(i)' = OnLeaf(i)
      BY <2>1 DEF OnLeaf
    <3>2. Pending(i) = contract[i]
      BY DEF ContractInv
    <3> QED
      BY <2>1, <2>2, <3>1, <3>2 DEF Pending, LeafWrite
  <2>4. \A v \in Values : PendingIndex(v)' = PendingIndex(v)
    <3> SUFFICES ASSUME NEW v \in Values
                 PROVE  PendingIndex(v)' = PendingIndex(v)
      OBVIOUS
    <3>1. OnValue(v)' = OnValue(v)
      BY <2>1 DEF OnValue
    <3> QED
      BY <2>1, <3>1 DEF PendingIndex, LeafIndexWrite
  <2>5. \A i \in Indices, v \in Values : PendingIndex(v) = i <=> contract[i] = v
    BY DEF ContractInv
  <2>6. LeafIndexAgrees'
    BY <2>1, <2>2, <2>5 DEF LeafIndexAgrees
  <2>7. \A i \in Indices : Pending(i)' = contract'[i]
    BY <2>1, <2>3
  <2>8. \A i \in Indices, v \in Values : PendingIndex(v)' = i <=> contract'[i] = v
    BY <2>1, <2>4, <2>5
  <2>9. /\ pc' \notin {"insert", "lock", "write"}
        /\ \A i \in Indices : getLeafFromStorage(<<0, i>>)' = contract'[i]
    BY <2>1, <2>2
  <2> QED
    BY <2>6, <2>7, <2>8, <2>9 DEF ContractInv
<1>5. CASE UnlockTree
  <2>1. /\ pc = "unlock" /\ pc' = "handle" /\ operations' = <<>>
        /\ store' = store /\ leafIndex' = leafIndex /\ contract' = contract
    BY <1>5 DEF UnlockTree, dbVars
  <2>2. \A n : getLeafFromStorage(n)' = getLeafFromStorage(n)
    BY <2>1 DEF getLeafFromStorage
  <2>3. \A i : OnLeaf(i)' = {} /\ OnValue(i)' = {}
    BY <2>1 DEF OnLeaf, OnValue
  <2>4. /\ \A i \in Indices : Pending(i)' = getLeafFromStorage(<<0, i>>)
        /\ \A v \in Values : PendingIndex(v)' = leafIndex[v]
    BY <2>1, <2>2, <2>3 DEF Pending, PendingIndex
  <2>5. \A i \in Indices : getLeafFromStorage(<<0, i>>) = contract[i]
    BY <2>1 DEF ContractInv
  <2>6. LeafIndexAgrees'
    BY <2>1, <2>2 DEF ContractInv, LeafIndexAgrees
  <2>7. \A i \in Indices, v \in Values : leafIndex[v] = i <=> contract[i] = v
    BY <2>5 DEF ContractInv, LeafIndexAgrees
  <2>8. \A i \in Indices : Pending(i)' = contract'[i]
    BY <2>1, <2>4, <2>5
  <2>9. \A i \in Indices, v \in Values : PendingIndex(v)' = i <=> contract'[i] = v
    BY <2>1, <2>4, <2>7
  <2> QED
    BY <2>1, <2>6, <2>8, <2>9 DEF ContractInv
<1> QED
  BY <1>1, <1>2, <1>3, <1>4, <1>5, HandleKeepsContract DEF TreeNext, CommitStep

(* An empty database is an empty contract. *)
LEMMA InitContract ==
  ASSUME TreeInit
  PROVE  ContractInv
<1>1. \A i : OnLeaf(i) = {} /\ OnValue(i) = {}
  BY DEF TreeInit, OnLeaf, OnValue
<1>2. \A i : getLeafFromStorage(<<0, i>>) = Empty
  BY EmptyBranchAssumption DEF TreeInit, getLeafFromStorage
<1>3. /\ \A i \in Indices : contract[i] = Empty
      /\ \A v \in Values : leafIndex[v] = NotFound
      /\ pc = "handle"
  BY DEF TreeInit
<1> QED
  BY <1>1, <1>2, <1>3, SentinelAssumption
     DEF ContractInv, Pending, PendingIndex, LeafIndexAgrees

(* A step that changes neither the database nor what the job has in its    *)
(* hands keeps ContractInv.                                                *)
LEMMA ReadersKeepContract ==
  ASSUME ContractInv, UNCHANGED <<dbVars, contract, operations, pc, insertVars>>
  PROVE  ContractInv'
<1>1. \A n : getLeafFromBatchOrStorage(n)' = getLeafFromBatchOrStorage(n)
  BY DEF dbVars, insertVars, getLeafFromBatchOrStorage, getLeafFromStorage
<1>2. pc' \in {"insert", "lock", "write"} =>
        \A i \in Indices : getLeafFromBatchOrStorage(<<0, i>>)' = Pending(i)
  BY <1>1 DEF ContractInv
<1> QED
  BY <1>2, ContractUnchanged

(* The leaves of the database are values or empty. *)
LeavesInv == \A i \in Indices : getLeafFromStorage(<<0, i>>) \in Values \union {Empty}

(* WriteSync brings the database from one state of the contract to the     *)
(* next.                                                                   *)
LEMMA WriteSyncCommits ==
  ASSUME Inv, ContractInv, WriteSync
  PROVE  /\ \A i \in Indices : getLeafFromStorage(<<0, i>>)' = contract[i]
         /\ \A i \in Indices, v \in Values : leafIndex'[v] = i <=> contract[i] = v
         /\ contract' = contract
<1>1. /\ pc = "write" /\ store' = Set(batch, store) /\ contract' = contract
      /\ \A v \in Values : leafIndex'[v] = PendingIndex(v)
  BY DEF WriteSync, PendingIndex
<1>2. \A i \in Indices : getLeafFromStorage(<<0, i>>)' = getLeafFromBatchOrStorage(<<0, i>>)
  BY <1>1, ReadAfterWrite
<1>3. \A i \in Indices : getLeafFromBatchOrStorage(<<0, i>>) = contract[i]
  BY <1>1 DEF ContractInv
<1>4. \A i \in Indices, v \in Values : PendingIndex(v) = i <=> contract[i] = v
  BY DEF ContractInv
<1> QED
  BY <1>1, <1>2, <1>3, <1>4

(* The database and the contract change in no other step together, and     *)
(* the database in no other step at all.                                   *)
LEMMA OtherTreeSteps ==
  ASSUME TreeNext, ~WriteSync
  PROVE  /\ store' = store /\ leafIndex' = leafIndex
         /\ \/ contract' = contract
            \/ \E op \in Operations, i \in Indices, v \in Values : HandleEVMLog(op, i, v)
<1>1. CASE CommitOperations \/ InsertNode \/ NextLevel
  BY <1>1 DEF CommitOperations, InsertNode, NextLevel, dbVars
<1>2. CASE LockTree \/ LockForProgress \/ TreeLocked \/ UnlockTree
  BY <1>2 DEF LockTree, LockForProgress, TreeLocked, UnlockTree, dbVars
<1>3. CASE \E op \in Operations, i \in Indices, v \in Values : HandleEVMLog(op, i, v)
  BY <1>3 DEF HandleEVMLog, dbVars
<1> QED
  BY <1>1, <1>2, <1>3 DEF TreeNext, CommitStep

(* Every step of the committing job keeps the leaves values or empty. *)
LEMMA TreeNextKeepsLeaves ==
  ASSUME Inv, ContractInv, LeavesInv, TreeNext
  PROVE  LeavesInv'
<1>1. CASE WriteSync
  <2>1. \A i \in Indices : contract[i] \in Values \union {Empty}
    BY DEF Inv, TreeTypeOK
  <2>2. \A i \in Indices : getLeafFromStorage(<<0, i>>)' = contract[i]
    BY <1>1, WriteSyncCommits
  <2> QED
    BY <2>1, <2>2 DEF LeavesInv
<1>2. CASE ~WriteSync
  BY <1>2, OtherTreeSteps DEF LeavesInv, getLeafFromStorage
<1> QED
  BY <1>1, <1>2

-----------------------------------------------------------------------------
(***************************************************************************)
(* The leaves of a Merkle tree determine it.                               *)
(***************************************************************************)

(* The children of a node are nodes of the level below. *)
LEMMA Children ==
  ASSUME NEW l \in 0..(Depth - 1), NEW p \in Level(l + 1)
  PROVE  2 * p \in Level(l) /\ 2 * p + 1 \in Level(l)
<1>1. Width[l] = 2 * Width[l + 1] /\ Width[l] \in Nat /\ Width[l + 1] \in Nat
  BY Levels
<1> QED
  BY <1>1 DEF Level

(* Nodes whose parents are the hashes of their children are the tree of    *)
(* their leaves, at every level: if not, look at the lowest level where    *)
(* they are not.                                                           *)
LEMMA TreeIsUnique ==
  ASSUME NEW f \in [Indices -> Values \union {Empty}], NEW G,
         \A i \in Indices : G[<<0, i>>] = f[i],
         \A l \in 0..(Depth - 1) : \A p \in Level(l + 1) :
           G[<<l + 1, p>>] = Hash(G[<<l, 2 * p>>], G[<<l, 2 * p + 1>>])
  PROVE  \A l \in 0..Depth : \A p \in Level(l) : G[<<l, p>>] = TreeOf(f)[<<l, p>>]
<1> DEFINE Differ == {l \in 0..Depth : \E p \in Level(l) : G[<<l, p>>] # TreeOf(f)[<<l, p>>]}
<1>1. SUFFICES ASSUME Differ # {}
               PROVE  FALSE
  OBVIOUS
<1>2. PICK m \in Differ : \A l \in Differ : m <= l
  <2>1. Differ \in SUBSET Nat
    OBVIOUS
  <2> HIDE DEF Differ
  <2> QED
    BY <1>1, <2>1, LeastOfSet
<1>3. PICK p \in Level(m) : G[<<m, p>>] # TreeOf(f)[<<m, p>>]
  OBVIOUS
<1>4. m # 0
  BY <1>3, TreeOfAssumption DEF Indices
<1>5. PICK k \in 0..(Depth - 1) : m = k + 1 /\ k \notin Differ
  <2>1. m \in 0..Depth /\ m - 1 \in 0..(Depth - 1) /\ m = (m - 1) + 1 /\ ~(m <= m - 1)
    BY <1>4, DepthAssumption
  <2>2. m - 1 \notin Differ
    <3> HIDE DEF Differ
    <3> QED
      BY <1>2, <2>1
  <2> HIDE DEF Differ
  <2> QED
    BY <2>1, <2>2
<1>6. k \in 0..Depth /\ 2 * p \in Level(k) /\ 2 * p + 1 \in Level(k)
  BY <1>5, Children, DepthAssumption
<1>7. G[<<k, 2 * p>>] = TreeOf(f)[<<k, 2 * p>>] /\ G[<<k, 2 * p + 1>>] = TreeOf(f)[<<k, 2 * p + 1>>]
  BY <1>5, <1>6
<1>8. G[<<k + 1, p>>] = Hash(G[<<k, 2 * p>>], G[<<k, 2 * p + 1>>])
  BY <1>5
<1>9. TreeOf(f)[<<k + 1, p>>] = Hash(TreeOf(f)[<<k, 2 * p>>], TreeOf(f)[<<k, 2 * p + 1>>])
  BY <1>5, TreeOfAssumption
<1> QED
  BY <1>3, <1>5, <1>7, <1>8, <1>9
=============================================================================

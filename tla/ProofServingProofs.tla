------------------------- MODULE ProofServingProofs -------------------------
(***************************************************************************)
(* Proofs about the tree together with its readers: every Merkle proof     *)
(* that is answered verifies, and the database follows the contract, for   *)
(* every depth, every hash function and any number of requests.            *)
(***************************************************************************)
EXTENDS ProofServing, TreeCommitProofs

(* The mutex: the job writes while no request reads. *)
LockInv ==
  /\ writer = "locked" <=> pc \in {"write", "unlock"}
  /\ writer = "locked" => readers = {}

(* A request under way.  A request that reads a path holds the lock, its   *)
(* leaf is the one of the tree, and what it has computed so far is the     *)
(* node at its place in the tree.                                          *)
RequestInv(r) ==
  /\ req[r].at \in {"located", "locking"} => req[r].level = 0
  /\ req[r].at = "path" =>
       /\ r \in readers
       /\ req[r].leaf = getLeafFromStorage(<<0, req[r].index>>)
       /\ req[r].computed = getLeafFromStorage(<<req[r].level, req[r].pathIndex>>)
  /\ req[r].at = "answered" => req[r].computed = req[r].root

ServeInv ==
  /\ Inv
  /\ TypeOK
  /\ LockInv
  /\ \A r \in Requests : RequestInv(r)

-----------------------------------------------------------------------------
(* The hash of a node and its sibling is the node above them. *)
LEMMA OneLevelUp ==
  ASSUME StoreIsMerkleTree, NEW l \in 0..(Depth - 1), NEW i \in Level(l)
  PROVE  /\ Parent(i) \in Level(l + 1)
         /\ LET node == getLeafFromStorage(<<l, i>>)
                element == getLeafFromStorage(<<l, Sibling(i)>>)
            IN getLeafFromStorage(<<l + 1, Parent(i)>>) =
                 IF i % 2 = 0 THEN Hash(node, element) ELSE Hash(element, node)
<1>1. Parent(i) \in Level(l + 1)
  BY Levels
<1>2. i \in Nat
  BY DEF Level
<1>3. getLeafFromStorage(<<l + 1, Parent(i)>>) =
        Hash(getLeafFromStorage(<<l, 2 * Parent(i)>>), getLeafFromStorage(<<l, 2 * Parent(i) + 1>>))
  BY <1>1 DEF StoreIsMerkleTree
<1>4. CASE i % 2 = 0
  <2>1. 2 * Parent(i) = i /\ Sibling(i) = 2 * Parent(i) + 1
    BY <1>2, <1>4 DEF Parent, Sibling
  <2> QED
    BY <1>1, <1>3, <1>4, <2>1
<1>5. CASE i % 2 # 0
  <2>1. 2 * Parent(i) + 1 = i /\ Sibling(i) = 2 * Parent(i)
    BY <1>2, <1>5 DEF Parent, Sibling
  <2> QED
    BY <1>1, <1>3, <1>5, <2>1
<1> QED
  BY <1>4, <1>5

(* No request is under way at first. *)
LEMMA InitServeInv == Init => ServeInv
<1> SUFFICES ASSUME Init
             PROVE  ServeInv
  OBVIOUS
<1>1. Inv
  BY InitInv DEF Init
<1>2. 0 \in Indices /\ 0 \in 0..Depth /\ 0 \in Level(0)
  BY WidthAssumption, DepthAssumption DEF Indices, Level
<1>3. \A r \in Requests : req[r] = Idle
  BY DEF Init
<1>4. TypeOK
  BY <1>1, <1>2, <1>3 DEF Init, Inv, TypeOK, Idle
<1>5. LockInv
  BY DEF Init, TreeInit, LockInv
<1> QED
  BY <1>1, <1>3, <1>4, <1>5 DEF ServeInv, RequestInv, Idle

(* A step of the job: the database changes only while no request reads. *)
LEMMA TreeStepKeeps ==
  ASSUME ServeInv, TreeNext, UNCHANGED req, overtaken' \subseteq Requests
  PROVE  ServeInv'
<1>1. Inv /\ Inv' /\ TypeOK /\ LockInv
  BY TreeNextKeeps DEF ServeInv
<1>2. TypeOK'
  BY <1>1 DEF Inv, TypeOK
<1>3. LockInv' /\ readers \subseteq readers' /\ (readers # {} => store' = store)
  <2>1. CASE CommitOperations \/ InsertNode \/ NextLevel
    BY <1>1, <2>1 DEF CommitOperations, InsertNode, NextLevel, LockInv, dbVars, lockVars
  <2>2. CASE LockTree \/ LockForProgress \/ TreeLocked \/ UnlockTree
    BY <1>1, <2>2 DEF LockTree, LockForProgress, TreeLocked, UnlockTree, Lock, LockAcquired, Unlock,
                      LockInv, dbVars
  <2>3. CASE WriteSync
    BY <1>1, <2>3 DEF WriteSync, LockInv, lockVars
  <2>4. ASSUME NEW op \in Operations, NEW i \in Indices, NEW v \in Values, HandleEVMLog(op, i, v)
        PROVE  LockInv' /\ readers \subseteq readers' /\ (readers # {} => store' = store)
    BY <1>1, <2>4 DEF HandleEVMLog, LockInv, dbVars, lockVars
  <2> QED
    BY <2>1, <2>2, <2>3, <2>4 DEF TreeNext, CommitStep
<1>4. ASSUME NEW r \in Requests
      PROVE  RequestInv(r)'
  <2>1. RequestInv(r) /\ req'[r] = req[r]
    BY DEF ServeInv
  <2>2. CASE req[r].at = "path"
    <3>1. r \in readers /\ r \in readers' /\ store' = store
      BY <1>3, <2>1, <2>2 DEF RequestInv
    <3> QED
      BY <2>1, <2>2, <3>1 DEF RequestInv, getLeafFromStorage
  <2>3. CASE req[r].at # "path"
    BY <2>1, <2>3 DEF RequestInv
  <2> QED
    BY <2>2, <2>3
<1> QED
  BY <1>1, <1>2, <1>3, <1>4 DEF ServeInv

(* A request steps: the database stays, and so do the other requests and   *)
(* their hold on the lock.                                                 *)
LEMMA RequestStepKeeps ==
  ASSUME ServeInv, NEW r \in Requests, NEW new, req' = [req EXCEPT ![r] = new], Reads,
         overtaken' \subseteq Requests,
         writer' = writer, readers' \in SUBSET Requests, waiting' \in SUBSET Requests,
         readers \ {r} \subseteq readers', writer = "locked" => readers' = {},
         new = [f \in DOMAIN Idle |-> new[f]],
         new.at \in {"idle", "located", "locking", "path", "answered"},
         new.asked \in Values \union {Empty}, new.index \in Indices,
         new.level \in 0..Depth, new.pathIndex \in Level(new.level),
         new.at \in {"located", "locking"} => new.level = 0,
         new.at = "path" =>
           /\ r \in readers' /\ new.leaf = getLeafFromStorage(<<0, new.index>>)
           /\ new.computed = getLeafFromStorage(<<new.level, new.pathIndex>>),
         new.at = "answered" => new.computed = new.root
  PROVE  ServeInv'
<1>1. Inv /\ TypeOK /\ LockInv /\ UNCHANGED <<dbVars, contract, operations, pc, insertVars, writer>>
  BY DEF ServeInv, Reads
<1>2. Inv'
  BY <1>1, ReadersKeep
<1>3. /\ DOMAIN req' = Requests /\ req'[r] = new
      /\ \A q \in Requests \ {r} : req'[q] = req[q]
  BY <1>1 DEF TypeOK
<1>4. TypeOK'
  <2>1. ASSUME NEW q \in Requests
        PROVE  /\ req'[q] = [f \in DOMAIN Idle |-> req'[q][f]]
               /\ req'[q].at \in {"idle", "located", "locking", "path", "answered"}
               /\ req'[q].asked \in Values \union {Empty}
               /\ req'[q].index \in Indices
               /\ req'[q].level \in 0..Depth
               /\ req'[q].pathIndex \in Level(req'[q].level)
    <3>1. CASE q = r
      BY <1>3, <3>1
    <3>2. CASE q # r
      BY <1>1, <1>3, <3>2 DEF TypeOK
    <3> QED
      BY <3>1, <3>2
  <2>2. TreeTypeOK'
    BY <1>2 DEF Inv
  <2> QED
    BY <1>3, <2>1, <2>2 DEF TypeOK, Idle, Level, Indices
<1>5. LockInv'
  BY <1>1 DEF LockInv
<1>6. \A n : getLeafFromStorage(n)' = getLeafFromStorage(n)
  BY <1>1 DEF getLeafFromStorage, dbVars
<1>7. ASSUME NEW q \in Requests
      PROVE  RequestInv(q)'
  <2>1. CASE q = r
    BY <1>3, <1>6, <2>1 DEF RequestInv
  <2>2. CASE q # r
    <3>1. RequestInv(q) /\ req'[q] = req[q] /\ (q \in readers => q \in readers')
      BY <1>3, <2>2 DEF ServeInv
    <3> QED
      BY <1>6, <3>1 DEF RequestInv
  <2> QED
    BY <2>1, <2>2
<1> QED
  BY <1>2, <1>4, <1>5, <1>7 DEF ServeInv

(* Every step of a request keeps the invariant. *)
LEMMA RequestKeeps ==
  ASSUME ServeInv, NEW r \in Requests, Arrive(r) \/ ProofStep(r) \/ Cancel(r),
         overtaken' \subseteq Requests
  PROVE  ServeInv'
<1> DEFINE old == req[r]
<1>1. /\ TypeOK /\ TreeTypeOK /\ LockInv /\ RequestInv(r) /\ StoreIsMerkleTree
      /\ readers \in SUBSET Requests /\ waiting \in SUBSET Requests
      /\ old = [f \in DOMAIN Idle |-> old[f]]
      /\ old.at \in {"idle", "located", "locking", "path", "answered"}
      /\ old.asked \in Values \union {Empty} /\ old.index \in Indices
      /\ old.level \in 0..Depth /\ old.pathIndex \in Level(old.level)
  BY DEF ServeInv, Inv, TypeOK, TreeTypeOK
<1>2. 0 \in Indices /\ 0 \in 0..Depth /\ 0 \in Level(0) /\ Indices = Level(0)
  BY WidthAssumption, DepthAssumption DEF Indices, Level
<1>3. DOMAIN Idle = {"at", "asked", "index", "leaf", "level", "pathIndex", "computed", "root"}
  BY DEF Idle
<1>4. ASSUME NEW v \in Values, GetLeafIndex(r, v)
      PROVE  ServeInv'
  <2>1. PICK new : new = [Idle EXCEPT !.at = "located", !.asked = v, !.index = leafIndex[v]]
    OBVIOUS
  <2>2. leafIndex[v] \in Indices
    BY <1>1, <1>4 DEF GetLeafIndex, TreeTypeOK
  <2>3. /\ new = [f \in DOMAIN Idle |-> new[f]] /\ new.at = "located" /\ new.asked = v
        /\ new.index \in Indices /\ new.level = 0 /\ new.pathIndex = 0
    BY <2>1, <2>2 DEF Idle
  <2>4. req' = [req EXCEPT ![r] = new] /\ Reads /\ UNCHANGED lockVars
    BY <1>4, <2>1 DEF GetLeafIndex
  <2> QED
    BY <1>1, <1>2, <2>3, <2>4, RequestStepKeeps DEF lockVars, LockInv
<1>5. ASSUME NEW i \in Indices, GetRandomEmptyLeafIndex(r, i)
      PROVE  ServeInv'
  <2>1. PICK new : new = [Idle EXCEPT !.at = "located", !.index = i]
    OBVIOUS
  <2>2. /\ new = [f \in DOMAIN Idle |-> new[f]] /\ new.at = "located" /\ new.asked = Empty
        /\ new.index \in Indices /\ new.level = 0 /\ new.pathIndex = 0
    BY <2>1 DEF Idle
  <2>3. req' = [req EXCEPT ![r] = new] /\ Reads /\ UNCHANGED lockVars
    BY <1>5, <2>1 DEF GetRandomEmptyLeafIndex
  <2> QED
    BY <1>1, <1>2, <2>2, <2>3, RequestStepKeeps DEF lockVars, LockInv
<1>6. CASE RLockTree(r)
  <2>1. PICK new : new = [old EXCEPT !.at = "locking"]
    OBVIOUS
  <2>2. /\ new = [f \in DOMAIN Idle |-> new[f]] /\ new.at = "locking" /\ new.asked = old.asked
        /\ new.index = old.index /\ new.level = old.level /\ new.pathIndex = old.pathIndex
    BY <1>1, <1>3, <2>1
  <2>3. req' = [req EXCEPT ![r] = new] /\ Reads /\ old.at = "located"
    BY <1>6, <2>1 DEF RLockTree
  <2>4. /\ writer' = writer /\ readers' \in SUBSET Requests /\ waiting' \in SUBSET Requests
        /\ readers \subseteq readers' /\ (writer = "locked" => readers' = {})
    BY <1>1, <1>6 DEF RLockTree, RLock, LockInv
  <2>5. new.level = 0
    BY <1>1, <2>2, <2>3 DEF RequestInv
  <2> HIDE DEF old
  <2> QED
    BY <1>1, <2>2, <2>3, <2>4, <2>5, RequestStepKeeps
<1>7. CASE ReadLeaf(r)
  <2>1. PICK leaf, new :
          /\ leaf = getLeafFromStorage(<<0, old.index>>)
          /\ new = [old EXCEPT !.at = "path", !.leaf = leaf, !.computed = leaf, !.pathIndex = old.index]
    OBVIOUS
  <2>2. old.at = "locking" /\ old.level = 0 /\ r \in readers
    BY <1>1, <1>7 DEF ReadLeaf, RequestInv
  <2>3. /\ new = [f \in DOMAIN Idle |-> new[f]] /\ new.at = "path" /\ new.asked = old.asked
        /\ new.index = old.index /\ new.level = 0 /\ new.pathIndex = old.index
        /\ new.leaf = leaf /\ new.computed = leaf
    BY <1>1, <1>3, <2>1, <2>2
  <2>4. req' = [req EXCEPT ![r] = new] /\ Reads /\ UNCHANGED lockVars
    BY <1>7, <2>1 DEF ReadLeaf
  <2>5. /\ new.leaf = getLeafFromStorage(<<0, new.index>>)
        /\ new.computed = getLeafFromStorage(<<new.level, new.pathIndex>>)
    BY <2>1, <2>3
  <2> HIDE DEF old
  <2> QED
    BY <1>1, <1>2, <2>2, <2>3, <2>4, <2>5, RequestStepKeeps DEF lockVars, LockInv
<1>8. CASE ReadPathElement(r)
  <2>1. PICK i, element, new :
          /\ i = old.pathIndex
          /\ element = getLeafFromStorage(<<old.level, Sibling(i)>>)
          /\ new = [old EXCEPT !.level = old.level + 1, !.pathIndex = Parent(i),
                               !.computed = IF i % 2 = 0 THEN Hash(old.computed, element)
                                            ELSE Hash(element, old.computed)]
    OBVIOUS
  <2>2. /\ old.at = "path" /\ old.level \in 0..(Depth - 1) /\ r \in readers
        /\ old.leaf = getLeafFromStorage(<<0, old.index>>)
        /\ old.computed = getLeafFromStorage(<<old.level, i>>)
    BY <1>1, <1>8, <2>1, DepthAssumption DEF ReadPathElement, RequestInv
  <2>3. /\ new = [f \in DOMAIN Idle |-> new[f]] /\ new.at = "path" /\ new.asked = old.asked
        /\ new.index = old.index /\ new.leaf = old.leaf
        /\ new.level = old.level + 1 /\ new.pathIndex = Parent(i)
        /\ new.computed = IF i % 2 = 0 THEN Hash(old.computed, element)
                          ELSE Hash(element, old.computed)
    BY <1>1, <1>3, <2>1, <2>2
  <2>4. req' = [req EXCEPT ![r] = new] /\ Reads /\ UNCHANGED lockVars
    BY <1>8, <2>1 DEF ReadPathElement
  <2>5. i \in Level(old.level)
    BY <1>1, <2>1
  <2> HIDE DEF old
  <2>6. /\ Parent(i) \in Level(old.level + 1)
        /\ getLeafFromStorage(<<old.level + 1, Parent(i)>>) =
             IF i % 2 = 0 THEN Hash(getLeafFromStorage(<<old.level, i>>), element)
             ELSE Hash(element, getLeafFromStorage(<<old.level, i>>))
    BY <1>1, <2>1, <2>2, <2>5, OneLevelUp
  <2>7. /\ new.computed = getLeafFromStorage(<<new.level, new.pathIndex>>)
        /\ new.pathIndex \in Level(new.level) /\ new.level \in 0..Depth
    BY <2>2, <2>3, <2>6, DepthAssumption
  <2> QED
    BY <1>1, <2>2, <2>3, <2>4, <2>7, RequestStepKeeps DEF lockVars, LockInv
<1>9. CASE GetRoot(r)
  <2>1. PICK root, new :
          /\ root = getLeafFromStorage(<<Depth, 0>>)
          /\ new = [old EXCEPT !.at = "answered", !.root = root]
    OBVIOUS
  <2>2. /\ old.at = "path" /\ old.level = Depth
        /\ old.computed = getLeafFromStorage(<<Depth, old.pathIndex>>)
    BY <1>1, <1>9 DEF GetRoot, RequestInv
  <2>3. /\ new = [f \in DOMAIN Idle |-> new[f]] /\ new.at = "answered" /\ new.asked = old.asked
        /\ new.index = old.index /\ new.level = old.level /\ new.pathIndex = old.pathIndex
        /\ new.computed = old.computed /\ new.root = root
    BY <1>1, <1>3, <2>1
  <2>4. /\ req' = [req EXCEPT ![r] = new] /\ Reads
        /\ readers' = readers \ {r} /\ UNCHANGED <<writer, waiting>>
    BY <1>9, <2>1 DEF GetRoot, RUnlock
  <2>5. old.pathIndex = 0
    BY <1>1, <2>2, WidthAssumption DEF Level
  <2>6. new.computed = new.root
    BY <2>1, <2>2, <2>3, <2>5
  <2> HIDE DEF old
  <2> QED
    BY <1>1, <2>3, <2>4, <2>6, RequestStepKeeps DEF LockInv
<1>10. CASE Cancel(r) \/ Respond(r)
  <2>1. PICK new : new = Idle
    OBVIOUS
  <2>2. /\ new = [f \in DOMAIN Idle |-> new[f]] /\ new.at = "idle" /\ new.asked = Empty
        /\ new.index = 0 /\ new.level = 0 /\ new.pathIndex = 0
    BY <2>1 DEF Idle
  <2>3. /\ req' = [req EXCEPT ![r] = new] /\ Reads
        /\ readers \ {r} \subseteq readers' /\ readers' \subseteq readers
        /\ UNCHANGED <<writer, waiting>>
    BY <1>10, <2>1 DEF Cancel, Respond, RUnlock, lockVars
  <2> QED
    BY <1>1, <1>2, <2>2, <2>3, RequestStepKeeps DEF LockInv
<1> QED
  BY <1>4, <1>5, <1>6, <1>7, <1>8, <1>9, <1>10 DEF Arrive, ProofStep

(* Every step of the job and of the requests keeps the invariant. *)
LEMMA NextKeepsServeInv == ServeInv /\ [Next]_vars => ServeInv'
<1> SUFFICES ASSUME ServeInv, [Next]_vars
             PROVE  ServeInv'
  OBVIOUS
<1>1. CASE TreeNext /\ UNCHANGED req /\ Overtakes
  <2>1. overtaken' \subseteq Requests
    BY <1>1 DEF Overtakes
  <2> QED
    BY <1>1, <2>1, TreeStepKeeps
<1>2. CASE \E r \in Requests : (Arrive(r) \/ ProofStep(r) \/ Cancel(r)) /\ Overtakes
  <2>1. overtaken' \subseteq Requests
    BY <1>2 DEF Overtakes
  <2> QED
    BY <1>2, <2>1, RequestKeeps
<1>3. CASE UNCHANGED vars
  <2>1. /\ Inv /\ TypeOK /\ LockInv /\ req' = req /\ store' = store /\ lockVars' = lockVars
        /\ overtaken' = overtaken
        /\ UNCHANGED <<dbVars, contract, operations, pc, insertVars, writer>>
    BY <1>3 DEF ServeInv, vars, treeVars, dbVars, lockVars
  <2>2. Inv'
    BY <2>1, ReadersKeep DEF Inv, TreeTypeOK, lockVars
  <2>3. TypeOK' /\ LockInv'
    BY <2>1, <2>2 DEF TypeOK, Inv, LockInv, lockVars
  <2>4. \A r \in Requests : RequestInv(r)'
    BY <2>1 DEF ServeInv, RequestInv, getLeafFromStorage, lockVars
  <2> QED
    BY <2>2, <2>3, <2>4 DEF ServeInv
<1> QED
  BY <1>1, <1>2, <1>3 DEF Next

(* The variables keep their types, for any number of requests. *)
THEOREM ServingTypeCorrect == Spec => []TypeOK
<1>1. ServeInv => TypeOK
  BY DEF ServeInv
<1> QED
  BY <1>1, InitServeInv, NextKeepsServeInv, PTL DEF Spec

(* For every depth, every hash function and any number of requests: every  *)
(* proof that CreateProof answers verifies against the root it comes with, *)
(* whatever the job commits while the proof is read.                       *)
THEOREM ProofsAlwaysVerify == Spec => []ProofVerifies
<1>1. ServeInv => ProofVerifies
  BY DEF ServeInv, RequestInv, ProofVerifies
<1> QED
  BY <1>1, InitServeInv, NextKeepsServeInv, PTL DEF Spec

(* The requests leave the database and the job alone. *)
LEMMA ContractAlways == Spec => [](ServeInv /\ ContractInv)
<1>1. Init => ServeInv /\ ContractInv
  BY InitServeInv, InitContract DEF Init
<1>2. ASSUME ServeInv, ContractInv, [Next]_vars
      PROVE  ContractInv'
  <2>1. CASE TreeNext
    BY <1>2, <2>1, TreeNextKeepsContract DEF ServeInv
  <2>2. ASSUME NEW r \in Requests, Arrive(r) \/ ProofStep(r) \/ Cancel(r)
        PROVE  ContractInv'
    <3>1. Reads
      BY <2>2 DEF Arrive, GetLeafIndex, GetRandomEmptyLeafIndex, ProofStep, RLockTree, ReadLeaf,
                  ReadPathElement, GetRoot, Respond, Cancel
    <3> QED
      BY <1>2, <3>1, ReadersKeepContract DEF Reads
  <2>3. CASE UNCHANGED vars
    BY <1>2, <2>3, ReadersKeepContract DEF vars, treeVars
  <2> QED
    BY <1>2, <2>1, <2>2, <2>3 DEF Next
<1> QED
  BY <1>1, <1>2, NextKeepsServeInv, PTL DEF Spec

(* Whatever operations a batch holds, and however often one of them is     *)
(* overwritten by a later one: between commits the leaves of the database  *)
(* are those of the contract.                                              *)
THEOREM StoreFollowsContract == Spec => []StoreIsContract
<1>1. ContractInv => StoreIsContract
  <2> SUFFICES ASSUME ContractInv, operations = <<>>, NEW i \in Indices
               PROVE  getLeafFromStorage(<<0, i>>) = contract[i]
    BY DEF StoreIsContract
  <2>1. OnLeaf(i) = {}
    BY DEF OnLeaf
  <2> QED
    BY <2>1 DEF ContractInv, Pending
<1> QED
  BY <1>1, ContractAlways, PTL

(* At every moment GetLeafIndex finds a certificate exactly at the leaf    *)
(* that holds it: the batch sets leaf and index together, and the last     *)
(* operation on each wins in both.                                         *)
THEOREM LeafIndexAlwaysAgrees == Spec => []LeafIndexAgrees
<1>1. ContractInv => LeafIndexAgrees
  BY DEF ContractInv
<1> QED
  BY <1>1, ContractAlways, PTL

-----------------------------------------------------------------------------
(***************************************************************************)
(* The leaf that was asked for.                                            *)
(***************************************************************************)

(* A request that no commit has overtaken: the leaf that was located, or   *)
(* the one that was read, is the one that was asked for.                   *)
AskedInv(r) ==
  r \notin overtaken =>
    /\ req[r].at \in {"located", "locking"} =>
         getLeafFromStorage(<<0, req[r].index>>) = req[r].asked
    /\ req[r].at \in {"path", "answered"} => req[r].leaf = req[r].asked

(* A step of another process. *)
LEMMA OthersKeepAsked ==
  ASSUME NEW q \in Requests, AskedInv(q), req'[q] = req[q], Overtakes
  PROVE  AskedInv(q)'
<1>1. q \in overtaken' <=>
        /\ req[q].at # "idle"
        /\ \/ q \in overtaken
           \/ /\ req[q].at \in {"located", "locking"}
              /\ getLeafFromStorage(<<0, req[q].index>>)' # getLeafFromStorage(<<0, req[q].index>>)
  BY DEF Overtakes
<1> QED
  BY <1>1 DEF AskedInv

(* A step of the request: the index that it locates is that of the leaf    *)
(* that was asked for, and it reads the leaf that it has located.          *)
LEMMA RequestKeepsAsked ==
  ASSUME ServeInv, LeafIndexAgrees, NEW r \in Requests, AskedInv(r), Overtakes,
         Arrive(r) \/ ProofStep(r) \/ Cancel(r)
  PROVE  AskedInv(r)'
<1> DEFINE old == req[r]
           new == req'[r]
<1>1. /\ DOMAIN req = Requests /\ leafIndex \in [Values -> Indices \union {NotFound}]
      /\ old = [f \in DOMAIN Idle |-> old[f]]
  BY DEF ServeInv, Inv, TypeOK, TreeTypeOK
<1>2. DOMAIN Idle = {"at", "asked", "index", "leaf", "level", "pathIndex", "computed", "root"}
  BY DEF Idle
<1>3. new.at # "idle" /\ r \notin overtaken' => r \notin overtaken
  BY DEF Overtakes
<1>4. ASSUME NEW v \in Values, GetLeafIndex(r, v)
      PROVE  AskedInv(r)'
  <2>1. /\ new.at = "located" /\ new.asked = v /\ new.index = leafIndex[v]
        /\ leafIndex[v] # NotFound /\ store' = store
    BY <1>1, <1>4 DEF GetLeafIndex, Reads, Idle, dbVars
  <2>2. getLeafFromStorage(<<0, leafIndex[v]>>) = v
    BY <1>1, <2>1 DEF LeafIndexAgrees
  <2> QED
    BY <2>1, <2>2 DEF AskedInv, getLeafFromStorage
<1>5. ASSUME NEW i \in Indices, GetRandomEmptyLeafIndex(r, i)
      PROVE  AskedInv(r)'
  <2>1. /\ new.at = "located" /\ new.asked = Empty /\ new.index = i
        /\ <<0, i>> \notin DOMAIN store /\ store' = store
    BY <1>1, <1>5 DEF GetRandomEmptyLeafIndex, Reads, Idle, dbVars
  <2> QED
    BY <2>1, EmptyBranchAssumption DEF AskedInv, getLeafFromStorage
<1>6. CASE RLockTree(r)
  <2>1. /\ old.at = "located" /\ new.at = "locking" /\ new.asked = old.asked
        /\ new.index = old.index /\ store' = store
    BY <1>1, <1>2, <1>6 DEF RLockTree, Reads, dbVars
  <2> QED
    BY <1>3, <2>1 DEF AskedInv, getLeafFromStorage
<1>7. CASE ReadLeaf(r)
  <2>1. /\ old.at = "locking" /\ new.at = "path" /\ new.asked = old.asked
        /\ new.leaf = getLeafFromStorage(<<0, old.index>>)
    BY <1>1, <1>2, <1>7 DEF ReadLeaf
  <2> QED
    BY <1>3, <2>1 DEF AskedInv
<1>8. CASE ReadPathElement(r) \/ GetRoot(r)
  <2>1. /\ old.at = "path" /\ new.at \in {"path", "answered"} /\ new.asked = old.asked
        /\ new.leaf = old.leaf
    <3>1. CASE ReadPathElement(r)
      BY <1>1, <1>2, <3>1 DEF ReadPathElement
    <3>2. CASE GetRoot(r)
      BY <1>1, <1>2, <3>2 DEF GetRoot
    <3> QED
      BY <1>8, <3>1, <3>2
  <2> QED
    BY <1>3, <2>1 DEF AskedInv
<1>9. CASE Cancel(r) \/ Respond(r)
  <2>1. new.at = "idle"
    BY <1>1, <1>9 DEF Cancel, Respond, Idle
  <2> QED
    BY <2>1 DEF AskedInv
<1> QED
  BY <1>4, <1>5, <1>6, <1>7, <1>8, <1>9 DEF Arrive, ProofStep

LEMMA NextKeepsAsked ==
  ASSUME ServeInv, ContractInv, \A q \in Requests : AskedInv(q), [Next]_vars
  PROVE  \A q \in Requests : AskedInv(q)'
<1>1. CASE TreeNext /\ UNCHANGED req /\ Overtakes
  BY <1>1, OthersKeepAsked
<1>2. ASSUME NEW r \in Requests, Arrive(r) \/ ProofStep(r) \/ Cancel(r), Overtakes
      PROVE  \A q \in Requests : AskedInv(q)'
  <2>1. \A q \in Requests \ {r} : req'[q] = req[q]
    BY <1>2 DEF ServeInv, TypeOK, Arrive, GetLeafIndex, GetRandomEmptyLeafIndex, ProofStep,
                RLockTree, ReadLeaf, ReadPathElement, GetRoot, Respond, Cancel
  <2>2. AskedInv(r)'
    BY <1>2, RequestKeepsAsked DEF ContractInv
  <2>3. \A q \in Requests \ {r} : AskedInv(q)'
    BY <1>2, <2>1, OthersKeepAsked
  <2> QED
    BY <2>2, <2>3
<1>3. CASE UNCHANGED vars
  <2>1. req' = req /\ overtaken' = overtaken /\ store' = store
    BY <1>3 DEF vars, treeVars, dbVars
  <2> QED
    BY <2>1 DEF AskedInv, getLeafFromStorage
<1> QED
  BY <1>1, <1>2, <1>3 DEF Next

(* Proof and GetEmptyLeafProof: whatever is committed between the lookup   *)
(* of the index and the reading of the path, the proof is of the leaf that *)
(* was asked for, unless a commit has changed that leaf.                   *)
THEOREM UndisturbedProofsAreOfAskedLeaf == Spec => []UndisturbedProofIsOfAskedLeaf
<1> DEFINE AllAsked == \A q \in Requests : AskedInv(q)
<1>1. Init => AllAsked
  BY DEF Init, Idle, AskedInv
<1>2. ServeInv /\ ContractInv /\ AllAsked /\ [Next]_vars => AllAsked'
  BY NextKeepsAsked
<1>3. AllAsked => UndisturbedProofIsOfAskedLeaf
  BY DEF AskedInv, UndisturbedProofIsOfAskedLeaf
<1> QED
  BY <1>1, <1>2, <1>3, ContractAlways, PTL DEF Spec

-----------------------------------------------------------------------------
(***************************************************************************)
(* ProofServing implements AtomicTree.                                     *)
(***************************************************************************)

LEMMA NextKeepsLeavesInv ==
  ASSUME ServeInv, ContractInv, LeavesInv, [Next]_vars
  PROVE  LeavesInv'
<1>1. CASE TreeNext
  BY <1>1, TreeNextKeepsLeaves DEF ServeInv
<1>2. ASSUME NEW r \in Requests, Arrive(r) \/ ProofStep(r) \/ Cancel(r)
      PROVE  LeavesInv'
  <2>1. store' = store
    BY <1>2 DEF Arrive, GetLeafIndex, GetRandomEmptyLeafIndex, ProofStep, RLockTree, ReadLeaf,
                ReadPathElement, GetRoot, Respond, Cancel, Reads, dbVars
  <2> QED
    BY <2>1 DEF LeavesInv, getLeafFromStorage
<1>3. CASE UNCHANGED vars
  <2>1. store' = store
    BY <1>3 DEF vars, treeVars, dbVars
  <2> QED
    BY <2>1 DEF LeavesInv, getLeafFromStorage
<1> QED
  BY <1>1, <1>2, <1>3 DEF Next

(* What the mapping takes from the database stays with it. *)
LEMMA MappedUnchanged ==
  /\ store' = store => Served' = Served
  /\ req' = req => Answers' = Answers
BY DEF Served, Answers, getLeafFromStorage

(* A step of the job is a commit, a log of the contract, or no step. *)
LEMMA TreeStepIsAtomic ==
  ASSUME ServeInv, ContractInv, TreeNext, req' = req
  PROVE  [Atomic!Next]_(Atomic!atomicVars)
<1>1. CASE WriteSync
  <2>1. contract = [i \in Indices |-> contract[i]]
    BY DEF ServeInv, Inv, TreeTypeOK
  <2>2. Served' = contract
    BY <1>1, <2>1, WriteSyncCommits DEF ServeInv, Served
  <2>3. Atomic!Commit
    BY <1>1, <2>2, WriteSyncCommits, MappedUnchanged DEF ServeInv, Atomic!Commit
  <2> QED
    BY <2>3 DEF Atomic!Next
<1>2. CASE ~WriteSync /\ contract' = contract
  BY <1>2, OtherTreeSteps, MappedUnchanged DEF Atomic!atomicVars
<1>3. ASSUME ~WriteSync, NEW op \in Operations, NEW i \in Indices, NEW v \in Values,
             HandleEVMLog(op, i, v)
      PROVE  Atomic!Next
  <2>1. UNCHANGED <<Served, leafIndex, Answers>>
    BY <1>3, OtherTreeSteps, MappedUnchanged
  <2>2. Atomic!HandleLog
    BY <1>3, <2>1 DEF HandleEVMLog, Operations, Atomic!HandleLog
  <2> QED
    BY <2>2 DEF Atomic!Next
<1> QED
  BY <1>1, <1>2, <1>3, OtherTreeSteps

(* The step of a request that reads the root is the answer: the leaf that  *)
(* was read before is still the one of the tree.                           *)
LEMMA RequestStepIsAtomic ==
  ASSUME ServeInv, LeavesInv, NEW r \in Requests, Arrive(r) \/ ProofStep(r) \/ Cancel(r)
  PROVE  [Atomic!Next]_(Atomic!atomicVars)
<1> DEFINE old == req[r]
           new == req'[r]
<1>1. /\ DOMAIN req = Requests /\ RequestInv(r) /\ StoreIsMerkleTree
      /\ old = [f \in DOMAIN Idle |-> old[f]] /\ old.index \in Indices
      /\ old.pathIndex \in Level(old.level)
  BY DEF ServeInv, Inv, TypeOK
<1>2. DOMAIN Idle = {"at", "asked", "index", "leaf", "level", "pathIndex", "computed", "root"}
  BY DEF Idle
<1>3. /\ UNCHANGED <<store, leafIndex, contract>>
      /\ \A q \in Requests \ {r} : req'[q] = req[q]
      /\ DOMAIN req' = Requests
  BY <1>1 DEF Arrive, GetLeafIndex, GetRandomEmptyLeafIndex, ProofStep, RLockTree, ReadLeaf,
              ReadPathElement, GetRoot, Respond, Cancel, Reads, dbVars
<1>4. UNCHANGED <<contract, Served, leafIndex>>
  BY <1>3, MappedUnchanged
<1>5. CASE GetRoot(r)
  <2>1. /\ old.at = "path" /\ old.level = Depth /\ new.at = "answered"
        /\ new.index = old.index /\ new.leaf = old.leaf
        /\ new.root = getLeafFromStorage(<<Depth, 0>>)
    BY <1>1, <1>2, <1>5 DEF GetRoot
  <2>2. Served \in [Indices -> Values \union {Empty}]
    BY DEF Served, LeavesInv
  <2>3. new.root = RootOf(Served)
    <3>1. Depth \in 0..Depth /\ 0 \in Level(Depth)
      BY DepthAssumption, WidthAssumption DEF Level
    <3>2. \A i \in Indices : getLeafFromStorage(<<0, i>>) = Served[i]
      BY DEF Served
    <3>3. PICK G : G = [n \in Nodes |-> getLeafFromStorage(n)]
      OBVIOUS
    <3>4. \A l \in 0..Depth : \A p \in Level(l) : G[<<l, p>>] = getLeafFromStorage(<<l, p>>)
      BY <3>3 DEF Nodes
    <3>5. \A i \in Indices : G[<<0, i>>] = Served[i]
      <4>1. 0 \in 0..Depth /\ Indices = Level(0)
        BY DepthAssumption DEF Indices
      <4> QED
        BY <3>2, <3>4, <4>1
    <3>6. \A l \in 0..(Depth - 1) : \A p \in Level(l + 1) :
            G[<<l + 1, p>>] = Hash(G[<<l, 2 * p>>], G[<<l, 2 * p + 1>>])
      <4> SUFFICES ASSUME NEW l \in 0..(Depth - 1), NEW p \in Level(l + 1)
                   PROVE  G[<<l + 1, p>>] = Hash(G[<<l, 2 * p>>], G[<<l, 2 * p + 1>>])
        OBVIOUS
      <4>1. l \in 0..Depth /\ l + 1 \in 0..Depth /\ 2 * p \in Level(l) /\ 2 * p + 1 \in Level(l)
        BY Children, DepthAssumption
      <4> QED
        BY <1>1, <3>4, <4>1 DEF StoreIsMerkleTree
    <3> QED
      BY <2>1, <2>2, <3>1, <3>4, <3>5, <3>6, TreeIsUnique DEF RootOf
  <2>4. new.leaf = Served[new.index] /\ new.index \in Indices
    BY <1>1, <2>1 DEF RequestInv, Served
  <2>5. Answers[r] = {} /\ Answers' = [Answers EXCEPT ![r] =
          {[index |-> new.index, leaf |-> Served[new.index], root |-> RootOf(Served)]}]
    BY <1>3, <2>1, <2>3, <2>4 DEF Answers
  <2>6. Atomic!Answer(r, new.index)
    BY <1>4, <2>5 DEF Atomic!Answer
  <2> QED
    BY <2>4, <2>6 DEF Atomic!Next
<1>6. CASE Respond(r)
  <2>1. new.at = "idle"
    BY <1>1, <1>6 DEF Respond, Idle
  <2>2. Answers' = [Answers EXCEPT ![r] = {}]
    BY <1>3, <2>1 DEF Answers
  <2>3. Atomic!Respond(r)
    BY <1>4, <2>2 DEF Atomic!Respond
  <2> QED
    BY <2>3 DEF Atomic!Next
<1>7. CASE Arrive(r) \/ RLockTree(r) \/ ReadLeaf(r) \/ ReadPathElement(r) \/ Cancel(r)
  <2>1. old.at # "answered" /\ new.at # "answered"
    <3>1. CASE Arrive(r)
      BY <1>1, <3>1 DEF Arrive, GetLeafIndex, GetRandomEmptyLeafIndex, Idle
    <3>2. CASE RLockTree(r) \/ ReadLeaf(r)
      BY <1>1, <1>2, <3>2 DEF RLockTree, ReadLeaf
    <3>3. CASE ReadPathElement(r)
      BY <1>1, <1>2, <3>3 DEF ReadPathElement
    <3>4. CASE Cancel(r)
      BY <1>1, <3>4 DEF Cancel, Idle
    <3> QED
      BY <1>7, <3>1, <3>2, <3>3, <3>4
  <2>2. Answers' = Answers
    BY <1>3, <2>1 DEF Answers
  <2> QED
    BY <1>4, <2>2 DEF Atomic!atomicVars
<1> QED
  BY <1>5, <1>6, <1>7 DEF ProofStep

(* The tree with its locks, batches and paths is AtomicTree to its         *)
(* readers, for every depth, every hash function and any number of         *)
(* requests: commits and proofs take effect in one step each, and a proof  *)
(* comes with the root of the tree of the leaves of a single commit.       *)
THEOREM ServingImplementsAtomicTree == Spec => ImplementsAtomicTree
<1>1. Init => LeavesInv /\ Atomic!Init
  <2> SUFFICES ASSUME Init
               PROVE  LeavesInv /\ Atomic!Init
    OBVIOUS
  <2>1. \A i : getLeafFromStorage(<<0, i>>) = Empty
    BY EmptyBranchAssumption DEF Init, TreeInit, getLeafFromStorage
  <2>2. Answers = [r \in Requests |-> {}]
    BY DEF Init, Idle, Answers
  <2> QED
    BY <2>1, <2>2 DEF Init, TreeInit, LeavesInv, Served, Atomic!Init
<1>2. ServeInv /\ ContractInv /\ LeavesInv /\ [Next]_vars => LeavesInv'
  BY NextKeepsLeavesInv
<1>3. ServeInv /\ ContractInv /\ LeavesInv /\ [Next]_vars => [Atomic!Next]_(Atomic!atomicVars)
  <2> SUFFICES ASSUME ServeInv, ContractInv, LeavesInv, [Next]_vars
               PROVE  [Atomic!Next]_(Atomic!atomicVars)
    OBVIOUS
  <2>1. CASE UNCHANGED vars
    <3>1. req' = req /\ store' = store /\ leafIndex' = leafIndex /\ contract' = contract
      BY <2>1 DEF vars, treeVars, dbVars
    <3> QED
      BY <3>1, MappedUnchanged DEF Atomic!atomicVars
  <2> QED
    BY <2>1, TreeStepIsAtomic, RequestStepIsAtomic DEF Next
<1> QED
  BY <1>1, <1>2, <1>3, ContractAlways, PTL DEF Spec, ImplementsAtomicTree, Atomic!Spec

-----------------------------------------------------------------------------
(***************************************************************************)
(* A commit is the one of Indexer.                                         *)
(***************************************************************************)

(* What the batch holds at the leaves when it is written is what the last  *)
(* operation on each of them writes.                                       *)
LEMMA WriteSyncAsIndexed ==
  ASSUME ContractInv, WriteSync
  PROVE  /\ Served' = Log!CommitLeaves(DOMAIN operations, Served)
         /\ leafIndex' = Log!CommitLeafIndex(DOMAIN operations, leafIndex)
<1>1. pc = "write" /\ store' = Set(batch, store)
  BY DEF WriteSync
<1>2. \A i \in Indices : getLeafFromStorage(<<0, i>>)' = Pending(i)
  BY <1>1, ReadAfterWrite DEF ContractInv
<1>3. \A i : /\ Log!OnLeaf(DOMAIN operations, i) = OnLeaf(i)
             /\ Log!OnValue(DOMAIN operations, i) = OnValue(i)
  BY DEF Log!OnLeaf, OnLeaf, Log!OnValue, OnValue
<1>4. \A e : Log!LeafWrite(e) = LeafWrite(e) /\ Log!IndexWrite(e) = LeafIndexWrite(e)
  BY DEF Log!LeafWrite, LeafWrite, Log!IndexWrite, LeafIndexWrite
<1>5. \A S : Log!Max(S) = Max(S)
  BY DEF Log!Max, Max
<1>6. Served' = Log!CommitLeaves(DOMAIN operations, Served)
  <2>1. \A i \in Indices : Served'[i] =
          IF Log!OnLeaf(DOMAIN operations, i) = {} THEN Served[i]
          ELSE Log!LeafWrite(operations[Log!Max(Log!OnLeaf(DOMAIN operations, i))])
    BY <1>2, <1>3, <1>4, <1>5 DEF Served, Pending
  <2> QED
    BY <2>1 DEF Served, Log!CommitLeaves
<1>7. leafIndex' = Log!CommitLeafIndex(DOMAIN operations, leafIndex)
  <2>1. \A v \in Values : leafIndex'[v] =
          IF Log!OnValue(DOMAIN operations, v) = {} THEN leafIndex[v]
          ELSE Log!IndexWrite(operations[Log!Max(Log!OnValue(DOMAIN operations, v))])
    BY <1>3, <1>4, <1>5 DEF WriteSync
  <2> QED
    BY <2>1 DEF WriteSync, Log!CommitLeafIndex
<1> QED
  BY <1>6, <1>7

(* writeBatchWithLock: a commit of the tree does to the leaves and to the  *)
(* indices under values what the one step of Indexer's commit does, for    *)
(* every list of operations, and no other step touches them.               *)
THEOREM TreeCommitsAsIndexed == Spec => CommitsAsIndexed
<1>1. ServeInv /\ ContractInv /\ [Next]_vars =>
        [IF WriteSync
         THEN /\ Served' = Log!CommitLeaves(DOMAIN operations, Served)
              /\ leafIndex' = Log!CommitLeafIndex(DOMAIN operations, leafIndex)
         ELSE UNCHANGED <<Served, leafIndex>>]_vars
  <2> SUFFICES ASSUME ContractInv, Next
               PROVE  IF WriteSync
                      THEN /\ Served' = Log!CommitLeaves(DOMAIN operations, Served)
                           /\ leafIndex' = Log!CommitLeafIndex(DOMAIN operations, leafIndex)
                      ELSE UNCHANGED <<Served, leafIndex>>
    OBVIOUS
  <2>1. CASE WriteSync
    BY <2>1, WriteSyncAsIndexed
  <2>2. CASE ~WriteSync
    <3>1. CASE TreeNext
      BY <2>2, <3>1, OtherTreeSteps, MappedUnchanged
    <3>2. ASSUME NEW r \in Requests, Arrive(r) \/ ProofStep(r) \/ Cancel(r)
          PROVE  UNCHANGED <<Served, leafIndex>>
      <4>1. store' = store /\ leafIndex' = leafIndex
        BY <3>2 DEF Arrive, GetLeafIndex, GetRandomEmptyLeafIndex, ProofStep, RLockTree, ReadLeaf,
                    ReadPathElement, GetRoot, Respond, Cancel, Reads, dbVars
      <4> QED
        BY <4>1, MappedUnchanged
    <3> QED
      BY <2>2, <3>1, <3>2 DEF Next
  <2> QED
    BY <2>1, <2>2
<1> QED
  BY <1>1, ContractAlways, PTL DEF Spec, CommitsAsIndexed

-----------------------------------------------------------------------------
(***************************************************************************)
(* The lock of the tree is the one that zkregistry.Mutex promises.         *)
(***************************************************************************)

(* Who holds the lock, or waits for it, and where in its code it is.       *)
HoldInv ==
  /\ writer = "waiting" <=> pc = "lock"
  /\ \A r \in Requests :
       /\ r \in readers => req[r].at \in {"locking", "path"} /\ r \notin waiting
       /\ r \in waiting => req[r].at = "locking"

LockState == [writer |-> writer, readers |-> readers, waiting |-> waiting]

(* A step of the lock, in the words of RegistryLock.                       *)
LEMMA MutexStep ==
  ASSUME NEW l, LockState' = l
  PROVE  Mutex!Step("registry", l)
BY DEF Mutex!Step, LockState

LEMMA MutexUnchanged ==
  ASSUME UNCHANGED lockVars
  PROVE  [Mutex!Next]_[g \in {"registry"} |-> LockState]
BY DEF lockVars, LockState

(* The job asks for the lock only while it does not have it. *)
LEMMA JobKeepsToLock ==
  ASSUME ServeInv, HoldInv, TreeNext, UNCHANGED req
  PROVE  HoldInv' /\ [Mutex!Next]_[g \in {"registry"} |-> LockState]
<1>1. LockInv /\ writer \in {"none", "waiting", "locked"}
  BY DEF ServeInv, Inv, TreeTypeOK
<1>2. CASE CommitOperations \/ InsertNode \/ NextLevel
  <2>1. UNCHANGED lockVars /\ pc # "lock" /\ pc' # "lock"
    BY <1>2 DEF CommitOperations, InsertNode, NextLevel
  <2> QED
    BY <2>1, MutexUnchanged DEF HoldInv, lockVars
<1>3. CASE LockTree \/ LockForProgress
  <2>1. pc \in {"insert", "handle"} /\ pc' = "lock" /\ Lock
    BY <1>3 DEF LockTree, LockForProgress
  <2>2. writer = "none"
    BY <1>1, <2>1 DEF LockInv, HoldInv
  <2>3. LockState' = Mutex!AskLock(LockState)
    BY <2>1 DEF Lock, LockState, Mutex!AskLock
  <2>4. Mutex!LockAsked("registry")
    BY <2>2, <2>3, MutexStep DEF Mutex!LockAsked, LockState
  <2> QED
    BY <2>1, <2>4 DEF Mutex!Next, HoldInv, Lock
<1>4. CASE TreeLocked
  <2>1. pc = "lock" /\ pc' = "write" /\ LockAcquired
    BY <1>4 DEF TreeLocked
  <2>2. writer = "waiting" /\ readers = {}
    BY <2>1 DEF HoldInv, LockAcquired
  <2>3. LockState' = Mutex!TakeLock(LockState)
    BY <2>1 DEF LockAcquired, LockState, Mutex!TakeLock
  <2>4. Mutex!Locked("registry")
    BY <2>2, <2>3, MutexStep DEF Mutex!Locked, LockState
  <2> QED
    BY <2>1, <2>4 DEF Mutex!Next, HoldInv, LockAcquired
<1>5. CASE WriteSync
  <2>1. UNCHANGED lockVars /\ pc # "lock" /\ pc' # "lock"
    BY <1>5 DEF WriteSync
  <2> QED
    BY <2>1, MutexUnchanged DEF HoldInv, lockVars
<1>6. CASE UnlockTree
  <2>1. pc = "unlock" /\ pc' = "handle" /\ Unlock
    BY <1>6 DEF UnlockTree
  <2>2. writer = "locked"
    BY <1>1, <2>1 DEF LockInv
  <2>3. LockState' = Mutex!LeaveLock(LockState)
    BY <2>1 DEF Unlock, LockState, Mutex!LeaveLock
  <2>4. Mutex!Unlocked("registry")
    BY <2>2, <2>3, MutexStep DEF Mutex!Unlocked, LockState
  <2> QED
    BY <2>1, <2>4 DEF Mutex!Next, HoldInv, Unlock
<1>7. ASSUME NEW op \in Operations, NEW i \in Indices, NEW v \in Values, HandleEVMLog(op, i, v)
      PROVE  HoldInv' /\ [Mutex!Next]_[g \in {"registry"} |-> LockState]
  <2>1. UNCHANGED lockVars /\ pc' = pc
    BY <1>7 DEF HandleEVMLog
  <2> QED
    BY <2>1, MutexUnchanged DEF HoldInv, lockVars
<1> QED
  BY <1>2, <1>3, <1>4, <1>5, <1>6, <1>7 DEF TreeNext, CommitStep

(* A request locks once, and unlocks what it has locked, also when its     *)
(* caller has gone.                                                        *)
LEMMA RequestKeepsToLock ==
  ASSUME ServeInv, HoldInv, NEW r \in Requests, Arrive(r) \/ ProofStep(r) \/ Cancel(r)
  PROVE  HoldInv' /\ [Mutex!Next]_[g \in {"registry"} |-> LockState]
<1> DEFINE old == req[r]
           new == req'[r]
<1>1. /\ DOMAIN req = Requests /\ RequestInv(r)
      /\ old = [f \in DOMAIN Idle |-> old[f]]
  BY DEF ServeInv, TypeOK
<1>2. DOMAIN Idle = {"at", "asked", "index", "leaf", "level", "pathIndex", "computed", "root"}
  BY DEF Idle
<1>3. /\ pc' = pc /\ writer' = writer
      /\ \A q \in Requests \ {r} : req'[q] = req[q]
  <2>1. pc' = pc
    BY DEF Arrive, GetLeafIndex, GetRandomEmptyLeafIndex, ProofStep, RLockTree, ReadLeaf,
           ReadPathElement, GetRoot, Respond, Cancel, Reads
  <2>2. writer' = writer
    BY DEF Arrive, GetLeafIndex, GetRandomEmptyLeafIndex, ProofStep, RLockTree, RLock, RUnlock,
           ReadLeaf, ReadPathElement, GetRoot, Respond, Cancel, lockVars
  <2>3. \A q \in Requests \ {r} : req'[q] = req[q]
    BY <1>1 DEF Arrive, GetLeafIndex, GetRandomEmptyLeafIndex, ProofStep, RLockTree, ReadLeaf,
                ReadPathElement, GetRoot, Respond, Cancel
  <2> QED
    BY <2>1, <2>2, <2>3
<1>4. CASE Arrive(r) \/ Respond(r)
  <2>1. old.at \in {"idle", "answered"} /\ UNCHANGED lockVars
    BY <1>4 DEF Arrive, GetLeafIndex, GetRandomEmptyLeafIndex, Respond
  <2>2. r \notin readers /\ r \notin waiting
    BY <2>1 DEF HoldInv
  <2> QED
    BY <1>3, <2>1, <2>2, MutexUnchanged DEF HoldInv, lockVars
<1>5. CASE RLockTree(r)
  <2>1. old.at = "located" /\ new.at = "locking" /\ RLock(r)
    BY <1>1, <1>2, <1>5 DEF RLockTree
  <2>2. r \notin readers /\ r \notin waiting
    BY <2>1 DEF HoldInv
  <2>3. LockState' = Mutex!EnterReader(LockState, r)
    BY <2>1 DEF RLock, LockState, Mutex!EnterReader
  <2>4. Mutex!RLocked("registry", r)
    BY <2>2, <2>3, MutexStep DEF Mutex!RLocked, LockState
  <2>5. HoldInv'
    BY <1>3, <2>1, <2>2 DEF HoldInv, RLock
  <2> QED
    BY <2>4, <2>5 DEF Mutex!Next
<1>6. CASE ReadLeaf(r) \/ ReadPathElement(r)
  <2>1. r \in readers /\ new.at = "path" /\ UNCHANGED lockVars
    <3>1. CASE ReadLeaf(r)
      BY <1>1, <1>2, <3>1 DEF ReadLeaf
    <3>2. CASE ReadPathElement(r)
      BY <1>1, <1>2, <3>2 DEF ReadPathElement, RequestInv
    <3> QED
      BY <1>6, <3>1, <3>2
  <2>2. r \notin waiting
    BY <2>1 DEF HoldInv
  <2> QED
    BY <1>3, <2>1, <2>2, MutexUnchanged DEF HoldInv, lockVars
<1>7. CASE GetRoot(r) \/ Cancel(r)
  <2>1. old.at = "path" /\ RUnlock(r)
    BY <1>7 DEF GetRoot, Cancel
  <2>2. r \in readers /\ r \notin waiting
    BY <1>1, <2>1 DEF RequestInv, HoldInv
  <2>3. LockState' = Mutex!LeaveReader(LockState, r)
    BY <1>3, <2>1 DEF RUnlock, LockState, Mutex!LeaveReader
  <2>4. Mutex!RUnlocked("registry", r)
    BY <2>2, <2>3, MutexStep DEF Mutex!RUnlocked, LockState
  <2>5. HoldInv'
    BY <1>3, <2>1, <2>2 DEF HoldInv, RUnlock
  <2> QED
    BY <2>4, <2>5 DEF Mutex!Next
<1> QED
  BY <1>4, <1>5, <1>6, <1>7 DEF ProofStep

(* writeBatchWithLock and CreateProof use the registry's mutex as          *)
(* RegistryLock has it, whatever the requests do, so that what is proved   *)
(* of zkregistry.Mutex, which implements RegistryLock, is about the lock   *)
(* that the tree relies on.                                                *)
THEOREM TreeKeepsToRegistryLock == Spec => KeepsToRegistryLock
<1>1. Init => HoldInv /\ Mutex!Init
  BY DEF Init, TreeInit, HoldInv, Mutex!Init, Mutex!FreeLock
<1>2. ServeInv /\ HoldInv /\ [Next]_vars =>
        HoldInv' /\ [Mutex!Next]_[g \in {"registry"} |-> LockState]
  <2> SUFFICES ASSUME ServeInv, HoldInv, [Next]_vars
               PROVE  HoldInv' /\ [Mutex!Next]_[g \in {"registry"} |-> LockState]
    OBVIOUS
  <2>1. CASE UNCHANGED vars
    <3>1. UNCHANGED lockVars /\ pc' = pc /\ req' = req
      BY <2>1 DEF vars, treeVars
    <3> QED
      BY <3>1, MutexUnchanged DEF HoldInv, lockVars
  <2> QED
    BY <2>1, JobKeepsToLock, RequestKeepsToLock DEF Next
<1> QED
  BY <1>1, <1>2, ContractAlways, PTL DEF Spec, KeepsToRegistryLock, Mutex!Spec, LockState
=============================================================================

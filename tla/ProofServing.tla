---------------------------- MODULE ProofServing ----------------------------
(***************************************************************************)
(* The query handlers Proof and GetEmptyLeafProof, reading the tree of one *)
(* registry while the indexing job commits to it.                          *)
(*                                                                         *)
(* Both locate a leaf first and take the registry's lock for reading only  *)
(* then.  Under it CreateProof reads the leaf, one sibling per level and   *)
(* the root, each with a database read of its own.  A proof is kept as     *)
(* what its receiver makes of it: the root that follows from its leaf, its *)
(* index and its path, computed as the path is read.                       *)
(***************************************************************************)
EXTENDS TreeCommit

VARIABLES
  req,         \* the state of every request
  overtaken    \* history variable: the requests whose leaf a commit has changed
               \* after they located it and before they read it

vars == <<treeVars, req, overtaken>>

(* A request that has not arrived, or has been answered. *)
Idle ==
  [at |-> "idle", asked |-> Empty, index |-> 0, leaf |-> Empty,
   level |-> 0, pathIndex |-> 0, computed |-> Empty, root |-> Empty]

(* What a step of a request leaves alone, whether or not it locks. *)
Reads == UNCHANGED <<dbVars, contract, operations, pc, insertVars>>

-----------------------------------------------------------------------------
(***************************************************************************)
(* Locating the leaf.  An unknown leaf value is answered with NotFound,    *)
(* and a tree in which no random index is empty with an error, as is every *)
(* request while the job is not on head: the request stays idle.           *)
(***************************************************************************)

(* Mutant of GetLeafIndex: the error of an unknown value is not checked. *)
GetLeafIndexUnchecked(r, v) ==
  /\ req[r].at = "idle"
  /\ req' = [req EXCEPT ![r] = [Idle EXCEPT !.at = "located", !.asked = v,
                                            !.index = leafIndex[v]]]
  /\ Reads /\ UNCHANGED lockVars

GetLeafIndex(r, v) ==
  /\ req[r].at = "idle"
  /\ leafIndex[v] # NotFound
  /\ req' = [req EXCEPT ![r] = [Idle EXCEPT !.at = "located", !.asked = v,
                                            !.index = leafIndex[v]]]
  /\ Reads /\ UNCHANGED lockVars

(* Mutant of GetRandomEmptyLeafIndex: any index will do. *)
GetRandomLeafIndex(r, i) ==
  /\ req[r].at = "idle"
  /\ req' = [req EXCEPT ![r] = [Idle EXCEPT !.at = "located", !.index = i]]
  /\ Reads /\ UNCHANGED lockVars

(* A leaf is empty for GetRandomEmptyLeafIndex when no value was ever      *)
(* written to it: a revoked leaf is not.                                   *)
GetRandomEmptyLeafIndex(r, i) ==
  /\ req[r].at = "idle"
  /\ <<0, i>> \notin DOMAIN store
  /\ req' = [req EXCEPT ![r] = [Idle EXCEPT !.at = "located", !.index = i]]
  /\ Reads /\ UNCHANGED lockVars

-----------------------------------------------------------------------------
(***************************************************************************)
(* CreateProof under the lock.                                             *)
(***************************************************************************)
RLockTree(r) ==
  /\ req[r].at = "located"
  /\ RLock(r)
  /\ req' = [req EXCEPT ![r].at = "locking"]
  /\ Reads

ReadLeaf(r) ==
  /\ req[r].at = "locking"
  /\ r \in readers
  /\ LET leaf == getLeafFromStorage(<<0, req[r].index>>)
     IN req' = [req EXCEPT ![r] = [@ EXCEPT !.at = "path", !.leaf = leaf, !.computed = leaf,
                                            !.pathIndex = req[r].index]]
  /\ Reads /\ UNCHANGED lockVars

ReadPathElement(r) ==
  /\ req[r].at = "path"
  /\ req[r].level < Depth
  /\ LET q == req[r]
         element == getLeafFromStorage(<<q.level, Sibling(q.pathIndex)>>)
     IN req' = [req EXCEPT ![r] =
          [q EXCEPT !.level = q.level + 1, !.pathIndex = Parent(q.pathIndex),
                    !.computed = IF q.pathIndex % 2 = 0 THEN Hash(q.computed, element)
                                 ELSE Hash(element, q.computed)]]
  /\ Reads /\ UNCHANGED lockVars

(* Mutant of GetRoot: the lock is not released. *)
GetRootKeepsLock(r) ==
  /\ req[r].at = "path"
  /\ req[r].level = Depth
  /\ req' = [req EXCEPT ![r] = [@ EXCEPT !.at = "answered",
                                         !.root = getLeafFromStorage(<<Depth, 0>>)]]
  /\ Reads /\ UNCHANGED lockVars

GetRoot(r) ==
  /\ req[r].at = "path"
  /\ req[r].level = Depth
  /\ req' = [req EXCEPT ![r] = [@ EXCEPT !.at = "answered",
                                         !.root = getLeafFromStorage(<<Depth, 0>>)]]
  /\ RUnlock(r)
  /\ Reads

(* Mutant of Cancel: the error path does not unlock. *)
CancelKeepsLock(r) ==
  /\ req[r].at = "path"
  /\ req[r].level < Depth
  /\ req' = [req EXCEPT ![r] = Idle]
  /\ Reads /\ UNCHANGED lockVars

(* The caller has gone: the loop over the path returns its error. *)
Cancel(r) ==
  /\ req[r].at = "path"
  /\ req[r].level < Depth
  /\ req' = [req EXCEPT ![r] = Idle]
  /\ RUnlock(r)
  /\ Reads

(* The response is on its way and the handler is done. *)
Respond(r) ==
  /\ req[r].at = "answered"
  /\ req' = [req EXCEPT ![r] = Idle]
  /\ Reads /\ UNCHANGED lockVars

-----------------------------------------------------------------------------
Init ==
  /\ TreeInit
  /\ req = [r \in Requests |-> Idle]
  /\ overtaken = {}

(* What a step does to the history variable. *)
Overtakes ==
  overtaken' = {r \in Requests :
    /\ req'[r].at # "idle"
    /\ \/ r \in overtaken
       \/ /\ req[r].at \in {"located", "locking"}
          /\ LET n == <<0, req[r].index>> IN getLeafFromStorage(n)' # getLeafFromStorage(n)}

ProofStep(r) ==
  \/ RLockTree(r)
  \/ ReadLeaf(r)
  \/ ReadPathElement(r)
  \/ GetRoot(r)
  \/ Respond(r)

Arrive(r) ==
  \/ \E v \in Values : GetLeafIndex(r, v)
  \/ \E i \in Indices : GetRandomEmptyLeafIndex(r, i)

Next ==
  \/ TreeNext /\ UNCHANGED req /\ Overtakes
  \/ \E r \in Requests : (Arrive(r) \/ ProofStep(r) \/ Cancel(r)) /\ Overtakes

Spec == Init /\ [][Next]_vars

(* The goroutines of the job and of the handlers are scheduled. *)
FairSpec ==
  /\ Spec
  /\ WF_vars(CommitStep /\ UNCHANGED req /\ Overtakes)
  /\ \A r \in Requests : WF_vars(ProofStep(r) /\ Overtakes)

-----------------------------------------------------------------------------
(***************************************************************************)
(* Properties.                                                             *)
(***************************************************************************)

(* The variables have their types. *)
TypeOK ==
  /\ TreeTypeOK
  /\ overtaken \subseteq Requests
  /\ DOMAIN req = Requests
  /\ \A r \in Requests :
       /\ req[r] = [f \in DOMAIN Idle |-> req[r][f]]
       /\ req[r].at \in {"idle", "located", "locking", "path", "answered"}
       /\ req[r].asked \in Values \union {Empty}
       /\ req[r].index \in Indices
       /\ req[r].level \in 0..Depth
       /\ req[r].pathIndex \in Level(req[r].level)

(* The root in an answer is the one that follows from the leaf, the index  *)
(* and the path that CreateProof has read, one database read after the     *)
(* other: no commit comes between them, although the batch was computed    *)
(* without the lock.                                                       *)
ProofVerifies ==
  \A r \in Requests : req[r].at = "answered" => req[r].computed = req[r].root

(* "Proof queries the proof of a leaf in the merkle tree"                  *)
(* (query.proto:11), and "GetEmptyLeafProof queries the proof of the any   *)
(* empty leaf" (query.proto:16): the leaf that the path belongs to is the  *)
(* one that was asked for, a value or the empty one.                       *)
ProofIsOfAskedLeaf ==
  \A r \in Requests : req[r].at = "answered" => req[r].leaf = req[r].asked

(* It is, unless a commit has changed that very leaf between the lookup of *)
(* its index and the reading under the lock: other commits do no harm,     *)
(* although they rewrite the path and may move other values.               *)
UndisturbedProofIsOfAskedLeaf ==
  \A r \in Requests : req[r].at = "answered" /\ r \notin overtaken => req[r].leaf = req[r].asked

(* The leaves that the database holds, and the answers on their way. *)
Served == [i \in Indices |-> getLeafFromStorage(<<0, i>>)]

Answers ==
  [r \in Requests |->
     IF req[r].at = "answered"
     THEN {[index |-> req[r].index, leaf |-> req[r].leaf, root |-> req[r].root]} ELSE {}]

Atomic == INSTANCE AtomicTree WITH leaves <- Served, answers <- Answers

(* CreateProof and Commit take effect in one step each, as AtomicTree has  *)
(* it: a proof tells of a leaf and of the root of the leaves that were the *)
(* contract's at one commit, and no reader sees a part of a commit.        *)
ImplementsAtomicTree == Atomic!Spec

Log == INSTANCE ChainLog
         WITH log <- operations, height <- 0, NoIndex <- NotFound, StartBlock <- 0

(* The indexing job may be seen as it is in Indexer, where a commit writes *)
(* all leaves and all indices of its operations in one step: whatever      *)
(* InsertLeaves puts into the batch on the way, WriteSync changes them in  *)
(* just this manner, and nothing else changes them.                        *)
CommitsAsIndexed ==
  [][IF WriteSync
     THEN /\ Served' = Log!CommitLeaves(DOMAIN operations, Served)
          /\ leafIndex' = Log!CommitLeafIndex(DOMAIN operations, leafIndex)
     ELSE UNCHANGED <<Served, leafIndex>>]_vars

Mutex == INSTANCE RegistryLock
           WITH Registries <- {"registry"},
                lock <- [g \in {"registry"} |->
                           [writer |-> writer, readers |-> readers, waiting |-> waiting]]

(* The job and the handlers keep to the rules of the lock that             *)
(* zkregistry.Mutex gives them: no one locks twice, unlocks what it does   *)
(* not hold, or writes while others read, also when a request is cancelled *)
(* half-way.  What is shown of that lock holds of the one of the tree.     *)
KeepsToRegistryLock == Mutex!Spec

(* A request that has located its leaf is answered or cancelled, and the   *)
(* commit of a batch comes to its end, however many requests arrive: no    *)
(* one keeps the lock, and neither side shuts the other out.               *)
EveryoneGetsTheLock ==
  /\ \A r \in Requests : req[r].at = "located" ~> req[r].at = "idle"
  /\ pc # "handle" ~> pc = "handle"
=============================================================================

----------------------------- MODULE AtomicTree -----------------------------
(***************************************************************************)
(* What the tree of a registry promises to those who ask it for proofs,    *)
(* with no word on nodes, batches, paths or locks: a commit is one step,   *)
(* to the leaves that the contract has, and so is a proof, which tells of  *)
(* one leaf and of the root of all leaves at the same moment.              *)
(***************************************************************************)
CONSTANTS
  Indices, Values, Empty, NotFound,
  RootOf(_),   \* the root of the Merkle tree with the given leaves
  Requests

VARIABLES
  contract,    \* the contract's leaves after the logs handled so far
  leaves,      \* leaf index -> value, as read from the database
  leafIndex,   \* value -> leaf index, or NotFound, as read from the database
  answers      \* request -> the proofs on their way to its caller: one or none

atomicVars == <<contract, leaves, leafIndex, answers>>

Init ==
  /\ contract = [i \in Indices |-> Empty]
  /\ leaves = contract
  /\ leafIndex = [v \in Values |-> NotFound]
  /\ answers = [r \in Requests |-> {}]

(* The contract adds or revokes a certificate. *)
HandleLog ==
  /\ \E i \in Indices, v \in Values :
       \/ /\ contract[i] = Empty /\ \A j \in Indices : contract[j] # v
          /\ contract' = [contract EXCEPT ![i] = v]
       \/ /\ contract[i] = v
          /\ contract' = [contract EXCEPT ![i] = Empty]
  /\ UNCHANGED <<leaves, leafIndex, answers>>

Commit ==
  /\ leaves' = contract
  /\ \A i \in Indices, v \in Values : leafIndex'[v] = i <=> contract[i] = v
  /\ UNCHANGED <<contract, answers>>

Answer(r, i) ==
  /\ answers[r] = {}
  /\ answers' = [answers EXCEPT ![r] =
                   {[index |-> i, leaf |-> leaves[i], root |-> RootOf(leaves)]}]
  /\ UNCHANGED <<contract, leaves, leafIndex>>

Respond(r) ==
  /\ answers' = [answers EXCEPT ![r] = {}]
  /\ UNCHANGED <<contract, leaves, leafIndex>>

Next ==
  \/ HandleLog
  \/ Commit
  \/ \E r \in Requests : Respond(r) \/ \E i \in Indices : Answer(r, i)

Spec == Init /\ [][Next]_atomicVars
=============================================================================

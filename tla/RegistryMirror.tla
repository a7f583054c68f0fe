--------------------------- MODULE RegistryMirror ---------------------------
(***************************************************************************)
(* What the service promises of the registry it keeps, with no word on how *)
(* it is kept.  At any moment the database holds the leaves and the leaf   *)
(* indices that the contract had at some block, all of them or none; that  *)
(* block is never past the head of the chain, it never moves back, and it  *)
(* keeps moving while it is behind the head.                               *)
(***************************************************************************)
EXTENDS ChainLog

VARIABLES
  leaves,     \* leaf index -> value, as read from the database
  leafIndex,  \* value -> leaf index, as read from the database
  at          \* the block whose contract state the database holds

mirrorVars == <<height, log, leaves, leafIndex, at>>

Init ==
  /\ ChainInit
  /\ leaves = NoLeaves
  /\ leafIndex = NoLeafIndex
  /\ at = StartBlock

Chain ==
  /\ \/ \E op \in Operations, i \in Indices, v \in Values : EmitLog(op, i, v)
     \/ MineBlock
  /\ UNCHANGED <<leaves, leafIndex, at>>

MoveTo(block) ==
  /\ leaves' = LeavesAt(block)
  /\ leafIndex' = LeafIndexAt(block)
  /\ at' = block
  /\ UNCHANGED chainVars

Advance == \E block \in (at + 1)..height : MoveTo(block)

Next == Chain \/ Advance

Spec == Init /\ [][Next]_mirrorVars

FairSpec == Spec /\ WF_mirrorVars(Advance)
=============================================================================

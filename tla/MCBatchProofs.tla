---------------------------- MODULE MCBatchProofs ---------------------------
(* Instances of BatchProofs for TLC.  A hash is the pair of its arguments: *)
(* no two pairs of nodes have the same one.                                *)
EXTENDS BatchProofs, TLC

CONSTANTS v1, v2

MCHash(left, right) == <<left, right>>

MCWidth == [l \in 0..Depth |-> 2 ^ (Depth - l)]

MCEmptyBranch[l \in 0..Depth] ==
  IF l = 0 THEN Empty ELSE MCHash(MCEmptyBranch[l - 1], MCEmptyBranch[l - 1])

MCTreeOf(f) ==
  LET row[l \in 0..Depth] ==
        IF l = 0 THEN f
        ELSE [p \in Level(l) |-> MCHash(row[l - 1][2 * p], row[l - 1][2 * p + 1])]
  IN [n \in Nodes |-> row[n[1]][n[2]]]

(* After a commit a request is followed to the check of its first leaf,    *)
(* when it has no other.                                                   *)
OverlapBound == overlapped => Len(todo) = 1 /\ simulation = [n \in {} |-> Empty]

Symmetry == Permutations({v1, v2})
=============================================================================

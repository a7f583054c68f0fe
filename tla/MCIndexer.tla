------------------------------ MODULE MCIndexer -----------------------------
(* Instances of Indexer for TLC. *)
EXTENDS Indexer, TLC

CONSTANTS i1, i2, v1, v2

Symmetry == Permutations({i1, i2}) \union Permutations({v1, v2})
=============================================================================

---------------------------- MODULE MCApplication ---------------------------
(* Instances of Application for TLC. *)
EXTENDS Application, TLC

CONSTANTS j1, j2

Symmetry == Permutations({j1, j2})
=============================================================================

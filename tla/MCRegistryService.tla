-------------------------- MODULE MCRegistryService -------------------------
(* Instances of RegistryService for TLC. *)
EXTENDS RegistryService, TLC

Symmetry == Permutations(Addresses)
=============================================================================

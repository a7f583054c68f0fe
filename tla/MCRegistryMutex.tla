--------------------------- MODULE MCRegistryMutex --------------------------
(* Two registries and two requests.                                      *)
EXTENDS RegistryMutex, TLC
=============================================================================

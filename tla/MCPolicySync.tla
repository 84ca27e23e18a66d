---------------------------- MODULE MCPolicySync ----------------------------
(* Small instances of PolicySync for TLC.                                  *)
EXTENDS PolicySync, TLC

Symmetry == Permutations(Users) \cup Permutations(Callers)
=============================================================================

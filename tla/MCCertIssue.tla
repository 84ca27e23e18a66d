---------------------------- MODULE MCCertIssue ----------------------------
(* Small instances of CertIssue for TLC. ttl_seconds at the boundaries: one  *)
(* that wraps around, an empty window, an expired one, the default, the     *)
(* maximum and beyond.                                                      *)
EXTENDS CertIssue, TLC

BoundaryTtls == {-1001, -30, -29, 0, 900, 901}

Symmetry == Permutations(Callers) \cup Permutations(Agents)
               \cup Permutations(Users) \cup Permutations(Requests)
=============================================================================

---------------------------- MODULE MCEnrollment ----------------------------
(* Small instances of Enrollment for TLC.                                  *)
EXTENDS Enrollment, TLC

Symmetry == Permutations(Hosts) \cup Permutations(Names)
               \cup Permutations(Bootstraps)
=============================================================================

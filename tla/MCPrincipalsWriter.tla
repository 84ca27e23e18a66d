------------------------ MODULE MCPrincipalsWriter ------------------------
(* Small instances of PrincipalsWriter for TLC.                            *)
EXTENDS PrincipalsWriter

CONSTANTS u1, u2, c1

\* Two users, one of whom loses access in the second version.
TwoVersions == << {<<u1, c1>>, <<u2, c1>>}, {<<u1, c1>>} >>
=============================================================================

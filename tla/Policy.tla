------------------------------- MODULE Policy -------------------------------
(***************************************************************************)
(* The data the policy handshake is about: ACL grants, the canonical hash  *)
(* of a set of grants (internal/policyhash) and the policy payload an      *)
(* Agent receives (api.PolicyPayload).                                     *)
(*                                                                         *)
(* One Agent is modelled: every table the handshake touches is keyed by    *)
(* agent_id and no statement reads the rows of two Agents.                 *)
(***************************************************************************)
EXTENDS Naturals

CONSTANTS
    Users,     \* usernames that may appear in an ACL row
    Callers,   \* caller token ids
    BadUsers   \* the usernames validateUsername rejects (the server takes them)

ASSUME BadUsersAssumption == BadUsers \subseteq Users

\* An ACL row of the Agent, policyhash.Grant.
Grants == Users \X Callers

\* The Go zero value "": the hash of an empty ACL, and of a fresh Agent.
NoHash == <<>>

(***************************************************************************)
(* policyhash.Hash: sorted lines of the grants, digested; "" (not the      *)
(* digest of no bytes) for no grants. The digest is collision free and the *)
(* sort makes it a function of the SET of grants.                          *)
(***************************************************************************)
Hash(grants) == IF grants = {} THEN NoHash ELSE <<"blake3", grants>>

Hashes == {Hash(g) : g \in SUBSET Grants}

\* The callers of every user; {} stands for a user with no row.
Projection(grants) == [u \in Users |-> {c \in Callers : <<u, c>> \in grants}]

\* The content of a principals directory, {} standing for "no file".
Files == [Users -> SUBSET Callers]

NoFiles == [u \in Users |-> {}]

Policies == [version : Nat, hash : Hashes, principals : Files]

\* validatePolicyPayload: one bad username refuses the whole payload.
Invalid(p) == \E u \in BadUsers : p.principals[u] # {}

=============================================================================

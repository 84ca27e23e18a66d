---------------------------- MODULE PolicyStore ----------------------------
(***************************************************************************)
(* The rows of one Agent in the Control plane's database                   *)
(* (internal/store/sqlite.go). A store call is one transaction or one      *)
(* statement, and MaxOpenConns(1) serialises them: each is one action or a *)
(* part of one.                                                            *)
(***************************************************************************)
EXTENDS Policy

CONSTANTS
    MaxVersion,   \* bound on ACL changes
    OperatorOps   \* which operator commands a run includes, see OperatorOp

OperatorOp == {"grant", "ungrant", "rm", "revokeToken", "failClosed"}

ASSUME StoreAssumption ==
    MaxVersion \in Nat /\ OperatorOps \subseteq OperatorOp

VARIABLES
    acl,              \* table acl: the grants of this Agent
    version, hash,    \* table agent_policy_versions; version 0 = no row
    status,           \* agents.status
    failClosedAfter,  \* agents.fail_closed_after is a positive number
    tokenRevoked,     \* tokens.revoked_at of the Agent's token is set
    policyState,      \* table agent_policy_state
    aclAt,            \* history: the ACL of every version so far
    removed           \* history: a RevokeAgent has committed

storeVars == <<acl, version, hash, status, failClosedAfter, tokenRevoked,
               policyState, aclAt, removed>>

\* The tables an ACL change leaves alone.
agentRowVars == <<status, failClosedAfter, tokenRevoked, policyState, removed>>

StoreTypeOK ==
    /\ acl \subseteq Grants
    /\ version \in Nat
    /\ hash \in Hashes
    /\ status \in {"online", "revoked"}
    /\ failClosedAfter \in BOOLEAN
    /\ tokenRevoked \in BOOLEAN
    /\ policyState \in [desired : Nat, applied : Nat]
    /\ aclAt \in [0..version -> SUBSET Grants]
    /\ removed \in BOOLEAN

\* handleAgentRegister has just enrolled the Agent.
StoreInit ==
    /\ acl = {}
    /\ version = 0
    /\ hash = NoHash
    /\ status = "online"
    /\ failClosedAfter = FALSE
    /\ tokenRevoked = FALSE
    /\ policyState = [desired |-> 0, applied |-> 0]
    /\ aclAt = [v \in {0} |-> {}]
    /\ removed = FALSE

-----------------------------------------------------------------------------
(* Operator commands.                                                      *)

\* The version row is inserted at 1 or incremented, then the hash is
\* recomputed from the ACL inside the caller's transaction.
bumpPolicyVersionTx(newAcl) ==
    /\ version' = version + 1
    /\ hash' = Hash(newAcl)
    /\ aclAt' = [v \in 0..(version + 1) |->
                    IF v = version + 1 THEN newAcl ELSE aclAt[v]]

\* A re-grant hits the UNIQUE constraint and changes nothing.
CreateACL(g) ==
    /\ "grant" \in OperatorOps
    /\ version < MaxVersion
    /\ g \notin acl
    /\ acl' = acl \cup {g}
    /\ bumpPolicyVersionTx(acl \cup {g})
    /\ UNCHANGED agentRowVars

DeleteACL(g) ==
    /\ "ungrant" \in OperatorOps
    /\ version < MaxVersion
    /\ g \in acl
    /\ acl' = acl \ {g}
    /\ bumpPolicyVersionTx(acl \ {g})
    /\ UNCHANGED agentRowVars

\* handleDeleteAgent: one transaction marks the Agent and its token revoked.
\* The ACL rows stay.
RevokeAgent ==
    /\ "rm" \in OperatorOps
    /\ status' = "revoked"
    /\ tokenRevoked' = TRUE
    /\ removed' = TRUE
    /\ UNCHANGED <<acl, version, hash, failClosedAfter, policyState, aclAt>>

\* handleRevokeToken on the Agent's token: the agents row is not touched.
RevokeToken ==
    /\ "revokeToken" \in OperatorOps
    /\ ~tokenRevoked
    /\ tokenRevoked' = TRUE
    /\ UNCHANGED <<acl, version, hash, status, failClosedAfter, policyState,
                   aclAt, removed>>

\* handleSetAgent: refused (404) once the row says revoked.
SetAgentFailClosedAfter(on) ==
    /\ "failClosed" \in OperatorOps
    /\ status # "revoked"
    /\ failClosedAfter' = on
    /\ UNCHANGED <<acl, version, hash, status, tokenRevoked, policyState,
                   aclAt, removed>>

-----------------------------------------------------------------------------
(* The calls the heartbeat handler makes.                                  *)

\* Mutant: the rows are read before the version row, outside a transaction.
GetTornSnapshot ==
    [version |-> version, hash |-> hash,
     principals |-> Projection(aclAt[IF version = 0 THEN 0 ELSE version - 1])]

\* One read transaction: version, hash and rows of one point in time.
GetPolicySnapshot ==
    [version |-> version, hash |-> hash, principals |-> Projection(acl)]

\* Sets the status unconditionally: WHERE id = ? and nothing else.
UpdateAgentHeartbeat ==
    /\ status' = "online"
    /\ UNCHANGED <<acl, version, hash, failClosedAfter, tokenRevoked,
                   policyState, aclAt, removed>>

\* Mutant: the two columns are swapped.
UpsertSwapped(desired, applied) ==
    /\ policyState' = [desired |-> applied, applied |-> desired]
    /\ UNCHANGED <<acl, version, hash, status, failClosedAfter, tokenRevoked,
                   aclAt, removed>>

UpsertAgentPolicyState(desired, applied) ==
    /\ policyState' = [desired |-> desired, applied |-> applied]
    /\ UNCHANGED <<acl, version, hash, status, failClosedAfter, tokenRevoked,
                   aclAt, removed>>

=============================================================================

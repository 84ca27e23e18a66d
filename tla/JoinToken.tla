----------------------------- MODULE JoinToken -----------------------------
(***************************************************************************)
(* What a join token promises: it is redeemed at most once, and never      *)
(* after an operator revoked it unredeemed. Redeemed tokens remember for   *)
(* which Agent.                                                            *)
(***************************************************************************)
CONSTANTS JoinTokens, AgentIds

VARIABLES
    owner,   \* owner[j]: the Agent j was redeemed for, as a set of at most one
    void     \* the tokens revoked before they were redeemed

oneShotVars == <<owner, void>>

OneShotInit ==
    /\ owner = [j \in JoinTokens |-> {}]
    /\ void = {}

Redeem(j, i) ==
    /\ owner[j] = {}
    /\ j \notin void
    /\ owner' = [owner EXCEPT ![j] = {i}]
    /\ UNCHANGED void

Void(j) ==
    /\ owner[j] = {}
    /\ void' = void \cup {j}
    /\ UNCHANGED owner

OneShotNext ==
    \E j \in JoinTokens : Void(j) \/ \E i \in AgentIds : Redeem(j, i)

OneShotSpec == OneShotInit /\ [][OneShotNext]_oneShotVars

=============================================================================

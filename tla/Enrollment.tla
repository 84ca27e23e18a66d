----------------------------- MODULE Enrollment -----------------------------
(***************************************************************************)
(* `uncluster agent join` on several hosts against handleAgentRegister     *)
(* (internal/server/handlers_agent.go). The handler makes five store calls *)
(* and no transaction: each is a step of its own, others come in between,  *)
(* and each may fail.                                                      *)
(***************************************************************************)
EXTENDS ServerBoot

CONSTANTS
    Hosts,        \* machines on which the operator runs `agent join`
    Names,        \* names they ask for
    JoinTokens,   \* ids of join tokens
    MaxAttempts   \* bound on the registrations of one host

ASSUME EnrollmentAssumption == MaxAttempts \in Nat /\ Hosts \cap Procs = {}

VARIABLES
    tokens,   \* the join tokens of table tokens
    agents,   \* table agents, with the Agent's token of table tokens
    join,     \* the `agent join` of each host and the request it has sent
    config,   \* agent.toml of each host
    owner     \* history: the Agents whose credential a join token was given for

enrollVars == <<tokens, agents, join, config, owner>>
vars == <<bootVars, faults, enrollVars>>

\* An Agent's id is new for every registration.
AgentIds == Hosts \X (1..MaxAttempts)

JoinPC == {"idle", "auth", "lookup", "create", "token", "mark", "answered",
           "save"}

NoConfig == [id |-> {}, ca |-> "none"]

EnrollTypeOK ==
    /\ tokens \in [JoinTokens -> [made : BOOLEAN, used : BOOLEAN,
                                  revoked : BOOLEAN, expired : BOOLEAN]]
    /\ agents \in [AgentIds -> [status : {"none", "online", "revoked"},
                                name : Names \cup {"none"},
                                cred : {"none", "live", "revoked"}]]
    /\ join \in [Hosts -> [pc : JoinPC, n : 0..MaxAttempts,
                           tok : JoinTokens \cup {"none"},
                           name : Names \cup {"none"},
                           code : {0, 200, 401, 409, 500},
                           ca : Bootstraps \cup {"none"}]]
    /\ config \in [Hosts -> [id : SUBSET AgentIds, ca : Bootstraps \cup {"none"}]]
    /\ owner \in [JoinTokens -> SUBSET AgentIds]

TypeOK == BootTypeOK /\ faults \in 0..MaxFaults /\ EnrollTypeOK

Init ==
    /\ BootInit
    /\ faults = 0
    /\ tokens = [j \in JoinTokens |-> [made |-> FALSE, used |-> FALSE,
                                       revoked |-> FALSE, expired |-> FALSE]]
    /\ agents = [i \in AgentIds |-> [status |-> "none", name |-> "none",
                                     cred |-> "none"]]
    /\ join = [h \in Hosts |-> [pc |-> "idle", n |-> 0, tok |-> "none",
                                name |-> "none", code |-> 0, ca |-> "none"]]
    /\ config = [h \in Hosts |-> NoConfig]
    /\ owner = [j \in JoinTokens |-> {}]

-----------------------------------------------------------------------------
(* The operator's requests; the Control plane must be serving.             *)

\* handleCreateToken: only the hash of the secret is kept.
CreateToken(j) ==
    /\ Serving
    /\ ~tokens[j].made
    /\ tokens' = [tokens EXCEPT ![j].made = TRUE]
    /\ UNCHANGED <<bootVars, faults, agents, join, config, owner>>

\* handleRevokeToken: a used token can be revoked as well.
RevokeToken(j) ==
    /\ Serving
    /\ tokens[j].made /\ ~tokens[j].revoked
    /\ tokens' = [tokens EXCEPT ![j].revoked = TRUE]
    /\ UNCHANGED <<bootVars, faults, agents, join, config, owner>>

\* Fifteen minutes pass.
Expire(j) ==
    /\ tokens[j].made /\ ~tokens[j].expired
    /\ tokens' = [tokens EXCEPT ![j].expired = TRUE]
    /\ UNCHANGED <<bootVars, faults, agents, join, config, owner>>

\* handleDeleteAgent: the row keeps its id and gives its name back.
RemoveAgent(i) ==
    /\ Serving
    /\ agents[i].status # "none"
    /\ agents' = [agents EXCEPT ![i] =
                     [status |-> "revoked", name |-> "none",
                      cred |-> IF @.cred = "live" THEN "revoked" ELSE @.cred]]
    /\ UNCHANGED <<bootVars, faults, tokens, join, config, owner>>

-----------------------------------------------------------------------------
(* `agent join` and handleAgentRegister.                                   *)

Self(h) == <<h, join[h].n>>

At(h, pc) == Serving /\ join[h].pc = pc

Step(h, pc) == join' = [join EXCEPT ![h].pc = pc]

Reply(h, code) == join' = [join EXCEPT ![h].pc = "answered", ![h].code = code]

\* The command refuses a host whose agent.toml holds a token.
Join(h, j, name) ==
    /\ Serving
    /\ join[h].pc = "idle" /\ join[h].n < MaxAttempts
    /\ config[h].id = {}
    /\ tokens[j].made
    /\ join' = [join EXCEPT ![h] = [pc |-> "auth", n |-> @.n + 1, tok |-> j,
                                    name |-> name, code |-> 0, ca |-> "none"]]
    /\ UNCHANGED <<bootVars, faults, tokens, agents, config, owner>>

\* Used, revoked and expired tokens, and a failed query, are all 401.
RegisterAuth(h) ==
    LET t == tokens[join[h].tok]
    IN  /\ At(h, "auth")
        /\ \/ /\ IF t.used \/ t.revoked \/ t.expired
                 THEN Reply(h, 401) ELSE Step(h, "lookup")
              /\ UNCHANGED faults
           \/ Reply(h, 401) /\ Fails("store")
        /\ UNCHANGED <<bootVars, tokens, agents, config, owner>>

Taken(name) == \E i \in AgentIds : agents[i].name = name

\* GetAgentByName: an error counts as "no such Agent".
RegisterLookup(h) ==
    /\ At(h, "lookup")
    /\ \/ /\ IF Taken(join[h].name) THEN Reply(h, 409) ELSE Step(h, "create")
          /\ UNCHANGED faults
       \/ Step(h, "create") /\ Fails("store")
    /\ UNCHANGED <<bootVars, tokens, agents, config, owner>>

\* CreateAgent: agents.name is UNIQUE.
RegisterCreate(h) ==
    /\ At(h, "create")
    /\ \/ /\ Taken(join[h].name)
          /\ Reply(h, 409)
          /\ UNCHANGED <<agents, faults>>
       \/ /\ ~Taken(join[h].name)
          /\ agents' = [agents EXCEPT ![Self(h)] =
                           [status |-> "online", name |-> join[h].name,
                            cred |-> "none"]]
          /\ Step(h, "token")
          /\ UNCHANGED faults
       \/ Reply(h, 500) /\ Fails("store") /\ UNCHANGED agents
    /\ UNCHANGED <<bootVars, tokens, config, owner>>

\* Generate, hashSecret and CreateToken for the Agent; any of them may fail.
RegisterToken(h) ==
    /\ At(h, "token")
    /\ \/ /\ agents' = [agents EXCEPT ![Self(h)].cred = "live"]
          /\ Step(h, "mark")
          /\ UNCHANGED faults
       \/ Reply(h, 500) /\ Fails("store") /\ UNCHANGED agents
    /\ UNCHANGED <<bootVars, tokens, config, owner>>

\* Mutant: the update does not ask whether the token was used meanwhile.
MarkRegardless(t) == ~t.revoked

\* MarkJoinTokenUsed's WHERE clause.
Markable(t) == ~t.used /\ ~t.revoked

\* Mutant: the answer goes out although the update changed no row.
RegisterMarkLenient(h) ==
    LET j == join[h].tok
    IN  /\ At(h, "mark")
        /\ tokens' = [tokens EXCEPT ![j].used = Markable(tokens[j]) \/ @]
        /\ owner' = [owner EXCEPT ![j] = @ \cup {Self(h)}]
        /\ join' = [join EXCEPT ![h].pc = "answered", ![h].code = 200,
                                ![h].ca = pubkey]
        /\ UNCHANGED <<bootVars, agents, config, faults>>

\* The join token is spent last, and the answer depends on it.
RegisterMark(h) ==
    LET j == join[h].tok
    IN  /\ At(h, "mark")
        /\ \/ /\ Markable(tokens[j])
              /\ tokens' = [tokens EXCEPT ![j].used = TRUE]
              /\ owner' = [owner EXCEPT ![j] = @ \cup {Self(h)}]
              /\ join' = [join EXCEPT ![h].pc = "answered", ![h].code = 200,
                                      ![h].ca = pubkey]
              /\ UNCHANGED faults
           \/ /\ ~Markable(tokens[j])
              /\ Reply(h, 500)
              /\ UNCHANGED <<tokens, owner, faults>>
           \/ Reply(h, 500) /\ Fails("store") /\ UNCHANGED <<tokens, owner>>
        /\ UNCHANGED <<bootVars, agents, config>>

\* The answer reaches the command, or is lost.
Answered(h) ==
    /\ join[h].pc = "answered"
    /\ \/ /\ Step(h, IF join[h].code = 200 THEN "save" ELSE "idle")
          /\ UNCHANGED faults
       \/ Step(h, "idle") /\ Fails("answer")
    /\ UNCHANGED <<bootVars, tokens, agents, config, owner>>

\* SaveConfig truncates agent.toml and writes it; interrupted, it leaves a
\* file without a token, like no file at all.
SaveConfig(h) ==
    /\ join[h].pc = "save"
    /\ \/ /\ config' = [config EXCEPT ![h] = [id |-> {Self(h)}, ca |-> join[h].ca]]
          /\ UNCHANGED faults
       \/ UNCHANGED config /\ Fails("disk")
    /\ Step(h, "idle")
    /\ UNCHANGED <<bootVars, tokens, agents, owner>>

\* With the server go the requests in service.
ServerKilled ==
    /\ Killed("server")
    /\ join' = [h \in Hosts |->
                  IF join[h].pc \in {"idle", "save"} THEN join[h]
                  ELSE [join[h] EXCEPT !.pc = "idle"]]
    /\ UNCHANGED <<tokens, agents, config, owner>>

-----------------------------------------------------------------------------

Register(h) ==
    \/ RegisterAuth(h) \/ RegisterLookup(h) \/ RegisterCreate(h)
    \/ RegisterToken(h) \/ RegisterMark(h)

Operator ==
    \/ \E j \in JoinTokens : CreateToken(j) \/ RevokeToken(j) \/ Expire(j)
    \/ \E i \in AgentIds : RemoveAgent(i)

Next ==
    \/ BootStep /\ UNCHANGED enrollVars
    \/ \E b \in Bootstraps : Killed(b) /\ UNCHANGED enrollVars
    \/ ServerKilled
    \/ Operator
    \/ \E h \in Hosts :
          \/ \E j \in JoinTokens, name \in Names : Join(h, j, name)
          \/ Register(h) \/ Answered(h) \/ SaveConfig(h)

Spec == Init /\ [][Next]_vars

-----------------------------------------------------------------------------

OneShot == INSTANCE JoinToken WITH
    void <- {j \in JoinTokens : tokens[j].revoked /\ owner[j] = {}}

\* However registrations with one join token overlap, with each other, with
\* its revocation and with failures of the store, at most one of them is
\* given a credential for it, and none after it was revoked unredeemed.
ImplementsJoinToken == OneShot!OneShotSpec

\* A credential that left the Control plane is backed by rows that outlive
\* the request: its join token is spent, and its Agent has a token row, live
\* unless the Agent was removed. (agents rm in the middle of a registration
\* misses the token row that is not there yet; the Agent's status refuses it.)
CredentialsAreBacked ==
    \A j \in JoinTokens : \A i \in owner[j] :
        /\ tokens[j].used
        /\ \/ agents[i].status = "online" /\ agents[i].cred = "live"
           \/ agents[i].status = "revoked" /\ agents[i].cred # "none"

\* Bootstraps may race and crash anywhere, the server may be restarted in
\* between: a host that was given a CA key was given the one this and every
\* later server signs with.
TrustedKeySigns ==
    \A h \in Hosts :
        (config[h].ca # "none" /\ signer # "none") => config[h].ca = signer

\* Whatever statement a migration was interrupted at, the tables are those
\* of the recorded version, so that the next open resumes where it stopped
\* (one process at a time).
SchemaMatchesVersion ==
    ~OpenersOverlap => tables = SchemaAt[schemaVersion]

=============================================================================

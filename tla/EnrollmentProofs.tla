-------------------------- MODULE EnrollmentProofs --------------------------
(***************************************************************************)
(* Theorems about Enrollment, for every number of hosts, names, join       *)
(* tokens, registrations, bootstraps and failures, and whether or not two  *)
(* processes may open the database at once.                                *)
(***************************************************************************)
EXTENDS Enrollment, TLAPS

TokenType == [made : BOOLEAN, used : BOOLEAN, revoked : BOOLEAN, expired : BOOLEAN]

AgentType == [status : {"none", "online", "revoked"}, name : Names \cup {"none"},
              cred : {"none", "live", "revoked"}]

JoinCodes == {0, 200, 401, 409, 500}

JoinType == [pc : JoinPC, n : 0..MaxAttempts, tok : JoinTokens \cup {"none"},
             name : Names \cup {"none"}, code : JoinCodes,
             ca : Bootstraps \cup {"none"}]

Typed ==
    /\ tokens \in [JoinTokens -> TokenType]
    /\ agents \in [AgentIds -> AgentType]
    /\ join \in [Hosts -> JoinType]
    /\ owner \in [JoinTokens -> SUBSET AgentIds]

\* The rows behind a credential.
Backed(i) ==
    \/ agents[i].status = "online" /\ agents[i].cred = "live"
    \/ agents[i].status = "revoked" /\ agents[i].cred # "none"

\* What a registration has established by the time it is at a step.
JoinOK(h) ==
    /\ join[h].pc # "idle" => join[h].tok \in JoinTokens /\ join[h].n \in 1..MaxAttempts
    /\ join[h].pc = "token" => agents[Self(h)].status # "none"
    /\ join[h].pc = "mark" => Backed(Self(h))

\* The registration that a credential came from is over, so that no other
\* one creates its Agent again.
Over(i) ==
    /\ i[2] <= join[i[1]].n
    /\ i[2] = join[i[1]].n => join[i[1]].pc \in {"idle", "answered", "save"}

OwnerOK(j) == \A i \in owner[j] : tokens[j].used /\ Backed(i) /\ Over(i)

EnrollInv ==
    /\ Typed
    /\ \A h \in Hosts : JoinOK(h)
    /\ \A j \in JoinTokens : OwnerOK(j)

-----------------------------------------------------------------------------
(* What the steps do to one registration.                                  *)

\* Registration h moves to pc, the others stay where they are.
Moves(h, pc) ==
    /\ join' = [join EXCEPT ![h] = join'[h]]
    /\ join'[h] \in JoinType
    /\ join'[h].pc = pc
    /\ join'[h].n = join[h].n /\ join'[h].tok = join[h].tok

LEMMA JoinIs ==
    ASSUME Typed, NEW h \in Hosts, NEW q \in JoinType, join' = [join EXCEPT ![h] = q]
    PROVE  /\ join'[h] = q /\ join'[h] \in JoinType
           /\ join' = [join EXCEPT ![h] = join'[h]]
  BY DEF Typed

LEMMA StepIs ==
    ASSUME Typed, NEW h \in Hosts, NEW pc \in JoinPC, Step(h, pc)
    PROVE  Moves(h, pc) /\ join'[h].ca = join[h].ca
  <1> DEFINE q == [join[h] EXCEPT !.pc = pc]
  <1>1. q \in JoinType
    BY DEF Typed, JoinType
  <1>2. join' = [join EXCEPT ![h] = q]
    BY DEF Step
  <1>3. q.pc = pc /\ q.n = join[h].n /\ q.tok = join[h].tok /\ q.ca = join[h].ca
    BY DEF Typed, JoinType
  <1> HIDE DEF q
  <1> QED BY <1>1, <1>2, <1>3, JoinIs DEF Moves

LEMMA ReplyIs ==
    ASSUME Typed, NEW h \in Hosts, NEW code \in JoinCodes, Reply(h, code)
    PROVE  Moves(h, "answered") /\ join'[h].ca = join[h].ca
  <1> DEFINE q == [join[h] EXCEPT !.pc = "answered", !.code = code]
  <1>0. "answered" \in JoinPC /\ join[h] \in JoinType
    BY DEF JoinPC, Typed
  <1>1. q \in JoinType
    BY <1>0 DEF JoinType
  <1>2. join' = [join EXCEPT ![h] = q]
    BY DEF Reply, Typed, JoinType
  <1>3. /\ q.pc = "answered" /\ q.n = join[h].n /\ q.tok = join[h].tok
        /\ q.ca = join[h].ca
    BY DEF Typed, JoinType
  <1> HIDE DEF q
  <1> QED BY <1>1, <1>2, <1>3, JoinIs DEF Moves

LEMMA GivenIs ==
    ASSUME Typed, NEW h \in Hosts, NEW k \in Bootstraps \cup {"none"},
           join' = [join EXCEPT ![h].pc = "answered", ![h].code = 200, ![h].ca = k]
    PROVE  Moves(h, "answered") /\ join'[h].ca = k
  <1> DEFINE p == [join[h] EXCEPT !.pc = "answered", !.code = 200]
             q == [p EXCEPT !.ca = k]
  <1>0. /\ "answered" \in JoinPC /\ join[h] \in JoinType
        /\ 200 \in JoinCodes
    BY DEF JoinPC, Typed, JoinCodes
  <1>1. p \in JoinType
    BY <1>0 DEF JoinType
  <1>2. p.pc = "answered" /\ p.n = join[h].n /\ p.tok = join[h].tok
    BY DEF Typed, JoinType
  <1>3. join' = [join EXCEPT ![h] = q]
    BY DEF Typed, JoinType
  <1> HIDE DEF p
  <1>4. q \in JoinType
    BY <1>1 DEF JoinType
  <1>5. q.pc = p.pc /\ q.n = p.n /\ q.tok = p.tok /\ q.ca = k
    BY <1>1 DEF JoinType
  <1> HIDE DEF q
  <1> QED BY <1>2, <1>3, <1>4, <1>5, JoinIs DEF Moves

\* After a move, what is left to show is about the registration that moved,
\* as long as the rows of every Agent and every redemption are kept.
LEMMA MoveKeeps ==
    ASSUME EnrollInv, NEW h \in Hosts, NEW pc, Moves(h, pc),
           join[h].pc # "idle",
           join[h].pc \notin {"answered", "save"} \/ pc \in {"idle", "answered", "save"}
    PROVE  /\ join' \in [Hosts -> JoinType]
           /\ \A g \in Hosts : g # h => join'[g] = join[g]
           /\ \A g \in Hosts : Self(g)' = Self(g)
           /\ \A g \in Hosts : join'[g].pc # "idle" =>
                  join'[g].tok \in JoinTokens /\ join'[g].n \in 1..MaxAttempts
           /\ \A i \in AgentIds : Over(i) => Over(i)'
  <1>1. Typed /\ join \in [Hosts -> JoinType]
    BY DEF EnrollInv, Typed
  <1>2. join' \in [Hosts -> JoinType] /\ \A g \in Hosts : g # h => join'[g] = join[g]
    BY <1>1 DEF Moves
  <1>3. ASSUME NEW g \in Hosts
        PROVE  /\ join'[g].n = join[g].n /\ join'[g].tok = join[g].tok
               /\ join'[g].pc # join[g].pc => g = h /\ join'[g].pc = pc
    BY <1>2 DEF Moves
  <1>4. \A g \in Hosts : Self(g)' = Self(g)
    BY <1>3 DEF Self
  <1>5. ASSUME NEW g \in Hosts, join'[g].pc # "idle"
        PROVE  join'[g].tok \in JoinTokens /\ join'[g].n \in 1..MaxAttempts
    <2>1. join[g].pc # "idle"
      BY <1>3, <1>5
    <2> QED BY <1>3, <2>1 DEF EnrollInv, JoinOK
  <1>6. ASSUME NEW i \in AgentIds, Over(i) PROVE Over(i)'
    <2>1. i[1] \in Hosts
      BY DEF AgentIds
    <2> QED BY <1>3, <1>6, <2>1 DEF Over
  <1> QED BY <1>2, <1>4, <1>5, <1>6

\* A step that spends no join token and touches at most its own Agent's row.
LEMMA StepKeeps ==
    ASSUME EnrollInv, NEW h \in Hosts, NEW pc, Moves(h, pc),
           join[h].pc # "idle",
           join[h].pc \notin {"answered", "save"} \/ pc \in {"idle", "answered", "save"},
           tokens' = tokens, owner' = owner,
           agents' \in [AgentIds -> AgentType],
           NEW s, s = Self(h),
           \A i \in AgentIds : i # s => agents'[i] = agents[i],
           \A j \in JoinTokens : \A i \in owner[j] : Backed(i)',
           pc = "token" => agents'[s].status # "none",
           pc = "mark" => Backed(s)'
    PROVE  EnrollInv'
  <1>1. /\ join' \in [Hosts -> JoinType]
        /\ \A g \in Hosts : g # h => join'[g] = join[g]
        /\ \A g \in Hosts : Self(g)' = Self(g)
        /\ \A g \in Hosts : join'[g].pc # "idle" =>
               join'[g].tok \in JoinTokens /\ join'[g].n \in 1..MaxAttempts
        /\ \A i \in AgentIds : Over(i) => Over(i)'
    BY MoveKeeps
  <1>2. Typed'
    BY <1>1 DEF EnrollInv, Typed
  <1>3. ASSUME NEW g \in Hosts PROVE JoinOK(g)'
    <2>1. PICK t : t = Self(g)
      OBVIOUS
    <2>2. Self(g)' = t
      BY <1>1, <2>1
    <2>3. CASE g = h
      BY <1>1, <2>1, <2>2, <2>3 DEF JoinOK, Moves
    <2>4. CASE g # h
      <3>1. JoinOK(g) /\ join'[g] = join[g]
        BY <1>1, <2>4 DEF EnrollInv
      <3>2. CASE join[g].pc = "idle"
        BY <3>1, <3>2 DEF JoinOK
      <3>3. CASE join[g].pc # "idle"
        <4>1. t \in AgentIds /\ t # s
          BY <2>1, <2>4, <3>1, <3>3 DEF JoinOK, Self, AgentIds
        <4>2. agents'[t] = agents[t]
          BY <4>1
        <4> QED BY <1>1, <2>1, <2>2, <3>1, <4>2 DEF JoinOK, Backed
      <3> QED BY <3>2, <3>3
    <2> QED BY <2>3, <2>4
  <1>4. ASSUME NEW j \in JoinTokens PROVE OwnerOK(j)'
    <2>1. OwnerOK(j) /\ owner[j] \subseteq AgentIds
      BY DEF EnrollInv, Typed
    <2> QED BY <1>1, <2>1 DEF OwnerOK
  <1> QED BY <1>2, <1>3, <1>4 DEF EnrollInv

\* The same for a step that touches no row at all.
LEMMA QuietStepKeeps ==
    ASSUME EnrollInv, NEW h \in Hosts, NEW pc, Moves(h, pc),
           join[h].pc # "idle",
           join[h].pc \notin {"answered", "save"} \/ pc \in {"idle", "answered", "save"},
           pc \notin {"token", "mark"},
           tokens' = tokens, owner' = owner, agents' = agents
    PROVE  EnrollInv'
  <1>1. agents' \in [AgentIds -> AgentType]
    BY DEF EnrollInv, Typed
  <1>2. \A j \in JoinTokens : \A i \in owner[j] : Backed(i)'
    BY DEF EnrollInv, OwnerOK, Backed
  <1>3. PICK s : s = Self(h)
    OBVIOUS
  <1> QED BY <1>1, <1>2, <1>3, StepKeeps

LEMMA CodesAndPCs ==
    /\ {0, 200, 401, 409, 500} \subseteq JoinCodes
    /\ {"idle", "auth", "lookup", "create", "token", "mark", "answered", "save"}
          \subseteq JoinPC
  BY DEF JoinCodes, JoinPC

LEMMA AuthKeeps ==
    ASSUME EnrollInv, NEW h \in Hosts, RegisterAuth(h) PROVE EnrollInv'
  <1>1. /\ tokens' = tokens /\ owner' = owner /\ agents' = agents
        /\ join[h].pc = "auth" /\ Typed
    BY DEF RegisterAuth, At, EnrollInv
  <1>2. Reply(h, 401) \/ Step(h, "lookup")
    BY DEF RegisterAuth
  <1>3. Moves(h, "answered") \/ Moves(h, "lookup")
    BY <1>1, <1>2, StepIs, ReplyIs, CodesAndPCs
  <1> QED BY <1>1, <1>3, QuietStepKeeps

LEMMA LookupKeeps ==
    ASSUME EnrollInv, NEW h \in Hosts, RegisterLookup(h) PROVE EnrollInv'
  <1>1. /\ tokens' = tokens /\ owner' = owner /\ agents' = agents
        /\ join[h].pc = "lookup" /\ Typed
    BY DEF RegisterLookup, At, EnrollInv
  <1>2. Reply(h, 409) \/ Step(h, "create")
    BY DEF RegisterLookup
  <1>3. Moves(h, "answered") \/ Moves(h, "create")
    BY <1>1, <1>2, StepIs, ReplyIs, CodesAndPCs
  <1> QED BY <1>1, <1>3, QuietStepKeeps

LEMMA CreateKeeps ==
    ASSUME EnrollInv, NEW h \in Hosts, RegisterCreate(h) PROVE EnrollInv'
  <1>1. tokens' = tokens /\ owner' = owner /\ join[h].pc = "create" /\ Typed
    BY DEF RegisterCreate, At, EnrollInv
  <1>2. CASE (Reply(h, 409) \/ Reply(h, 500)) /\ agents' = agents
    <2>1. Moves(h, "answered")
      BY <1>1, <1>2, ReplyIs, CodesAndPCs
    <2> QED BY <1>1, <1>2, <2>1, QuietStepKeeps
  <1>3. CASE /\ agents' = [agents EXCEPT ![Self(h)] =
                              [status |-> "online", name |-> join[h].name,
                               cred |-> "none"]]
             /\ Step(h, "token")
    <2>1. PICK s : s = Self(h)
      OBVIOUS
    <2>2. s \in AgentIds
      BY <1>1, <2>1 DEF EnrollInv, JoinOK, Self, AgentIds
    <2>3. PICK a : a = [status |-> "online", name |-> join[h].name, cred |-> "none"]
      OBVIOUS
    <2>4. a \in AgentType /\ a.status = "online"
      BY <1>1, <2>3 DEF AgentType, Typed, JoinType
    <2>5. agents' = [agents EXCEPT ![s] = a] /\ agents \in [AgentIds -> AgentType]
      BY <1>1, <1>3, <2>1, <2>3 DEF Typed
    <2>6. /\ agents' \in [AgentIds -> AgentType]
          /\ agents'[s].status # "none"
          /\ \A i \in AgentIds : i # s => agents'[i] = agents[i]
      BY <2>2, <2>4, <2>5
    <2>7. ASSUME NEW j \in JoinTokens, NEW i \in owner[j] PROVE Backed(i)'
      <3>1. Backed(i) /\ Over(i) /\ i \in AgentIds
        BY <1>1 DEF EnrollInv, OwnerOK, Typed
      <3>2. i # s
        BY <1>1, <2>1, <3>1 DEF Over, Self
      <3> QED BY <2>6, <3>1, <3>2 DEF Backed
    <2>8. Moves(h, "token")
      BY <1>1, <1>3, StepIs, CodesAndPCs
    <2> QED BY <1>1, <2>1, <2>6, <2>7, <2>8, StepKeeps
  <1> QED BY <1>2, <1>3 DEF RegisterCreate

LEMMA TokenKeeps ==
    ASSUME EnrollInv, NEW h \in Hosts, RegisterToken(h) PROVE EnrollInv'
  <1>1. tokens' = tokens /\ owner' = owner /\ join[h].pc = "token" /\ Typed
    BY DEF RegisterToken, At, EnrollInv
  <1>2. CASE Reply(h, 500) /\ agents' = agents
    <2>1. Moves(h, "answered")
      BY <1>1, <1>2, ReplyIs, CodesAndPCs
    <2> QED BY <1>1, <1>2, <2>1, QuietStepKeeps
  <1>3. CASE agents' = [agents EXCEPT ![Self(h)].cred = "live"] /\ Step(h, "mark")
    <2>1. PICK s : s = Self(h)
      OBVIOUS
    <2>2. s \in AgentIds /\ agents[s].status # "none"
      BY <1>1, <2>1 DEF EnrollInv, JoinOK, Self, AgentIds
    <2>3. PICK a : a = [agents[s] EXCEPT !.cred = "live"]
      OBVIOUS
    <2>4. agents \in [AgentIds -> AgentType] /\ agents[s] \in AgentType
      BY <1>1, <2>2 DEF Typed
    <2>5. a \in AgentType /\ a.status = agents[s].status /\ a.cred = "live"
      BY <2>3, <2>4 DEF AgentType
    <2>6. agents' = [agents EXCEPT ![s] = a]
      BY <1>3, <2>1, <2>3
    <2>7. /\ agents' \in [AgentIds -> AgentType] /\ agents'[s] = a
          /\ \A i \in AgentIds : i # s => agents'[i] = agents[i]
      BY <2>2, <2>4, <2>5, <2>6
    <2>8. Backed(s)'
      BY <2>2, <2>4, <2>5, <2>7 DEF Backed, AgentType
    <2>9. ASSUME NEW j \in JoinTokens, NEW i \in owner[j] PROVE Backed(i)'
      <3>1. Backed(i) /\ i \in AgentIds
        BY <1>1 DEF EnrollInv, OwnerOK, Typed
      <3> QED BY <2>7, <2>8, <3>1 DEF Backed
    <2>10. Moves(h, "mark")
      BY <1>1, <1>3, StepIs, CodesAndPCs
    <2> QED BY <1>1, <2>1, <2>7, <2>8, <2>9, <2>10, StepKeeps
  <1> QED BY <1>2, <1>3 DEF RegisterToken

LEMMA AnsweredKeeps ==
    ASSUME EnrollInv, NEW h \in Hosts, Answered(h) \/ SaveConfig(h) PROVE EnrollInv'
  <1>1. /\ tokens' = tokens /\ owner' = owner /\ agents' = agents
        /\ join[h].pc \in {"answered", "save"} /\ Typed
    BY DEF Answered, SaveConfig, EnrollInv
  <1>2. Step(h, "save") \/ Step(h, "idle")
    BY DEF Answered, SaveConfig
  <1>3. Moves(h, "save") \/ Moves(h, "idle")
    BY <1>1, <1>2, StepIs, CodesAndPCs
  <1> QED BY <1>1, <1>3, QuietStepKeeps

PubTyped == pubkey \in Bootstraps \cup {"none"}

\* The step that spends the join token.
LEMMA MarkIs ==
    ASSUME EnrollInv, PubTyped, NEW h \in Hosts, RegisterMark(h)
    PROVE  /\ agents' = agents /\ join[h].pc = "mark"
           /\ join[h].tok \in JoinTokens /\ Self(h) \in AgentIds
           /\ Moves(h, "answered")
           /\ \/ tokens' = tokens /\ owner' = owner
              \/ /\ Markable(tokens[join[h].tok])
                 /\ tokens' = [tokens EXCEPT ![join[h].tok].used = TRUE]
                 /\ owner' = [owner EXCEPT ![join[h].tok] = @ \cup {Self(h)}]
  <1>1. agents' = agents /\ join[h].pc = "mark" /\ Typed
    BY DEF RegisterMark, At, EnrollInv
  <1>2. join[h].tok \in JoinTokens /\ Self(h) \in AgentIds
    BY <1>1 DEF EnrollInv, JoinOK, Self, AgentIds
  <1>3. CASE Reply(h, 500) /\ tokens' = tokens /\ owner' = owner
    BY <1>1, <1>2, <1>3, ReplyIs, CodesAndPCs
  <1>4. CASE /\ Markable(tokens[join[h].tok])
             /\ tokens' = [tokens EXCEPT ![join[h].tok].used = TRUE]
             /\ owner' = [owner EXCEPT ![join[h].tok] = @ \cup {Self(h)}]
             /\ join' = [join EXCEPT ![h].pc = "answered", ![h].code = 200,
                                     ![h].ca = pubkey]
    <2>1. Moves(h, "answered")
      <3>1. PICK k : k = pubkey
        OBVIOUS
      <3> QED BY <1>1, <1>4, <3>1, GivenIs DEF PubTyped
    <2> QED BY <1>1, <1>2, <1>4, <2>1
  <1> QED BY <1>3, <1>4 DEF RegisterMark

\* Whatever is set in a row of a join token, the rest of it stays.
LEMMA TokenIs ==
    ASSUME Typed, NEW j \in JoinTokens,
           \/ tokens' = [tokens EXCEPT ![j].made = TRUE]
           \/ tokens' = [tokens EXCEPT ![j].used = TRUE]
           \/ tokens' = [tokens EXCEPT ![j].revoked = TRUE]
           \/ tokens' = [tokens EXCEPT ![j].expired = TRUE]
    PROVE  /\ tokens' \in [JoinTokens -> TokenType]
           /\ \A k \in JoinTokens : tokens[k].used => tokens'[k].used
           /\ \A k \in JoinTokens : k # j => tokens'[k] = tokens[k]
           /\ tokens' = [tokens EXCEPT ![j].used = TRUE] =>
                 /\ tokens'[j].used
                 /\ \A k \in JoinTokens : tokens'[k].revoked = tokens[k].revoked
           /\ tokens' = [tokens EXCEPT ![j].revoked = TRUE] => tokens'[j].revoked
           /\ (\/ tokens' = [tokens EXCEPT ![j].made = TRUE]
               \/ tokens' = [tokens EXCEPT ![j].expired = TRUE]) =>
                 \A k \in JoinTokens : tokens'[k].revoked = tokens[k].revoked
  <1>1. tokens \in [JoinTokens -> TokenType] /\ tokens[j] \in TokenType
    BY DEF Typed
  <1>2. CASE tokens' = [tokens EXCEPT ![j].made = TRUE]
    BY <1>1, <1>2 DEF TokenType
  <1>3. CASE tokens' = [tokens EXCEPT ![j].used = TRUE]
    BY <1>1, <1>3 DEF TokenType
  <1>4. CASE tokens' = [tokens EXCEPT ![j].revoked = TRUE]
    BY <1>1, <1>4 DEF TokenType
  <1>5. CASE tokens' = [tokens EXCEPT ![j].expired = TRUE]
    BY <1>1, <1>5 DEF TokenType
  <1> QED BY <1>2, <1>3, <1>4, <1>5

LEMMA MarkKeeps ==
    ASSUME EnrollInv, PubTyped, NEW h \in Hosts, RegisterMark(h)
    PROVE  EnrollInv'
  <1>1. /\ agents' = agents /\ join[h].pc = "mark" /\ Moves(h, "answered")
        /\ join[h].tok \in JoinTokens /\ Self(h) \in AgentIds /\ Typed
    BY MarkIs DEF EnrollInv
  <1>2. CASE tokens' = tokens /\ owner' = owner
    BY <1>1, <1>2, QuietStepKeeps
  <1>3. CASE /\ tokens' = [tokens EXCEPT ![join[h].tok].used = TRUE]
             /\ owner' = [owner EXCEPT ![join[h].tok] = @ \cup {Self(h)}]
    <2>1. PICK j, s : j = join[h].tok /\ s = Self(h)
      OBVIOUS
    <2>2. /\ j \in JoinTokens /\ s \in AgentIds
          /\ tokens' = [tokens EXCEPT ![j].used = TRUE]
          /\ owner' = [owner EXCEPT ![j] = @ \cup {s}]
      BY <1>1, <1>3, <2>1
    <2>3. /\ tokens' \in [JoinTokens -> TokenType] /\ tokens'[j].used
          /\ \A k \in JoinTokens : tokens[k].used => tokens'[k].used
      BY <1>1, <2>2, TokenIs
    <2>4. /\ owner' \in [JoinTokens -> SUBSET AgentIds]
          /\ \A k \in JoinTokens : \A i \in owner'[k] :
                i \in owner[k] \/ (k = j /\ i = s)
      BY <1>1, <2>2 DEF Typed
    <2>5. /\ join' \in [Hosts -> JoinType]
          /\ \A g \in Hosts : g # h => join'[g] = join[g]
          /\ \A g \in Hosts : Self(g)' = Self(g)
          /\ \A g \in Hosts : join'[g].pc # "idle" =>
                 join'[g].tok \in JoinTokens /\ join'[g].n \in 1..MaxAttempts
          /\ \A i \in AgentIds : Over(i) => Over(i)'
      BY <1>1, MoveKeeps
    <2>6. Typed'
      BY <1>1, <2>3, <2>4, <2>5 DEF Typed
    <2>7. ASSUME NEW g \in Hosts PROVE JoinOK(g)'
      <3>1. JoinOK(g) /\ Self(g)' = Self(g)
        BY <2>5 DEF EnrollInv
      <3>2. g # h => join'[g] = join[g]
        BY <2>5
      <3>3. join'[h].pc = "answered"
        BY <1>1 DEF Moves
      <3> QED BY <1>1, <2>5, <3>1, <3>2, <3>3 DEF JoinOK, Backed
    <2>8. Backed(s) /\ Backed(s)'
      BY <1>1, <2>1 DEF EnrollInv, JoinOK, Backed
    <2>9. Over(s)'
      <3>1. s = <<h, join[h].n>> /\ join[h].n \in 1..MaxAttempts
        BY <1>1, <2>1 DEF Self, EnrollInv, JoinOK
      <3>2. s[1] = h /\ s[2] = join[h].n
        BY <3>1
      <3> QED BY <1>1, <3>1, <3>2 DEF Over, Moves
    <2>10. ASSUME NEW k \in JoinTokens, NEW i \in owner'[k]
           PROVE  tokens'[k].used /\ Backed(i)' /\ Over(i)'
      <3>1. CASE i \in owner[k]
        <4>1. tokens[k].used /\ Backed(i) /\ Over(i) /\ i \in AgentIds
          BY <1>1, <3>1 DEF EnrollInv, OwnerOK, Typed
        <4> QED BY <1>1, <2>3, <2>5, <4>1 DEF Backed
      <3>2. CASE k = j /\ i = s
        BY <2>3, <2>8, <2>9, <3>2
      <3> QED BY <2>4, <3>1, <3>2
    <2> QED BY <2>6, <2>7, <2>10 DEF EnrollInv, OwnerOK
  <1> QED BY <1>2, <1>3, MarkIs

\* A new registration has a number of its own.
LEMMA JoinKeeps ==
    ASSUME EnrollInv, NEW h \in Hosts, NEW j \in JoinTokens, NEW name \in Names,
           Join(h, j, name)
    PROVE  EnrollInv'
  <1>1. /\ tokens' = tokens /\ owner' = owner /\ agents' = agents /\ Typed
        /\ join[h].pc = "idle" /\ join[h].n < MaxAttempts
        /\ join[h] \in JoinType /\ join[h].n \in Nat /\ MaxAttempts \in Nat
    BY EnrollmentAssumption DEF Join, EnrollInv, Typed, JoinType
  <1>2. PICK q : q = [pc |-> "auth", n |-> join[h].n + 1, tok |-> j, name |-> name,
                      code |-> 0, ca |-> "none"]
    OBVIOUS
  <1>3. q.pc = "auth" /\ q.n = join[h].n + 1 /\ q.tok = j
    BY <1>2
  <1>4. q \in JoinType
    <2>1. join[h].n + 1 \in 0..MaxAttempts /\ "auth" \in JoinPC /\ 0 \in JoinCodes
      BY <1>1, CodesAndPCs
    <2> QED BY <1>2, <2>1 DEF JoinType
  <1>5. join' = [join EXCEPT ![h] = q]
    BY <1>2 DEF Join
  <1>6. /\ join' \in [Hosts -> JoinType] /\ join'[h] = q
        /\ \A g \in Hosts : g # h => join'[g] = join[g]
    BY <1>1, <1>4, <1>5 DEF Typed
  <1>7. ASSUME NEW g \in Hosts PROVE JoinOK(g)'
    <2>1. CASE g = h
      BY <1>1, <1>3, <1>6, <2>1 DEF JoinOK
    <2>2. CASE g # h
      <3>1. JoinOK(g) /\ join'[g] = join[g] /\ Self(g)' = Self(g)
        BY <1>6, <2>2 DEF EnrollInv, Self
      <3> QED BY <1>1, <3>1 DEF JoinOK, Backed
    <2> QED BY <2>1, <2>2
  <1>8. ASSUME NEW k \in JoinTokens, NEW i \in owner[k]
        PROVE  tokens'[k].used /\ Backed(i)' /\ Over(i)'
    <2>1. tokens[k].used /\ Backed(i) /\ Over(i) /\ i \in AgentIds
      BY <1>1 DEF EnrollInv, OwnerOK, Typed
    <2>2. i[1] \in Hosts /\ i[2] \in Nat
      BY <2>1 DEF AgentIds
    <2>3. Over(i)'
      BY <1>1, <1>3, <1>6, <2>1, <2>2 DEF Over
    <2> QED BY <1>1, <2>1, <2>3 DEF Backed
  <1>9. Typed'
    BY <1>1, <1>6 DEF Typed
  <1> QED BY <1>1, <1>7, <1>8, <1>9 DEF EnrollInv, OwnerOK

LEMMA KilledKeeps ==
    ASSUME EnrollInv, ServerKilled PROVE EnrollInv'
  <1>1. tokens' = tokens /\ owner' = owner /\ agents' = agents /\ Typed
    BY DEF ServerKilled, EnrollInv
  <1>2. ASSUME NEW g \in Hosts
        PROVE  /\ join'[g] \in JoinType /\ join'[g].n = join[g].n
               /\ join'[g] = join[g] \/ join'[g].pc = "idle"
               /\ join'[g].pc \in {"idle", "save"}
    <2> DEFINE q == [join[g] EXCEPT !.pc = "idle"]
    <2>1. join[g] \in JoinType /\ "idle" \in JoinPC
      BY <1>1, CodesAndPCs DEF Typed
    <2>2. q \in JoinType /\ q.n = join[g].n /\ q.pc = "idle"
      BY <2>1 DEF JoinType
    <2>3. join'[g] = IF join[g].pc \in {"idle", "save"} THEN join[g] ELSE q
      BY DEF ServerKilled
    <2> HIDE DEF q
    <2> QED BY <2>1, <2>2, <2>3
  <1>3. Typed'
    BY <1>1, <1>2 DEF Typed, ServerKilled
  <1>4. ASSUME NEW g \in Hosts PROVE JoinOK(g)'
    <2>1. JoinOK(g)
      BY DEF EnrollInv
    <2> QED BY <1>2, <2>1 DEF JoinOK
  <1>5. ASSUME NEW k \in JoinTokens, NEW i \in owner[k]
        PROVE  tokens'[k].used /\ Backed(i)' /\ Over(i)'
    <2>1. tokens[k].used /\ Backed(i) /\ Over(i) /\ i \in AgentIds
      BY <1>1 DEF EnrollInv, OwnerOK, Typed
    <2>2. i[1] \in Hosts
      BY <2>1 DEF AgentIds
    <2> QED BY <1>1, <1>2, <2>1, <2>2 DEF Backed, Over
  <1> QED BY <1>1, <1>3, <1>4, <1>5 DEF EnrollInv, OwnerOK

LEMMA OperatorKeeps ==
    ASSUME EnrollInv, Operator PROVE EnrollInv'
  <1>0. /\ Typed /\ join' = join /\ owner' = owner
        /\ \A g \in Hosts : JoinOK(g)
        /\ \A j \in JoinTokens : OwnerOK(j)
    BY DEF Operator, CreateToken, RevokeToken, Expire, RemoveAgent, EnrollInv
  <1>1. ASSUME NEW j \in JoinTokens, CreateToken(j) \/ RevokeToken(j) \/ Expire(j)
        PROVE  EnrollInv'
    <2>1. /\ agents' = agents /\ tokens' \in [JoinTokens -> TokenType]
          /\ \A k \in JoinTokens : tokens[k].used => tokens'[k].used
      <3>1. CASE CreateToken(j)
        BY <1>0, <3>1, TokenIs DEF CreateToken
      <3>2. CASE RevokeToken(j)
        BY <1>0, <3>2, TokenIs DEF RevokeToken
      <3>3. CASE Expire(j)
        BY <1>0, <3>3, TokenIs DEF Expire
      <3> QED BY <1>1, <3>1, <3>2, <3>3
    <2> QED BY <1>0, <2>1 DEF EnrollInv, Typed, JoinOK, OwnerOK, Over, Backed, Self
  <1>2. ASSUME NEW s \in AgentIds, RemoveAgent(s) PROVE EnrollInv'
    <2>1. PICK a : a = [status |-> "revoked", name |-> "none",
                        cred |-> IF agents[s].cred = "live" THEN "revoked"
                                 ELSE agents[s].cred]
      OBVIOUS
    <2>2. agents \in [AgentIds -> AgentType] /\ agents[s] \in AgentType
      BY <1>0 DEF Typed
    <2>3. /\ a \in AgentType /\ a.status = "revoked"
          /\ agents[s].cred # "none" => a.cred # "none"
      BY <2>1, <2>2 DEF AgentType
    <2>4. agents' = [agents EXCEPT ![s] = a] /\ tokens' = tokens
      BY <1>2, <2>1 DEF RemoveAgent
    <2>5. /\ agents' \in [AgentIds -> AgentType] /\ agents'[s] = a
          /\ \A i \in AgentIds : i # s => agents'[i] = agents[i]
      BY <2>2, <2>3, <2>4
    <2>6. \A i \in AgentIds : Backed(i) => Backed(i)'
      BY <2>3, <2>5 DEF Backed
    <2>7. ASSUME NEW g \in Hosts PROVE JoinOK(g)'
      <3>1. JoinOK(g) /\ join'[g] = join[g] /\ Self(g)' = Self(g)
        BY <1>0 DEF Self
      <3>2. CASE join[g].pc = "idle"
        BY <3>1, <3>2 DEF JoinOK
      <3>3. CASE join[g].pc # "idle"
        <4>1. Self(g) \in AgentIds
          BY <3>1, <3>3 DEF JoinOK, Self, AgentIds
        <4>2. agents[Self(g)].status # "none" => agents'[Self(g)].status # "none"
          BY <2>3, <2>5, <4>1
        <4>3. PICK t : t = Self(g)
          OBVIOUS
        <4>4. Backed(t) => Backed(t)'
          BY <2>6, <4>1, <4>3
        <4> QED BY <3>1, <4>2, <4>3, <4>4 DEF JoinOK, Backed
      <3> QED BY <3>2, <3>3
    <2>8. ASSUME NEW k \in JoinTokens PROVE OwnerOK(k)'
      <3>1. OwnerOK(k) /\ owner[k] \subseteq AgentIds
        BY <1>0 DEF Typed
      <3> QED BY <1>0, <2>4, <2>6, <3>1 DEF OwnerOK, Over
    <2>9. Typed'
      BY <1>0, <2>4, <2>5 DEF Typed
    <2> QED BY <2>7, <2>8, <2>9 DEF EnrollInv
  <1> QED BY <1>1, <1>2 DEF Operator

LEMMA RegistrationKeeps ==
    ASSUME EnrollInv, PubTyped, [Next]_vars PROVE EnrollInv'
  <1>1. CASE UNCHANGED enrollVars
    BY <1>1 DEF EnrollInv, Typed, JoinOK, OwnerOK, Over, Backed, Self, enrollVars
  <1>2. CASE ServerKilled \/ Operator
    BY <1>2, KilledKeeps, OperatorKeeps
  <1>3. ASSUME NEW h \in Hosts,
               \/ \E j \in JoinTokens, name \in Names : Join(h, j, name)
               \/ Register(h) \/ Answered(h) \/ SaveConfig(h)
        PROVE  EnrollInv'
    BY <1>3, JoinKeeps, AuthKeeps, LookupKeeps, CreateKeeps, TokenKeeps, MarkKeeps,
       AnsweredKeeps
    DEF Register
  <1> QED BY <1>1, <1>2, <1>3 DEF Next, vars

LEMMA PubTypedKept ==
    ASSUME PubTyped, [Next]_vars PROVE PubTyped'
  <1>1. CASE BootStep
    <2>1. pubkey' = pubkey \/ pubkey' \in Bootstraps \cup {"none"}
      BY <1>1
      DEF BootStep, CheckCA, CreatePrivate, WritePrivateToDisk, WritePublicToDisk,
          MintCallerToken, LoadSigner, ReadPubkey, OpenSQLite, Migrate, MigrateFails,
          Opened, Rerun, cfgVars
    <2> QED BY <2>1 DEF PubTyped
  <1>2. CASE ServerKilled \/ \E b \in Bootstraps : Killed(b)
    BY <1>2 DEF ServerKilled, Killed, cfgVars, PubTyped
  <1>3. CASE UNCHANGED bootVars
    BY <1>3 DEF bootVars, cfgVars, PubTyped
  <1>4. CASE Operator
    BY <1>3, <1>4 DEF Operator, CreateToken, RevokeToken, Expire, RemoveAgent
  <1>5. ASSUME NEW h \in Hosts, NEW j \in JoinTokens, NEW name \in Names,
               Join(h, j, name)
        PROVE  PubTyped'
    BY <1>3, <1>5 DEF Join
  <1>6. ASSUME NEW h \in Hosts, Register(h) \/ Answered(h) \/ SaveConfig(h)
        PROVE  PubTyped'
    <2>1. UNCHANGED bootVars
      BY <1>6 DEF Register, RegisterAuth, RegisterLookup, RegisterCreate,
                  RegisterToken, RegisterMark, Answered, SaveConfig
    <2> QED BY <1>3, <2>1
  <1> QED BY <1>1, <1>2, <1>3, <1>4, <1>5, <1>6 DEF Next, vars

LEMMA InitEnrollInv == Init => EnrollInv /\ PubTyped
  <1> SUFFICES ASSUME Init PROVE EnrollInv /\ PubTyped
    OBVIOUS
  <1>1. \A h \in Hosts : join[h] \in JoinType /\ join[h].pc = "idle"
    <2>1. 0 \in 0..MaxAttempts /\ "idle" \in JoinPC /\ 0 \in JoinCodes
      BY EnrollmentAssumption, CodesAndPCs
    <2> QED BY <2>1 DEF Init, JoinType
  <1>2. \A i \in AgentIds : agents[i] \in AgentType
    BY DEF Init, AgentType
  <1>3. \A j \in JoinTokens : tokens[j] \in TokenType /\ owner[j] = {}
    BY DEF Init, TokenType
  <1>4. Typed
    BY <1>1, <1>2, <1>3 DEF Init, Typed
  <1> QED BY <1>1, <1>3, <1>4
          DEF EnrollInv, JoinOK, OwnerOK, PubTyped, Init, BootInit

\* What holds between any two store calls of any registrations.
THEOREM EnrollInvariant == Spec => [](EnrollInv /\ PubTyped)
  <1>1. EnrollInv /\ PubTyped /\ [Next]_vars => (EnrollInv /\ PubTyped)'
    BY RegistrationKeeps, PubTypedKept
  <1> QED BY InitEnrollInv, <1>1, PTL DEF Spec

\* handlers_agent.go: a credential that was given out has a spent join token
\* and the rows of its Agent behind it, however registrations, removals,
\* failures and crashes fall between the five store calls.
THEOREM CredentialsAlwaysBacked == Spec => []CredentialsAreBacked
  <1>1. EnrollInv => CredentialsAreBacked
    BY DEF EnrollInv, OwnerOK, Backed, CredentialsAreBacked
  <1> QED BY <1>1, EnrollInvariant, PTL

-----------------------------------------------------------------------------
(* Registration implements the one-shot join token.                        *)

void == {j \in JoinTokens : tokens[j].revoked /\ owner[j] = {}}

\* Most steps neither redeem nor revoke.
LEMMA Stutters ==
    ASSUME owner' = owner,
           \A j \in JoinTokens : tokens'[j].revoked = tokens[j].revoked
    PROVE  UNCHANGED OneShot!oneShotVars
  BY DEF OneShot!oneShotVars

LEMMA MarkRefines ==
    ASSUME EnrollInv, PubTyped, NEW h \in Hosts, RegisterMark(h)
    PROVE  [OneShot!OneShotNext]_(OneShot!oneShotVars)
  <1>1. PICK j, s : j = join[h].tok /\ s = Self(h)
    OBVIOUS
  <1>2. j \in JoinTokens /\ s \in AgentIds /\ Typed
    BY <1>1, MarkIs DEF EnrollInv
  <1>3. CASE tokens' = tokens /\ owner' = owner
    BY <1>3, Stutters
  <1>4. CASE /\ Markable(tokens[j])
             /\ tokens' = [tokens EXCEPT ![j].used = TRUE]
             /\ owner' = [owner EXCEPT ![j] = @ \cup {s}]
    <2>1. owner[j] = {} /\ ~tokens[j].revoked
      BY <1>2, <1>4 DEF Markable, EnrollInv, OwnerOK
    <2>2. \A k \in JoinTokens : tokens'[k].revoked = tokens[k].revoked
      BY <1>2, <1>4, TokenIs
    <2>3. owner' = [owner EXCEPT ![j] = {s}]
      BY <1>4, <2>1
    <2>4. \A k \in JoinTokens : k # j => owner'[k] = owner[k]
      BY <1>2, <2>3 DEF Typed
    <2>5. void' = void
      BY <2>1, <2>2, <2>4 DEF void
    <2>6. j \notin void
      BY <2>1 DEF void
    <2>7. OneShot!Redeem(j, s)
      BY <2>1, <2>3, <2>5, <2>6 DEF OneShot!Redeem, void
    <2> QED BY <1>2, <2>7 DEF OneShot!OneShotNext
  <1> QED BY <1>1, <1>3, <1>4, MarkIs

LEMMA RevokeRefines ==
    ASSUME EnrollInv, NEW j \in JoinTokens, RevokeToken(j)
    PROVE  [OneShot!OneShotNext]_(OneShot!oneShotVars)
  <1>1. /\ owner' = owner /\ tokens'[j].revoked
        /\ \A k \in JoinTokens : k # j => tokens'[k] = tokens[k]
    BY TokenIs DEF RevokeToken, EnrollInv
  <1>2. CASE owner[j] = {}
    <2>1. void' = void \cup {j}
      BY <1>1, <1>2 DEF void
    <2>2. OneShot!Void(j)
      BY <1>1, <1>2, <2>1 DEF OneShot!Void, void
    <2> QED BY <2>2 DEF OneShot!OneShotNext
  <1>3. CASE owner[j] # {}
    <2>1. void' = void
      BY <1>1, <1>3 DEF void
    <2> QED BY <1>1, <2>1 DEF OneShot!oneShotVars, void
  <1> QED BY <1>2, <1>3

LEMMA StepRefines ==
    ASSUME EnrollInv, PubTyped, [Next]_vars
    PROVE  [OneShot!OneShotNext]_(OneShot!oneShotVars)
  <1>1. CASE tokens' = tokens /\ owner' = owner
    BY <1>1, Stutters
  <1>2. CASE UNCHANGED enrollVars \/ ServerKilled
    BY <1>1, <1>2 DEF enrollVars, ServerKilled
  <1>3. ASSUME NEW j \in JoinTokens, CreateToken(j) \/ Expire(j)
        PROVE  UNCHANGED OneShot!oneShotVars
    <2>1. /\ owner' = owner
          /\ \/ tokens' = [tokens EXCEPT ![j].made = TRUE]
             \/ tokens' = [tokens EXCEPT ![j].expired = TRUE]
      BY <1>3 DEF CreateToken, Expire
    <2>2. \A k \in JoinTokens : tokens'[k].revoked = tokens[k].revoked
      BY <2>1, TokenIs DEF EnrollInv
    <2> QED BY <2>1, <2>2, Stutters
  <1>4. CASE Operator
    BY <1>1, <1>3, <1>4, RevokeRefines DEF Operator, RemoveAgent
  <1>5. ASSUME NEW h \in Hosts,
               \/ \E j \in JoinTokens, name \in Names : Join(h, j, name)
               \/ Register(h) \/ Answered(h) \/ SaveConfig(h)
        PROVE  [OneShot!OneShotNext]_(OneShot!oneShotVars)
    <2>1. RegisterMark(h) \/ (tokens' = tokens /\ owner' = owner)
      BY <1>5 DEF Join, Register, RegisterAuth, RegisterLookup, RegisterCreate,
                  RegisterToken, Answered, SaveConfig
    <2> QED BY <1>1, <2>1, MarkRefines
  <1> QED BY <1>1, <1>2, <1>4, <1>5 DEF Next, vars, enrollVars

\* handlers_agent.go, MarkJoinTokenUsed: a join token is redeemed at most once,
\* and never after it was revoked unredeemed.
THEOREM JoinTokenRefined == Spec => ImplementsJoinToken
  <1>1. Init => OneShot!OneShotInit
    <2> SUFFICES ASSUME Init PROVE OneShot!OneShotInit
      OBVIOUS
    <2>1. \A j \in JoinTokens : ~tokens[j].revoked
      BY DEF Init
    <2> QED BY <2>1 DEF Init, OneShot!OneShotInit
  <1>2. EnrollInv /\ PubTyped /\ [Next]_vars
           => [OneShot!OneShotNext]_(OneShot!oneShotVars)
    BY StepRefines
  <1> QED BY <1>1, <1>2, EnrollInvariant, PTL
          DEF Spec, ImplementsJoinToken, OneShot!OneShotSpec

-----------------------------------------------------------------------------
(* One CA key.                                                             *)

CmdType == [pc : CmdPC, next : Nat]

ConfigType == [id : SUBSET AgentIds, ca : Bootstraps \cup {"none"}]

\* A key that is in use anywhere is the one on disk, and it is complete.
Known(k) == k = "none" \/ (k \in Bootstraps /\ k = caKey)

\* O_EXCL makes one process the owner of the file until it is complete.
KeyInv ==
    /\ cmd \in [Procs -> CmdType] /\ schemaVersion \in Nat
    /\ caKey \in Bootstraps \cup {"none", "partial"}
    /\ \A b \in Bootstraps : cmd[b].pc = "write" => caKey = "partial"
    /\ \A b, c \in Bootstraps : cmd[b].pc = "write" /\ cmd[c].pc = "write" => b = c
    /\ \A b \in Bootstraps : cmd[b].pc = "pub" => caKey = b
    /\ caPub = "partial" \/ Known(caPub)
    /\ Known(signer) /\ Known(pubkey)
    /\ config \in [Hosts -> ConfigType]
    /\ \A h \in Hosts : Known(config[h].ca) /\ Known(join[h].ca)

CmdMoves(p, pc) ==
    /\ cmd' \in [Procs -> CmdType]
    /\ cmd'[p].pc = pc
    /\ \A q \in Procs : q # p => cmd'[q] = cmd[q]

LEMMA GoToIs ==
    ASSUME KeyInv, NEW p \in Procs, NEW pc \in CmdPC, GoTo(p, pc)
    PROVE  CmdMoves(p, pc)
  <1>1. PICK q : q = [pc |-> pc, next |-> 0]
    OBVIOUS
  <1>2. q \in CmdType /\ q.pc = pc
    BY <1>1 DEF CmdType
  <1>3. cmd' = [cmd EXCEPT ![p] = q] /\ cmd \in [Procs -> CmdType]
    BY <1>1 DEF GoTo, KeyInv
  <1> QED BY <1>2, <1>3 DEF CmdMoves

LEMMA ProcFacts ==
    /\ Bootstraps \subseteq Procs /\ "server" \in Procs
    /\ "server" \notin Bootstraps /\ "none" \notin Bootstraps
    /\ "partial" \notin Bootstraps
    /\ {"idle", "create", "write", "pub", "readPub", "open", "migrate", "mint",
        "done", "failed"} \subseteq CmdPC
  BY BootAssumption DEF Procs, CmdPC

\* A step of one process that leaves the key alone.
LEMMA KeyUntouched ==
    ASSUME KeyInv, NEW p \in Procs, NEW pc, CmdMoves(p, pc),
           pc \notin {"write", "pub"}, caKey' = caKey, schemaVersion' \in Nat,
           caPub' = caPub \/ caPub' = "partial" \/ Known(caPub'),
           Known(signer'), Known(pubkey'),
           config' = config, \A h \in Hosts : join'[h].ca = join[h].ca
    PROVE  KeyInv'
  <1>1. \A b \in Bootstraps : cmd'[b].pc \in {"write", "pub"} => cmd'[b] = cmd[b]
    BY ProcFacts DEF CmdMoves
  <1> QED BY <1>1 DEF KeyInv, Known, CmdMoves

\* The key may only change while nobody knows it.
LEMMA KeyTouched ==
    ASSUME KeyInv, NEW b \in Bootstraps, NEW pc, CmdMoves(b, pc),
           caKey \notin Bootstraps,
           \A c \in Bootstraps : cmd[c].pc = "write" => c = b,
           \/ pc = "write" /\ caKey' = "partial"
           \/ pc = "pub" /\ caKey' = b
           \/ pc = "failed" /\ caKey' = "none",
           schemaVersion' = schemaVersion, caPub' = caPub,
           signer' = signer, pubkey' = pubkey, config' = config, join' = join
    PROVE  KeyInv'
  <1>1. \A c \in Bootstraps : c # b => cmd'[c] = cmd[c] /\ cmd[c].pc # "write"
                                       /\ cmd[c].pc # "pub"
    BY ProcFacts DEF CmdMoves, KeyInv
  <1>2. \A k : Known(k) => k = "none"
    BY DEF Known
  <1>3. signer = "none" /\ pubkey = "none" /\ caPub \in {"none", "partial"}
    BY <1>2 DEF KeyInv
  <1>4. \A h \in Hosts : config[h].ca = "none" /\ join[h].ca = "none"
    BY <1>2 DEF KeyInv
  <1> QED BY <1>1, <1>3, <1>4 DEF KeyInv, Known, CmdMoves

LEMMA BootKeepsKey ==
    ASSUME KeyInv, BootStep, UNCHANGED enrollVars PROVE KeyInv'
  <1>0. /\ config' = config /\ join' = join /\ schemaVersion \in Nat
        /\ Known(signer) /\ Known(pubkey)
    BY DEF enrollVars, KeyInv
  <1>1. ASSUME NEW b \in Bootstraps, CheckCA(b) \/ MintCallerToken(b) PROVE KeyInv'
    <2>1. /\ caKey' = caKey /\ caPub' = caPub /\ schemaVersion' = schemaVersion
          /\ signer' = signer /\ pubkey' = pubkey
      BY <1>1 DEF CheckCA, MintCallerToken, caVars, dbVars, cfgVars
    <2>2. PICK pc \in {"create", "failed", "open", "done"} : GoTo(b, pc)
      BY <1>1 DEF CheckCA, MintCallerToken
    <2>3. CmdMoves(b, pc)
      BY <2>2, GoToIs, ProcFacts
    <2> QED BY <1>0, <2>1, <2>2, <2>3, KeyUntouched, ProcFacts
  <1>2. ASSUME NEW b \in Bootstraps, CreatePrivate(b) PROVE KeyInv'
    <2>1. /\ caPub' = caPub /\ schemaVersion' = schemaVersion
          /\ signer' = signer /\ pubkey' = pubkey
      BY <1>2 DEF CreatePrivate, dbVars, cfgVars
    <2>2. CASE caKey = "none" /\ caKey' = "partial" /\ GoTo(b, "write")
      <3>1. CmdMoves(b, "write") /\ caKey \notin Bootstraps
        BY <2>2, GoToIs, ProcFacts
      <3>2. \A c \in Bootstraps : cmd[c].pc # "write"
        BY <2>2 DEF KeyInv
      <3> QED BY <1>0, <2>1, <2>2, <3>1, <3>2, KeyTouched
    <2>3. CASE caKey' = caKey /\ GoTo(b, "failed")
      <3>1. CmdMoves(b, "failed")
        BY <2>3, GoToIs, ProcFacts
      <3> QED BY <1>0, <2>1, <2>3, <3>1, KeyUntouched, ProcFacts
    <2> QED BY <1>2, <2>2, <2>3 DEF CreatePrivate
  <1>3. ASSUME NEW b \in Bootstraps, WritePrivateToDisk(b) PROVE KeyInv'
    <2>1. /\ caPub' = caPub /\ schemaVersion' = schemaVersion
          /\ signer' = signer /\ pubkey' = pubkey /\ cmd[b].pc = "write"
      BY <1>3 DEF WritePrivateToDisk, dbVars, cfgVars
    <2>2. PICK pc \in {"pub", "failed"} :
             /\ GoTo(b, pc)
             /\ pc = "pub" => caKey' = b
             /\ pc = "failed" => caKey' = "none"
      BY <1>3 DEF WritePrivateToDisk
    <2>3. CmdMoves(b, pc)
      BY <2>2, GoToIs, ProcFacts
    <2>4. /\ caKey \notin Bootstraps
          /\ \A c \in Bootstraps : cmd[c].pc = "write" => c = b
      BY <2>1, ProcFacts DEF KeyInv
    <2> QED BY <1>0, <2>1, <2>2, <2>3, <2>4, KeyTouched
  <1>4. ASSUME NEW b \in Bootstraps, WritePublicToDisk(b) PROVE KeyInv'
    <2>1. /\ caKey' = caKey /\ schemaVersion' = schemaVersion
          /\ signer' = signer /\ pubkey' = pubkey /\ caKey = b
      BY <1>4 DEF WritePublicToDisk, dbVars, cfgVars, KeyInv
    <2>2. PICK pc \in {"open", "failed"} :
             GoTo(b, pc) /\ (caPub' = b \/ caPub' = "partial")
      BY <1>4 DEF WritePublicToDisk
    <2>3. CmdMoves(b, pc)
      BY <2>2, GoToIs, ProcFacts
    <2>4. caPub' = "partial" \/ Known(caPub')
      BY <2>1, <2>2 DEF Known
    <2> QED BY <1>0, <2>1, <2>2, <2>3, <2>4, KeyUntouched, ProcFacts
  <1>5. CASE LoadSigner
    <2>1. /\ caKey' = caKey /\ caPub' = caPub /\ schemaVersion' = schemaVersion
          /\ pubkey' = pubkey
      BY <1>5 DEF LoadSigner, caVars, dbVars
    <2>2. PICK pc \in {"failed", "open", "readPub"} :
             GoTo("server", pc) /\ Known(signer')
      BY <1>0, <1>5 DEF LoadSigner, Known, KeyInv
    <2>3. CmdMoves("server", pc)
      BY <2>2, GoToIs, ProcFacts
    <2> QED BY <1>0, <2>1, <2>2, <2>3, KeyUntouched, ProcFacts
  <1>6. CASE ReadPubkey
    <2>1. /\ caKey' = caKey /\ caPub' = caPub /\ schemaVersion' = schemaVersion
          /\ signer' = signer /\ GoTo("server", "open")
      BY <1>6 DEF ReadPubkey, caVars, dbVars
    <2>2. Known(pubkey')
      BY <1>6, ProcFacts DEF ReadPubkey, Known, KeyInv
    <2>3. CmdMoves("server", "open")
      BY <2>1, GoToIs, ProcFacts
    <2> QED BY <1>0, <2>1, <2>2, <2>3, KeyUntouched, ProcFacts
  <1>7. ASSUME NEW p \in Procs, OpenSQLite(p) \/ Migrate(p) PROVE KeyInv'
    <2>0. cmd[p] \in CmdType /\ cmd[p].next \in Nat /\ cmd \in [Procs -> CmdType]
      BY DEF KeyInv, CmdType
    <2>1. /\ caKey' = caKey /\ caPub' = caPub /\ signer' = signer /\ pubkey' = pubkey
          /\ schemaVersion' \in Nat
      BY <1>0, <1>7, <2>0 DEF OpenSQLite, Migrate, caVars, cfgVars, dbVars
    <2>2. CmdMoves(p, "migrate")
      <3>1. CASE OpenSQLite(p)
        <4>1. PICK q : q = [pc |-> "migrate", next |-> schemaVersion + 1]
          OBVIOUS
        <4>2. q \in CmdType /\ q.pc = "migrate"
          BY <1>0, <4>1, ProcFacts DEF CmdType
        <4>3. cmd' = [cmd EXCEPT ![p] = q]
          BY <3>1, <4>1 DEF OpenSQLite
        <4> QED BY <2>0, <4>2, <4>3 DEF CmdMoves
      <3>2. CASE Migrate(p)
        <4>1. PICK q : q = [cmd[p] EXCEPT !.next = cmd[p].next + 1]
          OBVIOUS
        <4>2. cmd' = [cmd EXCEPT ![p] = q] /\ cmd[p].pc = "migrate"
          BY <3>2, <4>1 DEF Migrate
        <4>3. q \in CmdType /\ q.pc = "migrate"
          BY <2>0, <4>1, <4>2 DEF CmdType
        <4> QED BY <2>0, <4>2, <4>3 DEF CmdMoves
      <3> QED BY <1>7, <3>1, <3>2
    <2> QED BY <1>0, <2>1, <2>2, KeyUntouched
  <1>8. ASSUME NEW p \in Procs, MigrateFails(p) \/ Opened(p) \/ Rerun(p) PROVE KeyInv'
    <2>1. /\ caKey' = caKey /\ caPub' = caPub /\ schemaVersion' = schemaVersion
      BY <1>8 DEF MigrateFails, Opened, Rerun, caVars, dbVars
    <2>2. signer' \in {signer, "none"} /\ pubkey' \in {pubkey, "none"}
      BY <1>8 DEF MigrateFails, Opened, Rerun, cfgVars
    <2>3. Known(signer') /\ Known(pubkey')
      BY <1>0, <2>2 DEF Known
    <2>4. PICK pc \in {"failed", "done", "mint", "idle"} : GoTo(p, pc)
      BY <1>8 DEF MigrateFails, Opened, Rerun
    <2>5. CmdMoves(p, pc)
      BY <2>4, GoToIs, ProcFacts
    <2> QED BY <1>0, <2>1, <2>3, <2>4, <2>5, KeyUntouched
  <1> QED BY <1>1, <1>2, <1>3, <1>4, <1>5, <1>6, <1>7, <1>8 DEF BootStep

LEMMA KilledKeepsKey ==
    ASSUME KeyInv, EnrollInv,
           ServerKilled \/ (\E b \in Bootstraps : Killed(b) /\ UNCHANGED enrollVars)
    PROVE  KeyInv'
  <1>1. PICK p \in Procs : Killed(p)
    BY ProcFacts DEF ServerKilled
  <1>2. /\ caKey' = caKey /\ caPub' = caPub /\ schemaVersion' = schemaVersion
        /\ signer' = signer /\ pubkey' = pubkey /\ GoTo(p, "failed")
    BY <1>1 DEF Killed, caVars, dbVars, cfgVars
  <1>3. CmdMoves(p, "failed")
    BY <1>2, GoToIs, ProcFacts
  <1>4. config' = config
    BY DEF ServerKilled, enrollVars
  <1>5. ASSUME NEW h \in Hosts PROVE join'[h].ca = join[h].ca
    <2>1. CASE ServerKilled
      <3> DEFINE q == [join[h] EXCEPT !.pc = "idle"]
      <3>1. q.ca = join[h].ca
        BY DEF EnrollInv, Typed, JoinType
      <3>2. join'[h] = IF join[h].pc \in {"idle", "save"} THEN join[h] ELSE q
        BY <2>1 DEF ServerKilled
      <3> HIDE DEF q
      <3> QED BY <3>1, <3>2
    <2>2. CASE UNCHANGED enrollVars
      BY <2>2 DEF enrollVars
    <2> QED BY <2>1, <2>2
  <1>6. schemaVersion \in Nat /\ Known(signer) /\ Known(pubkey)
    BY DEF KeyInv
  <1> QED BY <1>2, <1>3, <1>4, <1>5, <1>6, KeyUntouched

\* The key travels from the server's memory into an answer and from there into
\* agent.toml.
LEMMA HandOutKeepsKey ==
    ASSUME KeyInv, EnrollInv, PubTyped, UNCHANGED bootVars,
           NEW h \in Hosts,
           \/ \E j \in JoinTokens, name \in Names : Join(h, j, name)
           \/ Register(h) \/ Answered(h) \/ SaveConfig(h)
    PROVE  KeyInv'
  <1>0. Typed /\ UNCHANGED <<caKey, caPub, schemaVersion, cmd, signer, pubkey>>
    BY DEF EnrollInv, bootVars, caVars, dbVars, cfgVars
  <1>1. \A k : Known(k) => Known(k)'
    BY <1>0 DEF Known
  <1>2. \A g \in Hosts : g # h => join'[g] = join[g]
    BY <1>0 DEF Join, Register, RegisterAuth, RegisterLookup, RegisterCreate,
                RegisterToken, RegisterMark, Answered, SaveConfig, Step, Reply, Typed
  <1>3. join'[h].ca \in {join[h].ca, pubkey, "none"}
    <2>1. CASE \E j \in JoinTokens, name \in Names : Join(h, j, name)
      BY <1>0, <2>1 DEF Join, Typed
    <2>2. CASE \E pc \in JoinPC : Step(h, pc)
      BY <1>0, <2>2, StepIs
    <2>3. CASE \E code \in JoinCodes : Reply(h, code)
      BY <1>0, <2>3, ReplyIs
    <2>4. CASE join' = [join EXCEPT ![h].pc = "answered", ![h].code = 200,
                                    ![h].ca = pubkey]
      <3>1. PICK k : k = pubkey
        OBVIOUS
      <3> QED BY <1>0, <2>4, <3>1, GivenIs DEF PubTyped
    <2>5. \/ \E j \in JoinTokens, name \in Names : Join(h, j, name)
          \/ \E pc \in JoinPC : Step(h, pc)
          \/ \E code \in JoinCodes : Reply(h, code)
          \/ join' = [join EXCEPT ![h].pc = "answered", ![h].code = 200,
                                  ![h].ca = pubkey]
      <3>1. CASE RegisterAuth(h) \/ RegisterLookup(h) \/ RegisterCreate(h)
        BY <3>1, CodesAndPCs DEF RegisterAuth, RegisterLookup, RegisterCreate
      <3>2. CASE RegisterToken(h) \/ RegisterMark(h)
        BY <3>2, CodesAndPCs DEF RegisterToken, RegisterMark
      <3>3. CASE Answered(h) \/ SaveConfig(h)
        BY <3>3, CodesAndPCs DEF Answered, SaveConfig
      <3> QED BY <3>1, <3>2, <3>3 DEF Register
    <2> QED BY <2>1, <2>2, <2>3, <2>4, <2>5
  <1>4. ASSUME NEW g \in Hosts PROVE Known(join[g].ca)'
    <2>1. Known(join[g].ca) /\ Known(pubkey) /\ Known("none")
      BY DEF KeyInv, Known
    <2>2. join'[g].ca \in {join[g].ca, pubkey, "none"}
      BY <1>2, <1>3
    <2> QED BY <1>0, <2>1, <2>2 DEF Known
  <1>5. /\ config' \in [Hosts -> ConfigType]
        /\ \A g \in Hosts :
              config'[g] = config[g] \/ (g = h /\ config'[g].ca = join[h].ca)
    <2>1. config \in [Hosts -> ConfigType]
      BY DEF KeyInv
    <2>2. CASE config' = config
      BY <2>1, <2>2
    <2>3. CASE SaveConfig(h) /\ config' # config
      <3>1. PICK c : c = [id |-> {Self(h)}, ca |-> join[h].ca]
        OBVIOUS
      <3>2. Self(h) \in AgentIds /\ join[h].ca \in Bootstraps \cup {"none"}
        BY <1>0, <2>3 DEF SaveConfig, EnrollInv, JoinOK, Self, AgentIds, Typed, JoinType
      <3>3. c \in ConfigType /\ c.ca = join[h].ca
        BY <3>1, <3>2 DEF ConfigType
      <3>4. config' = [config EXCEPT ![h] = c]
        BY <2>3, <3>1 DEF SaveConfig
      <3> QED BY <2>1, <3>3, <3>4
    <2> QED BY <2>2, <2>3 DEF Join, Register, RegisterAuth, RegisterLookup,
               RegisterCreate, RegisterToken, RegisterMark, Answered
  <1>6. ASSUME NEW g \in Hosts PROVE Known(config[g].ca)'
    <2>1. Known(config[g].ca) /\ Known(join[h].ca)
      BY DEF KeyInv
    <2> QED BY <1>0, <1>5, <2>1 DEF Known
  <1> QED BY <1>0, <1>4, <1>5, <1>6 DEF KeyInv, Known

LEMMA KeyKept ==
    ASSUME KeyInv, EnrollInv, PubTyped, [Next]_vars PROVE KeyInv'
  <1>1. CASE UNCHANGED vars
    BY <1>1 DEF vars, bootVars, caVars, dbVars, cfgVars, enrollVars, KeyInv, Known
  <1>2. CASE Operator
    <2>1. UNCHANGED bootVars /\ join' = join /\ config' = config
      BY <1>2 DEF Operator, CreateToken, RevokeToken, Expire, RemoveAgent
    <2> QED BY <2>1 DEF bootVars, caVars, dbVars, cfgVars, KeyInv, Known
  <1>3. ASSUME NEW h \in Hosts,
               \/ \E j \in JoinTokens, name \in Names : Join(h, j, name)
               \/ Register(h) \/ Answered(h) \/ SaveConfig(h)
        PROVE  KeyInv'
    <2>1. UNCHANGED bootVars
      BY <1>3 DEF Join, Register, RegisterAuth, RegisterLookup, RegisterCreate,
                  RegisterToken, RegisterMark, Answered, SaveConfig
    <2> QED BY <1>3, <2>1, HandOutKeepsKey
  <1> QED BY <1>1, <1>2, <1>3, BootKeepsKey, KilledKeepsKey DEF Next

LEMMA InitKeyInv == Init => KeyInv
  <1> SUFFICES ASSUME Init PROVE KeyInv
    OBVIOUS
  <1>1. \A p \in Procs : cmd[p] \in CmdType /\ cmd[p].pc = "idle"
    BY ProcFacts DEF Init, BootInit, CmdType
  <1>2. cmd \in [Procs -> CmdType]
    BY <1>1 DEF Init, BootInit
  <1>3. \A h \in Hosts : config[h] = NoConfig /\ join[h].ca = "none"
    BY DEF Init
  <1>4. /\ NoConfig \in ConfigType
        /\ NoConfig.ca = "none"
    BY DEF NoConfig, ConfigType
  <1>5. config \in [Hosts -> ConfigType]
    BY <1>4 DEF Init
  <1> QED BY <1>1, <1>2, <1>3, <1>4, <1>5, ProcFacts DEF Init, BootInit, KeyInv, Known

\* ca/ca.go, server_cmd.go: however bootstraps race and crash and the server is
\* restarted, a host trusts the key the server signs with.
THEOREM TrustedKeyAlwaysSigns == Spec => []TrustedKeySigns
  <1>1. KeyInv /\ EnrollInv /\ PubTyped /\ [Next]_vars => KeyInv'
    BY KeyKept
  <1>2. KeyInv => TrustedKeySigns
    BY DEF KeyInv, Known, TrustedKeySigns
  <1> QED BY InitKeyInv, <1>1, <1>2, EnrollInvariant, PTL DEF Spec

-----------------------------------------------------------------------------
(* The schema.                                                             *)

\* The tables after each statement of migrations.go.
SchemaList ==
    << {"nodes"},
       {"nodes", "tokens"},
       {"nodes", "tokens", "agents"},
       {"nodes", "tokens", "agents"},
       {"nodes", "tokens", "agents", "tokens_v2"},
       {"nodes", "tokens", "agents", "tokens_v2"},
       {"nodes", "agents", "tokens_v2"},
       {"nodes", "agents", "tokens"},
       {"agents", "tokens"},
       {"agents", "tokens", "update_policy"} >>

Schemas == [n \in 0..Len(Migrations) |-> IF n = 0 THEN {} ELSE SchemaList[n]]

LEMMA TenMigrations == Len(Migrations) = 10
  BY DEF Migrations

LEMMA SchemaStep ==
    ASSUME NEW n \in 1..10
    PROVE  SchemaList[n] = Executed(Migrations[n], IF n = 1 THEN {} ELSE SchemaList[n - 1])
<1> USE DEF SchemaList, Migrations, Executed
<1>1. CASE n = 1
  BY <1>1
<1>2. CASE n = 2
  BY <1>2
<1>3. CASE n = 3
  BY <1>3
<1>4. CASE n = 4
  BY <1>4
<1>5. CASE n = 5
  BY <1>5
<1>6. CASE n = 6
  BY <1>6
<1>7. CASE n = 7
  BY <1>7
<1>8. CASE n = 8
  BY <1>8
<1>9. CASE n = 9
  BY <1>9
<1>10. CASE n = 10
  BY <1>10
<1> QED
  BY <1>1, <1>2, <1>3, <1>4, <1>5, <1>6, <1>7, <1>8, <1>9, <1>10

\* The recursive definition of the schema has a solution, and so unfolds.
LEMMA SchemaUnfolds ==
    SchemaAt = [n \in 0..Len(Migrations) |->
                  IF n = 0 THEN {} ELSE Executed(Migrations[n], SchemaAt[n - 1])]
<1> DEFINE P(f) == f = [n \in 0..Len(Migrations) |->
                  IF n = 0 THEN {} ELSE Executed(Migrations[n], f[n - 1])]
<1>1. P(Schemas)
  <2>1. ASSUME NEW n \in 1..10 PROVE Schemas[n] = Executed(Migrations[n], Schemas[n - 1])
    <3>1. Schemas[n] = SchemaList[n] /\ Schemas[n - 1] = IF n = 1 THEN {} ELSE SchemaList[n - 1]
      BY TenMigrations DEF Schemas
    <3> QED
      BY <3>1, SchemaStep
  <2>2. Schemas[0] = {}
    BY TenMigrations DEF Schemas
  <2>3. Schemas = [n \in 0..Len(Migrations) |-> Schemas[n]]
    BY DEF Schemas
  <2>4. \A n \in 0..Len(Migrations) : Schemas[n] =
       IF n = 0 THEN {} ELSE Executed(Migrations[n], Schemas[n - 1])
    BY <2>1, <2>2, TenMigrations
  <2> QED
    BY <2>3, <2>4
<1>2. \E f : P(f)
  BY <1>1
<1>3. SchemaAt = CHOOSE f : P(f)
  BY DEF SchemaAt
<1> HIDE DEF P
<1>4. P(CHOOSE f : P(f))
  BY <1>2
<1>5. P(SchemaAt)
  BY <1>3, <1>4
<1> QED
  BY <1>5 DEF P

LEMMA SchemaIs == SchemaAt[0] = {} /\ \A n \in 1..10 : SchemaAt[n] = SchemaList[n]
<1>0. SchemaAt[0] = {}
  BY SchemaUnfolds, TenMigrations
<1>a. \A n \in 1..10 : SchemaAt[n] = Executed(Migrations[n], SchemaAt[n - 1])
  BY SchemaUnfolds, TenMigrations
<1>b. \A n \in 2..10 : SchemaAt[n - 1] = SchemaList[n - 1] => SchemaAt[n] = SchemaList[n]
  BY <1>a, SchemaStep
<1>1. SchemaAt[1] = SchemaList[1]
  BY <1>0, <1>a, SchemaStep
<1>2. SchemaAt[2] = SchemaList[2]
  BY <1>b, <1>1
<1>3. SchemaAt[3] = SchemaList[3]
  BY <1>b, <1>2
<1>4. SchemaAt[4] = SchemaList[4]
  BY <1>b, <1>3
<1>5. SchemaAt[5] = SchemaList[5]
  BY <1>b, <1>4
<1>6. SchemaAt[6] = SchemaList[6]
  BY <1>b, <1>5
<1>7. SchemaAt[7] = SchemaList[7]
  BY <1>b, <1>6
<1>8. SchemaAt[8] = SchemaList[8]
  BY <1>b, <1>7
<1>9. SchemaAt[9] = SchemaList[9]
  BY <1>b, <1>8
<1>10. SchemaAt[10] = SchemaList[10]
  BY <1>b, <1>9
<1> QED
  BY <1>0, <1>1, <1>2, <1>3, <1>4, <1>5, <1>6, <1>7, <1>8, <1>9, <1>10

\* SQLite accepts each statement on the schema that those before it leave.
LEMMA SchemaAccepted ==
    ASSUME NEW n \in 1..10
    PROVE  Accepted(Migrations[n], IF n = 1 THEN {} ELSE SchemaList[n - 1])
<1> DEFINE s == Migrations[n]
           ts == IF n = 1 THEN {} ELSE SchemaList[n - 1]
<1>1. CASE n = 1
  <2>1. s.op = "create" /\ s.t = "nodes" /\ ts = {}
    BY <1>1 DEF Migrations, SchemaList
  <2> QED
    BY <2>1 DEF Accepted
<1>2. CASE n = 2
  <2>1. s.op = "create" /\ s.t = "tokens" /\ ts = {"nodes"}
    BY <1>2 DEF Migrations, SchemaList
  <2> QED
    BY <2>1 DEF Accepted
<1>3. CASE n = 3
  <2>1. s.op = "create" /\ s.t = "agents" /\ ts = {"nodes", "tokens"}
    BY <1>3 DEF Migrations, SchemaList
  <2> QED
    BY <2>1 DEF Accepted
<1>4. CASE n = 4
  <2>1. s.op = "dropIf" /\ s.t = "tasks" /\ ts = {"nodes", "tokens", "agents"}
    BY <1>4 DEF Migrations, SchemaList
  <2> QED
    BY <2>1 DEF Accepted
<1>5. CASE n = 5
  <2>1. s.op = "create" /\ s.t = "tokens_v2" /\ ts = {"nodes", "tokens", "agents"}
    BY <1>5 DEF Migrations, SchemaList
  <2> QED
    BY <2>1 DEF Accepted
<1>6. CASE n = 6
  <2>1. s.op = "copy" /\ s.t = "tokens_v2" /\ ts = {"nodes", "tokens", "agents", "tokens_v2"}
    BY <1>6 DEF Migrations, SchemaList
  <2> QED
    BY <2>1 DEF Accepted
<1>7. CASE n = 7
  <2>1. s.op = "drop" /\ s.t = "tokens" /\ ts = {"nodes", "tokens", "agents", "tokens_v2"}
    BY <1>7 DEF Migrations, SchemaList
  <2> QED
    BY <2>1 DEF Accepted
<1>8. CASE n = 8
  <2>1. s.op = "rename" /\ s.t = "tokens_v2" /\ ts = {"nodes", "agents", "tokens_v2"}
    BY <1>8 DEF Migrations, SchemaList
  <2> QED
    BY <2>1 DEF Accepted
<1>9. CASE n = 9
  <2>1. s.op = "dropIf" /\ s.t = "nodes" /\ ts = {"nodes", "agents", "tokens"}
    BY <1>9 DEF Migrations, SchemaList
  <2> QED
    BY <2>1 DEF Accepted
<1>10. CASE n = 10
  <2>1. s.op = "create" /\ s.t = "update_policy" /\ ts = {"agents", "tokens"}
    BY <1>10 DEF Migrations, SchemaList
  <2> QED
    BY <2>1 DEF Accepted
<1> QED
  BY <1>1, <1>2, <1>3, <1>4, <1>5, <1>6, <1>7, <1>8, <1>9, <1>10

\* One process at a time is inside OpenSQLite, and it executes the statement
\* after the recorded version.
SchemaInv ==
    /\ schemaVersion \in 0..Len(Migrations)
    /\ ~OpenersOverlap =>
          /\ \A p, q \in Procs : cmd[p].pc = "migrate" /\ cmd[q].pc = "migrate" => p = q
          /\ \A p \in Procs : cmd[p].pc = "migrate" => cmd[p].next = schemaVersion + 1
          /\ tables = SchemaAt[schemaVersion]

\* A process that moves, and not into OpenSQLite.
LEMMA SchemaUntouched ==
    ASSUME KeyInv, SchemaInv, UNCHANGED dbVars,
           NEW p \in Procs, NEW pc \in CmdPC \ {"migrate"}, GoTo(p, pc)
    PROVE  SchemaInv'
<1>1. CmdMoves(p, pc)
  BY GoToIs
<1>2. \A q \in Procs : cmd'[q].pc = "migrate" => cmd'[q] = cmd[q]
  BY <1>1 DEF CmdMoves
<1> QED
  BY <1>2 DEF SchemaInv, dbVars

LEMMA OpenKeepsSchema ==
    ASSUME KeyInv, SchemaInv, NEW p \in Procs, OpenSQLite(p)
    PROVE  SchemaInv'
<1>1. cmd \in [Procs -> CmdType] /\ UNCHANGED <<tables, schemaVersion>>
  BY DEF KeyInv, OpenSQLite, dbVars
<1>2. PICK c : c = [pc |-> "migrate", next |-> schemaVersion + 1]
  OBVIOUS
<1>3. c.pc = "migrate" /\ c.next = schemaVersion + 1 /\ cmd' = [cmd EXCEPT ![p] = c]
  BY <1>2 DEF OpenSQLite
<1>4. ~OpenersOverlap => \A q \in Procs : cmd[q].pc # "migrate"
  BY DEF OpenSQLite
<1> QED
  BY <1>1, <1>3, <1>4 DEF SchemaInv

LEMMA MigrateKeepsSchema ==
    ASSUME KeyInv, SchemaInv, NEW p \in Procs, Migrate(p)
    PROVE  SchemaInv'
<1> DEFINE n == cmd[p].next
<1>1. /\ cmd \in [Procs -> CmdType] /\ cmd[p].pc = "migrate"
      /\ n \in Nat /\ n <= Len(Migrations) /\ n <= 10
      /\ tables' = Executed(Migrations[n], tables) /\ schemaVersion' = n
  BY TenMigrations DEF KeyInv, CmdType, Migrate
<1>2. PICK c : c = [cmd[p] EXCEPT !.next = n + 1]
  OBVIOUS
<1>3. c.pc = "migrate" /\ c.next = n + 1 /\ cmd' = [cmd EXCEPT ![p] = c]
  BY <1>1, <1>2 DEF Migrate, CmdType
<1>4. schemaVersion' \in 0..Len(Migrations)
  BY <1>1, TenMigrations
<1>5. ASSUME ~OpenersOverlap
      PROVE  /\ \A q \in Procs : cmd'[q].pc = "migrate" => q = p
             /\ tables' = SchemaAt[n]
  <2>1. /\ n = schemaVersion + 1 /\ tables = SchemaAt[schemaVersion]
        /\ schemaVersion \in 0..Len(Migrations)
        /\ \A q \in Procs : cmd[q].pc = "migrate" => q = p
    BY <1>1, <1>5 DEF SchemaInv
  <2>2. n \in 0..Len(Migrations) /\ n # 0 /\ schemaVersion = n - 1
    BY <1>1, <2>1, TenMigrations
  <2>3. SchemaAt[n] = Executed(Migrations[n], SchemaAt[n - 1])
    BY <2>2, SchemaUnfolds
  <2> QED
    BY <1>1, <1>3, <2>1, <2>2, <2>3
<1> QED
  BY <1>1, <1>3, <1>4, <1>5 DEF SchemaInv

LEMMA SchemaKept ==
    ASSUME KeyInv, SchemaInv, [Next]_vars PROVE SchemaInv'
<1>1. CASE UNCHANGED bootVars
  BY <1>1 DEF bootVars, dbVars, SchemaInv
<1>2. ASSUME NEW b \in Bootstraps,
             \/ CheckCA(b) \/ CreatePrivate(b) \/ WritePrivateToDisk(b)
             \/ WritePublicToDisk(b) \/ MintCallerToken(b)
      PROVE  SchemaInv'
  <2>1. UNCHANGED dbVars
    BY <1>2 DEF CheckCA, CreatePrivate, WritePrivateToDisk, WritePublicToDisk,
       MintCallerToken
  <2>2. \E pc \in {"create", "failed", "open", "write", "pub", "done"} : GoTo(b, pc)
    BY <1>2 DEF CheckCA, CreatePrivate, WritePrivateToDisk, WritePublicToDisk,
       MintCallerToken
  <2> QED
    BY <2>1, <2>2, SchemaUntouched, ProcFacts
<1>3. CASE LoadSigner \/ ReadPubkey
  <2>1. UNCHANGED dbVars
    BY <1>3 DEF LoadSigner, ReadPubkey
  <2>2. \E pc \in {"failed", "open", "readPub"} : GoTo("server", pc)
    BY <1>3 DEF LoadSigner, ReadPubkey
  <2> QED
    BY <2>1, <2>2, SchemaUntouched, ProcFacts
<1>4. ASSUME NEW p \in Procs, MigrateFails(p) \/ Opened(p) \/ Rerun(p) \/ Killed(p)
      PROVE  SchemaInv'
  <2>1. UNCHANGED dbVars
    BY <1>4 DEF MigrateFails, Opened, Rerun, Killed
  <2>2. \E pc \in {"failed", "done", "mint", "idle"} : GoTo(p, pc)
    BY <1>4 DEF MigrateFails, Opened, Rerun, Killed
  <2> QED
    BY <2>1, <2>2, SchemaUntouched, ProcFacts
<1>5. CASE BootStep
  BY <1>2, <1>3, <1>4, <1>5, OpenKeepsSchema, MigrateKeepsSchema DEF BootStep
<1>6. CASE Operator
  BY <1>1, <1>6 DEF Operator, CreateToken, RevokeToken, Expire, RemoveAgent
<1>7. ASSUME NEW h \in Hosts,
             \/ \E j \in JoinTokens, name \in Names : Join(h, j, name)
             \/ Register(h) \/ Answered(h) \/ SaveConfig(h)
      PROVE  SchemaInv'
  BY <1>1, <1>7 DEF Join, Register, RegisterAuth, RegisterLookup, RegisterCreate,
     RegisterToken, RegisterMark, Answered, SaveConfig
<1>8. CASE \E p \in Procs : Killed(p)
  BY <1>4, <1>8
<1>9. CASE UNCHANGED vars
  BY <1>1, <1>9 DEF vars
<1> QED
  BY <1>5, <1>6, <1>7, <1>8, <1>9, ProcFacts DEF Next, ServerKilled

LEMMA InitSchemaInv == Init => SchemaInv
<1> SUFFICES ASSUME Init PROVE SchemaInv
  OBVIOUS
<1>1. /\ schemaVersion = 0 /\ tables = {}
      /\ cmd = [p \in Procs |-> [pc |-> "idle", next |-> 0]]
  BY DEF Init, BootInit
<1>2. \A p \in Procs : cmd[p].pc = "idle"
  BY <1>1
<1>3. SchemaAt[0] = {} /\ 0 \in 0..Len(Migrations)
  BY SchemaUnfolds, TenMigrations
<1> QED
  BY <1>1, <1>2, <1>3 DEF SchemaInv

LEMMA SchemaInvariant == Spec => [](KeyInv /\ SchemaInv)
<1>1. KeyInv /\ SchemaInv /\ EnrollInv /\ PubTyped /\ [Next]_vars => (KeyInv /\ SchemaInv)'
  BY KeyKept, SchemaKept
<1> QED
  BY InitKeyInv, InitSchemaInv, <1>1, EnrollInvariant, PTL DEF Spec

\* store/sqlite.go, migrations.go: wherever bootstraps and servers crashed in
\* the middle of the migrations, the tables are those of the recorded version,
\* as long as they open the database one after the other.
THEOREM SchemaAlwaysMatches == Spec => []SchemaMatchesVersion
<1>1. SchemaInv => SchemaMatchesVersion
  BY DEF SchemaInv, SchemaMatchesVersion
<1> QED
  BY <1>1, SchemaInvariant, PTL

\* No statement is left that SQLite would refuse.
MigrationResumes ==
    ~OpenersOverlap => \A p \in Procs :
        cmd[p].pc = "migrate" /\ cmd[p].next <= Len(Migrations) =>
            Accepted(Migrations[cmd[p].next], tables)

\* migrations.go: an open that resumes an interrupted migration never meets a
\* table that is already there, or one that is gone; it cannot wedge.
THEOREM MigrationsResume == Spec => []MigrationResumes
<1>1. ASSUME KeyInv, SchemaInv, ~OpenersOverlap, NEW p \in Procs,
             cmd[p].pc = "migrate", cmd[p].next <= Len(Migrations)
      PROVE  Accepted(Migrations[cmd[p].next], tables)
  <2>1. /\ cmd[p].next = schemaVersion + 1 /\ schemaVersion \in 0..Len(Migrations)
        /\ tables = SchemaAt[schemaVersion]
    BY <1>1 DEF SchemaInv
  <2>2. PICK n \in 1..10 : n = cmd[p].next /\ schemaVersion = n - 1
    BY <1>1, <2>1, TenMigrations
  <2>3. SchemaAt[n - 1] = IF n = 1 THEN {} ELSE SchemaList[n - 1]
    BY SchemaIs, TenMigrations
  <2> QED
    BY <2>1, <2>2, <2>3, SchemaAccepted
<1>2. KeyInv /\ SchemaInv => MigrationResumes
  BY <1>1 DEF MigrationResumes
<1> QED
  BY <1>2, SchemaInvariant, PTL

=============================================================================

-------------------------- MODULE CertIssueProofs --------------------------
(***************************************************************************)
(* Theorems about CertIssue, for every number of callers, Agents, users,   *)
(* requests, ACL changes, restarts and failures, and for every ttl.        *)
(***************************************************************************)
EXTENDS CertIssue, TLAPS

RequestType ==
    [pc : CertPC, code : Codes, next : Codes, serial : Nat,
     grant : Grants \cup {<<>>}, ttl : Int,
     granted : BOOLEAN, late : BOOLEAN, unread : BOOLEAN, unlogged : BOOLEAN]

\* What a request has established by the time it is at a step: its caller was
\* not revoked when it arrived, the ACL held its grant, its ttl is in bounds.
RequestOK(q) ==
    /\ q.pc # "answered" => q.code = 0
    /\ q.pc = "auth" /\ q.late => q.grant[1] \in revoked
    /\ q.pc \notin {"free", "answered"} /\ q.grant \in acl => q.granted
    /\ q.pc \in {"validate", "resolve", "acl", "sign", "audit"} => ~q.late
    /\ q.pc \in {"resolve", "acl", "sign", "audit"} => q.ttl <= certTTLMax
    /\ q.pc \in {"sign", "audit"} => q.granted
    /\ q.pc = "audit" => q.serial <= serial /\ ValidAfter < ValidBefore(q.ttl)

\* What stays true of a certificate. Its request is over, so that nothing
\* rewrites what is known about it.
CertOK(c) ==
    /\ c.req \in Requests
    /\ req[c.req].pc = "answered" /\ req[c.req].granted /\ ~req[c.req].late
    /\ c.ttl \in Int /\ c.ttl <= certTTLMax /\ ValidAfter < ValidBefore(c.ttl)
    /\ c.serial \in Nat
    /\ c.life \in 0..life
    /\ c.life = life => c.serial <= serial
    /\ [outcome |-> "signed", cert |-> c] \in audit

\* A serial that was drawn is in one request or one certificate.
SerialsDrawn ==
    /\ \A r, q \in Requests :
          (req[r].pc = "audit" /\ req[q].pc = "audit" /\ r # q) =>
              req[r].serial # req[q].serial
    /\ \A c \in certs : \A r \in Requests :
          (req[r].pc = "audit" /\ c.life = life) => c.serial # req[r].serial
    /\ SerialsAreUnique

CertInv ==
    /\ TypeOK
    /\ \A r \in Requests : RequestOK(req[r])
    /\ \A c \in certs : CertOK(c)
    /\ SerialsDrawn
    /\ DenialsAreAudited

ReqTypeOK == req \in [Requests -> RequestType]

\* What every step of a handler does to the rest: it moves one request that
\* was not over, and the audit table only grows.
Moves(r) ==
    /\ req[r].pc # "answered"
    /\ req' = [req EXCEPT ![r] = req'[r]]
    /\ req'[r] \in RequestType
    /\ serial' \in {serial, serial + 1}
    /\ audit \subseteq audit'
    /\ UNCHANGED <<tableVars, life>>

-----------------------------------------------------------------------------
(* The steps, one record at a time.                                        *)

\* What is known about a request that a step moves and does not judge.
Same(r) ==
    /\ req'[r].grant = req[r].grant
    /\ req'[r].granted = req[r].granted
    /\ req'[r].late = req[r].late

LEMMA TypeOKReq == TypeOK => ReqTypeOK
  BY DEF TypeOK, ReqTypeOK, RequestType

LEMMA RequestIs ==
    ASSUME ReqTypeOK, NEW r \in Requests, NEW q \in RequestType,
           req' = [req EXCEPT ![r] = q]
    PROVE  /\ req'[r] = q /\ req'[r] \in RequestType
           /\ req' = [req EXCEPT ![r] = req'[r]]
  BY DEF ReqTypeOK

LEMMA StepIs ==
    ASSUME ReqTypeOK, NEW r \in Requests, NEW pc \in CertPC, Step(r, pc)
    PROVE  /\ req' = [req EXCEPT ![r] = req'[r]] /\ req'[r] \in RequestType
           /\ req'[r].pc = pc /\ req'[r].code = req[r].code
           /\ req'[r].ttl = req[r].ttl
           /\ Same(r)
  <1> DEFINE q == [req[r] EXCEPT !.pc = pc]
  <1>1. q \in RequestType
    BY DEF ReqTypeOK, RequestType
  <1>2. req' = [req EXCEPT ![r] = q]
    BY DEF Step
  <1>3. /\ q.pc = pc /\ q.code = req[r].code /\ q.ttl = req[r].ttl
        /\ q.grant = req[r].grant /\ q.granted = req[r].granted
        /\ q.late = req[r].late
    BY DEF ReqTypeOK, RequestType
  <1> HIDE DEF q
  <1> QED BY <1>1, <1>2, <1>3, RequestIs DEF Same

LEMMA ReplyIs ==
    ASSUME ReqTypeOK, NEW r \in Requests, NEW code \in Codes, Reply(r, code)
    PROVE  /\ req' = [req EXCEPT ![r] = req'[r]] /\ req'[r] \in RequestType
           /\ req'[r].pc = "answered" /\ req'[r].code = code
           /\ Same(r)
  <1> DEFINE q == [req[r] EXCEPT !.pc = "answered", !.code = code]
  <1>1. q \in RequestType
    BY DEF ReqTypeOK, RequestType, CertPC
  <1>2. req' = [req EXCEPT ![r] = q]
    BY DEF Reply, ReqTypeOK, RequestType
  <1>3. /\ q.pc = "answered" /\ q.code = code
        /\ q.grant = req[r].grant /\ q.granted = req[r].granted
        /\ q.late = req[r].late
    BY DEF ReqTypeOK, RequestType
  <1> HIDE DEF q
  <1> QED BY <1>1, <1>2, <1>3, RequestIs DEF Same

LEMMA DenyIs ==
    ASSUME ReqTypeOK, NEW r \in Requests, NEW code \in Codes, Deny(r, code)
    PROVE  /\ req' = [req EXCEPT ![r] = req'[r]] /\ req'[r] \in RequestType
           /\ req'[r].pc = "deny" /\ req'[r].code = req[r].code
           /\ Same(r)
  <1> DEFINE q == [req[r] EXCEPT !.pc = "deny", !.next = code]
  <1>1. q \in RequestType
    BY DEF ReqTypeOK, RequestType, CertPC
  <1>2. req' = [req EXCEPT ![r] = q]
    BY DEF Deny, ReqTypeOK, RequestType
  <1>3. /\ q.pc = "deny" /\ q.code = req[r].code
        /\ q.grant = req[r].grant /\ q.granted = req[r].granted
        /\ q.late = req[r].late
    BY DEF ReqTypeOK, RequestType
  <1> HIDE DEF q
  <1> QED BY <1>1, <1>2, <1>3, RequestIs DEF Same

\* The request is answered without a row, and says so.
LEMMA UnloggedIs ==
    ASSUME ReqTypeOK, NEW r \in Requests, NEW code \in Codes,
           req' = [req EXCEPT ![r].pc = "answered", ![r].code = code,
                              ![r].unlogged = TRUE]
    PROVE  /\ req' = [req EXCEPT ![r] = req'[r]] /\ req'[r] \in RequestType
           /\ req'[r].pc = "answered" /\ req'[r].unlogged
           /\ Same(r)
  <1> DEFINE p == [req[r] EXCEPT !.pc = "answered", !.code = code]
             q == [p EXCEPT !.unlogged = TRUE]
  <1>1. p \in RequestType
    BY DEF ReqTypeOK, RequestType, CertPC
  <1>2. /\ p.pc = "answered"
        /\ p.grant = req[r].grant /\ p.granted = req[r].granted
        /\ p.late = req[r].late
    BY DEF ReqTypeOK, RequestType
  <1>3. req' = [req EXCEPT ![r] = q]
    BY DEF ReqTypeOK, RequestType
  <1> HIDE DEF p
  <1>4. q \in RequestType
    BY <1>1 DEF RequestType
  <1>5. /\ q.pc = p.pc /\ q.unlogged = TRUE
        /\ q.grant = p.grant /\ q.granted = p.granted /\ q.late = p.late
    BY <1>1 DEF RequestType
  <1> HIDE DEF q
  <1> QED BY <1>2, <1>3, <1>4, <1>5, RequestIs DEF Same

\* The body does not decode.
LEMMA UnreadIs ==
    ASSUME ReqTypeOK, NEW r \in Requests, NEW code \in Codes,
           req' = [req EXCEPT ![r].pc = "answered", ![r].code = code,
                              ![r].unread = TRUE]
    PROVE  /\ req' = [req EXCEPT ![r] = req'[r]] /\ req'[r] \in RequestType
           /\ req'[r].pc = "answered" /\ req'[r].unread
  <1> DEFINE p == [req[r] EXCEPT !.pc = "answered", !.code = code]
             q == [p EXCEPT !.unread = TRUE]
  <1>1. p \in RequestType
    BY DEF ReqTypeOK, RequestType, CertPC
  <1>2. p.pc = "answered"
    BY DEF ReqTypeOK, RequestType
  <1>3. req' = [req EXCEPT ![r] = q]
    BY DEF ReqTypeOK, RequestType
  <1> HIDE DEF p
  <1>4. q \in RequestType
    BY <1>1 DEF RequestType
  <1>5. q.pc = p.pc /\ q.unread = TRUE
    BY <1>1 DEF RequestType
  <1> HIDE DEF q
  <1> QED BY <1>2, <1>3, <1>4, <1>5, RequestIs

-----------------------------------------------------------------------------
(* What each step of the handler shows of its own request.                 *)

\* A request that was read and refused has its row, or the row was lost.
Recorded(r) ==
    (req[r].code \in {400, 403, 404} /\ ~req[r].unread) =>
        \/ \E e \in audit : e.outcome = "denied" /\ e.cert.req = r
        \/ req[r].unlogged

Kept(r) == Moves(r) /\ RequestOK(req[r])' /\ Recorded(r)'

Quiet(r) == req'[r].pc # "audit" /\ certs' = certs

\* A step after which no row is due: the request is still in service, is
\* answered with a code of another kind, was not read, or has lost its row.
LEMMA Unrecorded ==
    ASSUME NEW r \in Requests,
           \/ req'[r].code \notin {400, 403, 404}
           \/ req'[r].unread
           \/ req'[r].unlogged
    PROVE  Recorded(r)'
  BY DEF Recorded

\* An answered request has nothing left to show.
LEMMA AnsweredOK ==
    ASSUME NEW r \in Requests, req'[r].pc = "answered"
    PROVE  RequestOK(req[r])'
  BY DEF RequestOK

\* A denied one only that its code is not sent yet.
LEMMA DeniedOK ==
    ASSUME NEW r \in Requests, req'[r].pc = "deny", req'[r].code = 0,
           acl' = acl, Same(r), RequestOK(req[r]),
           req[r].pc \notin {"free", "answered"}
    PROVE  RequestOK(req[r])'
  BY DEF RequestOK, Same

LEMMA ReqFacts ==
    ASSUME CertInv, NEW r \in Requests
    PROVE  /\ ReqTypeOK /\ req[r] \in RequestType /\ RequestOK(req[r])
           /\ req[r].pc # "answered" => req[r].code = 0
  BY TypeOKReq DEF CertInv, ReqTypeOK, RequestOK

LEMMA ArriveKeeps ==
    ASSUME CertInv, NEW r \in Requests, NEW g \in Grants, Arrive(r, g)
    PROVE  Kept(r) /\ Quiet(r)
  <1> DEFINE q == [NoRequest EXCEPT !.pc = "auth", !.grant = g,
                     !.granted = g \in acl, !.late = g[1] \in revoked]
  <1>0. ReqTypeOK
    BY TypeOKReq DEF CertInv
  <1>1. NoRequest \in RequestType
    BY DEF RequestType, CertPC, Codes, NoRequest
  <1>2. (g \in acl) \in BOOLEAN /\ (g[1] \in revoked) \in BOOLEAN
    OBVIOUS
  <1>3. q \in RequestType
    BY <1>1, <1>2 DEF RequestType, CertPC
  <1>4. req' = [req EXCEPT ![r] = q]
    BY DEF Arrive
  <1>5. /\ q.pc = "auth" /\ q.code = 0 /\ q.grant = g
        /\ q.granted = (g \in acl) /\ q.late = (g[1] \in revoked)
    BY <1>1, <1>2 DEF NoRequest
  <1> HIDE DEF q
  <1>6. req'[r] = q /\ Moves(r)
    BY <1>0, <1>3, <1>4, RequestIs DEF Moves, Arrive
  <1>7. acl' = acl /\ revoked' = revoked /\ certs' = certs
    BY DEF Arrive, tableVars
  <1>8. RequestOK(req[r])'
    BY <1>5, <1>6, <1>7 DEF RequestOK
  <1>9. Recorded(r)'
    BY <1>5, <1>6, Unrecorded
  <1> QED BY <1>5, <1>6, <1>7, <1>8, <1>9 DEF Kept, Quiet

LEMMA AuthenticateKeeps ==
    ASSUME CertInv, NEW r \in Requests, Authenticate(r)
    PROVE  Kept(r) /\ Quiet(r)
  <1>0. ReqTypeOK /\ RequestOK(req[r]) /\ req[r].pc = "auth" /\ req[r].code = 0
    BY ReqFacts DEF Authenticate
  <1>f. /\ UNCHANGED <<tableVars, life, serial, audit, certs>>
        /\ acl' = acl /\ revoked' = revoked
    BY DEF Authenticate, tableVars
  <1>1. CASE Reply(r, 401)
    <2>1. 401 \in Codes
      BY DEF Codes
    <2>2. Moves(r) /\ req'[r].pc = "answered" /\ req'[r].code = 401
      BY <1>0, <1>f, <1>1, <2>1, ReplyIs DEF Moves
    <2> QED BY <1>f, <2>2, Unrecorded, AnsweredOK DEF Kept, Quiet
  <1>2. CASE Step(r, "validate") /\ req[r].grant[1] \notin revoked
    <2>1. "validate" \in CertPC
      BY DEF CertPC
    <2>2. /\ Moves(r) /\ Same(r)
          /\ req'[r].pc = "validate" /\ req'[r].code = 0
      BY <1>0, <1>f, <1>2, <2>1, StepIs DEF Moves
    <2>3. RequestOK(req[r])'
      BY <1>0, <1>f, <1>2, <2>2 DEF RequestOK, Same
    <2> QED BY <1>f, <2>2, <2>3, Unrecorded DEF Kept, Quiet
  <1> QED BY <1>1, <1>2 DEF Authenticate

LEMMA ValidateKeeps ==
    ASSUME CertInv, NEW r \in Requests, Validate(r)
    PROVE  Kept(r) /\ Quiet(r)
  <1>0. ReqTypeOK /\ RequestOK(req[r]) /\ req[r].pc = "validate" /\ req[r].code = 0
    BY ReqFacts DEF Validate
  <1>f. UNCHANGED <<tableVars, life, serial, audit, certs>> /\ acl' = acl
    BY DEF Validate, tableVars
  <1>c. 400 \in Codes
    BY DEF Codes
  <1>1. CASE req' = [req EXCEPT ![r].pc = "answered", ![r].code = 400,
                                ![r].unread = TRUE]
    <2>1. Moves(r) /\ req'[r].pc = "answered" /\ req'[r].unread
      BY <1>0, <1>f, <1>c, <1>1, UnreadIs DEF Moves
    <2> QED BY <1>f, <2>1, Unrecorded, AnsweredOK DEF Kept, Quiet
  <1>2. CASE Deny(r, 400)
    <2>1. Moves(r) /\ Same(r) /\ req'[r].pc = "deny" /\ req'[r].code = 0
      BY <1>0, <1>f, <1>c, <1>2, DenyIs DEF Moves
    <2>2. RequestOK(req[r])'
      BY <1>0, <1>f, <2>1, DeniedOK
    <2> QED BY <1>f, <2>1, <2>2, Unrecorded DEF Kept, Quiet
  <1>3. ASSUME NEW ttl \in Int, ~TooLong(ttl),
               req' = [req EXCEPT ![r].pc = "resolve", ![r].ttl = ttl]
        PROVE  Kept(r) /\ Quiet(r)
    <2> DEFINE q == [req[r] EXCEPT !.pc = "resolve", !.ttl = ttl]
    <2>1. q \in RequestType
      BY <1>0 DEF ReqTypeOK, RequestType, CertPC
    <2>2. req' = [req EXCEPT ![r] = q]
      BY <1>0, <1>3 DEF ReqTypeOK, RequestType
    <2>3. /\ q.pc = "resolve" /\ q.code = req[r].code /\ q.ttl = ttl
          /\ q.grant = req[r].grant /\ q.granted = req[r].granted
          /\ q.late = req[r].late
      BY <1>0 DEF ReqTypeOK, RequestType
    <2> HIDE DEF q
    <2>4. req'[r] = q /\ Moves(r)
      BY <1>0, <1>f, <2>1, <2>2, RequestIs DEF Moves
    <2>5. RequestOK(req[r])'
      BY <1>0, <1>3, <1>f, <2>3, <2>4 DEF RequestOK, TooLong, certTTLMax
    <2> QED BY <1>0, <1>f, <2>3, <2>4, <2>5, Unrecorded DEF Kept, Quiet
  <1> QED BY <1>1, <1>2, <1>3, CertAssumption DEF Validate, certTTLDefault

LEMMA ResolveKeeps ==
    ASSUME CertInv, NEW r \in Requests, ResolveAgent(r)
    PROVE  Kept(r) /\ Quiet(r)
  <1>0. ReqTypeOK /\ RequestOK(req[r]) /\ req[r].pc = "resolve" /\ req[r].code = 0
    BY ReqFacts DEF ResolveAgent
  <1>f. UNCHANGED <<tableVars, life, serial, audit, certs>> /\ acl' = acl
    BY DEF ResolveAgent, tableVars
  <1>1. CASE Deny(r, 404)
    <2>1. 404 \in Codes
      BY DEF Codes
    <2>2. Moves(r) /\ Same(r) /\ req'[r].pc = "deny" /\ req'[r].code = 0
      BY <1>0, <1>f, <1>1, <2>1, DenyIs DEF Moves
    <2>3. RequestOK(req[r])'
      BY <1>0, <1>f, <2>2, DeniedOK
    <2> QED BY <1>f, <2>2, <2>3, Unrecorded DEF Kept, Quiet
  <1>2. CASE Step(r, "acl")
    <2>1. "acl" \in CertPC
      BY DEF CertPC
    <2>2. /\ Moves(r) /\ Same(r) /\ req'[r].ttl = req[r].ttl
          /\ req'[r].pc = "acl" /\ req'[r].code = 0
      BY <1>0, <1>f, <1>2, <2>1, StepIs DEF Moves
    <2>3. RequestOK(req[r])'
      BY <1>0, <1>f, <2>2 DEF RequestOK, Same
    <2> QED BY <1>f, <2>2, <2>3, Unrecorded DEF Kept, Quiet
  <1> QED BY <1>1, <1>2 DEF ResolveAgent

LEMMA CheckACLKeeps ==
    ASSUME CertInv, NEW r \in Requests, CheckACL(r)
    PROVE  Kept(r) /\ Quiet(r)
  <1>0. ReqTypeOK /\ RequestOK(req[r]) /\ req[r].pc = "acl" /\ req[r].code = 0
    BY ReqFacts DEF CheckACL
  <1>f. UNCHANGED <<tableVars, life, serial, audit, certs>> /\ acl' = acl
    BY DEF CheckACL, tableVars
  <1>1. CASE Deny(r, 403)
    <2>1. 403 \in Codes
      BY DEF Codes
    <2>2. Moves(r) /\ Same(r) /\ req'[r].pc = "deny" /\ req'[r].code = 0
      BY <1>0, <1>f, <1>1, <2>1, DenyIs DEF Moves
    <2>3. RequestOK(req[r])'
      BY <1>0, <1>f, <2>2, DeniedOK
    <2> QED BY <1>f, <2>2, <2>3, Unrecorded DEF Kept, Quiet
  <1>2. CASE Step(r, "sign") /\ req[r].grant \in acl
    <2>1. "sign" \in CertPC
      BY DEF CertPC
    <2>2. /\ Moves(r) /\ Same(r) /\ req'[r].ttl = req[r].ttl
          /\ req'[r].pc = "sign" /\ req'[r].code = 0
      BY <1>0, <1>f, <1>2, <2>1, StepIs DEF Moves
    <2>3. RequestOK(req[r])'
      BY <1>0, <1>f, <1>2, <2>2 DEF RequestOK, Same
    <2> QED BY <1>f, <2>2, <2>3, Unrecorded DEF Kept, Quiet
  <1>3. CASE Reply(r, 500)
    <2>1. 500 \in Codes
      BY DEF Codes
    <2>2. Moves(r) /\ req'[r].pc = "answered" /\ req'[r].code = 500
      BY <1>0, <1>f, <1>3, <2>1, ReplyIs DEF Moves
    <2> QED BY <1>f, <2>2, Unrecorded, AnsweredOK DEF Kept, Quiet
  <1> QED BY <1>1, <1>2, <1>3 DEF CheckACL, Allows

\* A step that draws a serial, and one that hands a certificate out.
Draws(r) ==
    /\ req'[r].pc = "audit" /\ req'[r].serial = serial + 1
    /\ serial' = serial + 1
    /\ certs' = certs

Issues(r) ==
    /\ req[r].pc = "audit" /\ req'[r].pc = "answered" /\ Same(r)
    /\ serial' = serial
    /\ certs' = certs \cup {CertOf(r)}
    /\ [outcome |-> "signed", cert |-> CertOf(r)] \in audit'

LEMMA SignKeeps ==
    ASSUME CertInv, NEW r \in Requests, Sign(r)
    PROVE  Kept(r) /\ (Quiet(r) \/ Draws(r))
  <1>0. /\ ReqTypeOK /\ RequestOK(req[r]) /\ req[r].pc = "sign"
        /\ req[r].code = 0 /\ serial \in Nat
    BY ReqFacts DEF Sign, CertInv, TypeOK
  <1>f. /\ UNCHANGED <<tableVars, life, audit, certs>> /\ acl' = acl
        /\ serial' = serial + 1
    BY DEF Sign, NextSerial, tableVars
  <1>1. CASE Deny(r, 400)
    <2>1. 400 \in Codes
      BY DEF Codes
    <2>2. Moves(r) /\ Same(r) /\ req'[r].pc = "deny" /\ req'[r].code = 0
      BY <1>0, <1>f, <1>1, <2>1, DenyIs DEF Moves
    <2>3. RequestOK(req[r])'
      BY <1>0, <1>f, <2>2, DeniedOK
    <2> QED BY <1>f, <2>2, <2>3, Unrecorded DEF Kept, Quiet
  <1>2. CASE Reply(r, 500)
    <2>1. 500 \in Codes
      BY DEF Codes
    <2>2. Moves(r) /\ req'[r].pc = "answered" /\ req'[r].code = 500
      BY <1>0, <1>f, <1>2, <2>1, ReplyIs DEF Moves
    <2> QED BY <1>f, <2>2, Unrecorded, AnsweredOK DEF Kept, Quiet
  <1>3. CASE /\ ValidBefore(req[r].ttl) > ValidAfter
             /\ req' = [req EXCEPT ![r].pc = "audit", ![r].serial = serial + 1]
    <2> DEFINE q == [req[r] EXCEPT !.pc = "audit", !.serial = serial + 1]
    <2>0. serial + 1 \in Nat /\ "audit" \in CertPC /\ req[r] \in RequestType
      BY <1>0 DEF CertPC, ReqTypeOK
    <2>1. q \in RequestType
      BY <2>0 DEF RequestType
    <2>2. req' = [req EXCEPT ![r] = q]
      BY <1>0, <1>3 DEF ReqTypeOK, RequestType
    <2>3. /\ q.pc = "audit" /\ q.code = req[r].code /\ q.ttl = req[r].ttl
          /\ q.serial = serial + 1
          /\ q.grant = req[r].grant /\ q.granted = req[r].granted
          /\ q.late = req[r].late
      BY <1>0 DEF ReqTypeOK, RequestType
    <2> HIDE DEF q
    <2>4. req'[r] = q /\ Moves(r)
      BY <1>0, <1>f, <2>1, <2>2, RequestIs DEF Moves
    <2>5. ValidAfter < ValidBefore(q.ttl)
      <3>1. ValidBefore(req[r].ttl) \in Int /\ ValidAfter \in Int
        BY <1>0, CertAssumption
        DEF ReqTypeOK, RequestType, ValidBefore, ValidAfter, clockSkew, certTTLMax
      <3> QED BY <1>3, <2>3, <3>1
    <2>6. RequestOK(req[r])'
      BY <1>0, <1>f, <2>3, <2>4, <2>5 DEF RequestOK
    <2>7. Draws(r)
      BY <1>f, <2>3, <2>4 DEF Draws
    <2> QED BY <1>0, <2>3, <2>4, <2>6, <2>7, Unrecorded DEF Kept
  <1> QED BY <1>1, <1>2, <1>3 DEF Sign

LEMMA WriteSignedKeeps ==
    ASSUME CertInv, NEW r \in Requests, WriteSigned(r)
    PROVE  Kept(r) /\ (Quiet(r) \/ Issues(r))
  <1>0. ReqTypeOK /\ RequestOK(req[r]) /\ req[r].pc = "audit" /\ req[r].code = 0
    BY ReqFacts DEF WriteSigned
  <1>f. UNCHANGED <<tableVars, life, serial>>
    BY DEF WriteSigned
  <1>1. CASE Reply(r, 500) /\ UNCHANGED <<audit, certs>>
    <2>1. 500 \in Codes
      BY DEF Codes
    <2>2. Moves(r) /\ req'[r].pc = "answered" /\ req'[r].code = 500
      BY <1>0, <1>f, <1>1, <2>1, ReplyIs DEF Moves
    <2> QED BY <1>1, <2>2, Unrecorded, AnsweredOK DEF Kept, Quiet
  <1>2. CASE /\ audit' = audit \cup {[outcome |-> "signed", cert |-> CertOf(r)]}
             /\ certs' = certs \cup {CertOf(r)}
             /\ Reply(r, 200)
    <2>1. 200 \in Codes
      BY DEF Codes
    <2>2. Moves(r) /\ Same(r) /\ req'[r].pc = "answered" /\ req'[r].code = 200
      BY <1>0, <1>f, <1>2, <2>1, ReplyIs DEF Moves
    <2>3. Issues(r)
      BY <1>0, <1>f, <1>2, <2>2 DEF Issues
    <2> QED BY <2>2, <2>3, Unrecorded, AnsweredOK DEF Kept
  <1> QED BY <1>1, <1>2 DEF WriteSigned

LEMMA WriteDeniedKeeps ==
    ASSUME CertInv, NEW r \in Requests, WriteDenied(r)
    PROVE  Kept(r) /\ Quiet(r)
  <1>0. /\ ReqTypeOK /\ RequestOK(req[r]) /\ req[r].pc = "deny"
        /\ req[r].code = 0 /\ req[r].next \in Codes
    BY ReqFacts DEF WriteDenied, RequestType
  <1>f. UNCHANGED <<tableVars, life, serial, certs>>
    BY DEF WriteDenied
  <1>1. CASE /\ audit' = audit \cup {[outcome |-> "denied", cert |-> CertOf(r)]}
             /\ Reply(r, req[r].next)
    <2>1. Moves(r) /\ req'[r].pc = "answered"
      BY <1>0, <1>f, <1>1, ReplyIs DEF Moves
    <2> DEFINE e == [outcome |-> "denied", cert |-> CertOf(r)]
    <2>2. e.outcome = "denied" /\ e.cert.req = r
      BY DEF CertOf
    <2>3. e \in audit'
      BY <1>1
    <2> HIDE DEF e
    <2>4. Recorded(r)'
      BY <2>2, <2>3 DEF Recorded
    <2> QED BY <1>f, <2>1, <2>4, AnsweredOK DEF Kept, Quiet
  <1>2. CASE /\ req' = [req EXCEPT ![r].pc = "answered", ![r].code = req[r].next,
                                   ![r].unlogged = TRUE]
             /\ UNCHANGED audit
    <2>1. Moves(r) /\ req'[r].pc = "answered" /\ req'[r].unlogged
      BY <1>0, <1>f, <1>2, UnloggedIs DEF Moves
    <2> QED BY <1>f, <2>1, Unrecorded, AnsweredOK DEF Kept, Quiet
  <1> QED BY <1>1, <1>2 DEF WriteDenied

-----------------------------------------------------------------------------
(* What a step of the handler leaves alone.                                *)

LEMMA OtherRequests ==
    ASSUME CertInv, NEW r \in Requests, Kept(r)
    PROVE  /\ \A q \in Requests : q # r => req'[q] = req[q]
           /\ \A q \in Requests : RequestOK(req[q])'
           /\ \A q \in Requests : Recorded(q)'
  <1>1. /\ revoked' = revoked /\ acl' = acl /\ serial' \in {serial, serial + 1}
        /\ serial \in Nat /\ audit \subseteq audit'
    BY DEF Kept, Moves, tableVars, CertInv, TypeOK
  <1>2. ASSUME NEW q \in Requests, q # r PROVE req'[q] = req[q]
    <2>1. ReqTypeOK
      BY ReqFacts
    <2> QED BY <1>2, <2>1 DEF Kept, Moves, ReqTypeOK
  <1>3. ASSUME NEW q \in Requests PROVE RequestOK(req[q])'
    <2>1. CASE q = r
      BY <2>1 DEF Kept
    <2>2. CASE q # r
      <3>1. req'[q] = req[q] /\ RequestOK(req[q]) /\ req[q].serial \in Nat
        BY <1>2, <2>2, ReqFacts DEF RequestType
      <3> QED BY <1>1, <3>1 DEF RequestOK
    <2> QED BY <2>1, <2>2
  <1>4. ASSUME NEW q \in Requests PROVE Recorded(q)'
    <2>1. CASE q = r
      BY <2>1 DEF Kept
    <2>2. CASE q # r
      BY <1>1, <1>2, <2>2 DEF CertInv, DenialsAreAudited, Recorded
    <2> QED BY <2>1, <2>2
  <1> QED BY <1>2, <1>3, <1>4

LEMMA OldCerts ==
    ASSUME CertInv, NEW r \in Requests, Kept(r), NEW c \in certs
    PROVE  CertOK(c)'
  <1>1. CertOK(c) /\ serial \in Nat
    BY DEF CertInv, TypeOK
  <1>2. c.req # r
    BY <1>1 DEF CertOK, Kept, Moves
  <1>3. req'[c.req] = req[c.req]
    BY <1>1, <1>2, OtherRequests DEF CertOK
  <1>4. life' = life /\ serial' \in {serial, serial + 1} /\ audit \subseteq audit'
    BY DEF Kept, Moves
  <1> QED BY <1>1, <1>3, <1>4 DEF CertOK

-----------------------------------------------------------------------------
(* CertInv is inductive.                                                   *)

\* The tables and the counters keep their types.
LEMMA TypePreserved ==
    ASSUME CertInv, NEW r \in Requests, Kept(r),
           IssueCert(r) \/ \E g \in Grants : Arrive(r, g)
    PROVE  TypeOK'
  <1>1. TypeOK /\ ReqTypeOK
    BY TypeOKReq DEF CertInv
  <1>2. req' \in [Requests -> RequestType]
    BY <1>1 DEF Kept, Moves, ReqTypeOK
  <1>3. faults' \in 0..MaxFaults
    <2>1. faults' = faults \/ (faults < MaxFaults /\ faults' = faults + 1)
      <3>1. CASE IssueCert(r)
        <4>1. CASE Authenticate(r) \/ Validate(r) \/ ResolveAgent(r)
          BY <4>1 DEF Authenticate, Validate, ResolveAgent, Fails
        <4>2. CASE CheckACL(r) \/ Sign(r)
          BY <4>2 DEF CheckACL, Sign, Fails
        <4>3. CASE WriteSigned(r) \/ WriteDenied(r)
          BY <4>3 DEF WriteSigned, WriteDenied, Fails
        <4> QED BY <3>1, <4>1, <4>2, <4>3 DEF IssueCert
      <3>2. CASE \E g \in Grants : Arrive(r, g)
        BY <3>2 DEF Arrive
      <3> QED BY <3>1, <3>2
    <2>2. faults \in 0..MaxFaults
      BY <1>1 DEF TypeOK
    <2> QED BY <2>1, <2>2, BudgetAssumption
  <1>4. \A e \in audit' : e.outcome \in {"signed", "denied"}
    <2>1. audit' = audit \/ WriteSigned(r) \/ WriteDenied(r)
      BY DEF IssueCert, Arrive, Authenticate, Validate, ResolveAgent, CheckACL, Sign
    <2> QED BY <1>1, <2>1 DEF TypeOK, WriteSigned, WriteDenied
  <1>5. serial' \in Nat
    BY <1>1 DEF TypeOK, Kept, Moves
  <1>6. /\ revoked' = revoked /\ removed' = removed /\ acl' = acl
        /\ changes' = changes /\ life' = life
    BY DEF Kept, Moves, tableVars
  <1> QED BY <1>1, <1>2, <1>3, <1>4, <1>5, <1>6 DEF TypeOK, RequestType

\* A drawn serial is above every serial of this life of the server.
LEMMA SerialsKept ==
    ASSUME CertInv, NEW r \in Requests, Kept(r),
           Quiet(r) \/ Draws(r) \/ Issues(r)
    PROVE  SerialsDrawn'
  <1>1. life' = life /\ serial \in Nat
    BY DEF Kept, Moves, CertInv, TypeOK
  <1>2. \A q \in Requests : /\ q # r => req'[q] = req[q]
                            /\ req[q].pc = "audit" => req[q].serial <= serial
                            /\ req[q].serial \in Nat
    BY OtherRequests, ReqFacts DEF RequestOK, RequestType
  <1>3. \A c \in certs : c.serial \in Nat /\ (c.life = life => c.serial <= serial)
    BY DEF CertInv, CertOK
  <1>4. SerialsDrawn
    BY DEF CertInv
  <1>5. CASE Quiet(r)
    BY <1>1, <1>2, <1>4, <1>5 DEF Quiet, SerialsDrawn, SerialsAreUnique
  <1>6. CASE Draws(r)
    BY <1>1, <1>2, <1>3, <1>4, <1>6 DEF Draws, SerialsDrawn, SerialsAreUnique
  <1>7. CASE Issues(r)
    <2> DEFINE n == CertOf(r)
    <2>1. n.serial = req[r].serial /\ n.life = life
      BY DEF CertOf
    <2>2. certs' = certs \cup {n} /\ req[r].pc = "audit" /\ req'[r].pc = "answered"
      BY <1>7 DEF Issues
    <2> HIDE DEF n
    <2>3. \A q \in Requests : q # r /\ req[q].pc = "audit" =>
                                  req[q].serial # n.serial
      BY <1>4, <2>1, <2>2 DEF SerialsDrawn
    <2>4. \A c \in certs : c.life = life => c.serial # n.serial
      BY <1>4, <2>1, <2>2 DEF SerialsDrawn
    <2>5. SerialsAreUnique'
      BY <1>4, <2>1, <2>2, <2>4 DEF SerialsDrawn, SerialsAreUnique
    <2>6. \A q \in Requests : req'[q].pc = "audit" =>
             q # r /\ req'[q] = req[q] /\ req[q].pc = "audit"
      BY <1>2, <2>2
    <2> QED BY <1>1, <1>4, <2>1, <2>2, <2>3, <2>5, <2>6 DEF SerialsDrawn
  <1> QED BY <1>5, <1>6, <1>7

\* What the request had established goes into its certificate.
LEMMA NewCert ==
    ASSUME CertInv, NEW r \in Requests, Kept(r), Issues(r),
           NEW n, n = CertOf(r)
    PROVE  CertOK(n)'
  <1>1. /\ RequestOK(req[r]) /\ req[r] \in RequestType /\ req[r].pc = "audit"
        /\ life \in Nat /\ life' = life /\ serial' = serial
    BY ReqFacts DEF Issues, CertInv, TypeOK, Kept, Moves
  <1>2. /\ req[r].granted /\ ~req[r].late
        /\ req[r].ttl \in Int /\ req[r].ttl <= certTTLMax
        /\ ValidAfter < ValidBefore(req[r].ttl)
        /\ req[r].serial \in Nat /\ req[r].serial <= serial
    BY <1>1 DEF RequestOK, RequestType
  <1>3. n.req = r /\ n.ttl = req[r].ttl /\ n.serial = req[r].serial /\ n.life = life
    BY DEF CertOf
  <1>4. [outcome |-> "signed", cert |-> n] \in audit'
    BY DEF Issues
  <1>5. /\ req'[r].pc = "answered" /\ req'[r].granted /\ ~req'[r].late
    BY <1>2 DEF Issues, Same
  <1> QED BY <1>1, <1>2, <1>3, <1>4, <1>5 DEF CertOK

LEMMA HandlerInductive ==
    ASSUME CertInv, NEW r \in Requests,
           IssueCert(r) \/ \E g \in Grants : Arrive(r, g)
    PROVE  CertInv'
  <1>1. Kept(r) /\ (Quiet(r) \/ Draws(r) \/ Issues(r))
    BY ArriveKeeps, AuthenticateKeeps, ValidateKeeps, ResolveKeeps, CheckACLKeeps,
       SignKeeps, WriteSignedKeeps, WriteDeniedKeeps
    DEF IssueCert
  <1>2. TypeOK'
    BY <1>1, TypePreserved
  <1>3. (\A q \in Requests : RequestOK(req[q]))'
    BY <1>1, OtherRequests
  <1>4. (\A c \in certs : CertOK(c))'
    <2>1. CASE certs' = certs
      BY <1>1, <2>1, OldCerts
    <2>2. CASE Issues(r)
      <3>1. PICK n : n = CertOf(r)
        OBVIOUS
      <3>2. CertOK(n)'
        BY <1>1, <2>2, <3>1, NewCert
      <3>3. certs' = certs \cup {n}
        BY <2>2, <3>1 DEF Issues
      <3> QED BY <1>1, <3>2, <3>3, OldCerts
    <2> QED BY <1>1, <2>1, <2>2 DEF Quiet, Draws
  <1>5. SerialsDrawn'
    BY <1>1, SerialsKept
  <1>6. DenialsAreAudited'
    BY <1>1, OtherRequests DEF Recorded, DenialsAreAudited
  <1> QED BY <1>2, <1>3, <1>4, <1>5, <1>6 DEF CertInv

\* Only Grant and Restart touch requests from outside the handler.
LEMMA GrantInductive ==
    ASSUME CertInv, NEW g \in Grants, Grant(g)
    PROVE  CertInv'
  <1>0. /\ TypeOK /\ ReqTypeOK /\ SerialsDrawn /\ DenialsAreAudited
        /\ \A c \in certs : CertOK(c)
    BY TypeOKReq DEF CertInv
  <1>f. /\ revoked' = revoked /\ removed' = removed /\ acl' = acl \cup {g}
        /\ serial' = serial /\ life' = life /\ audit' = audit /\ certs' = certs
        /\ faults' = faults
    BY DEF Grant
  <1>1. ASSUME NEW r \in Requests
        PROVE  /\ req'[r] \in RequestType
               /\ req'[r].pc = req[r].pc /\ req'[r].code = req[r].code
               /\ req'[r].serial = req[r].serial /\ req'[r].grant = req[r].grant
               /\ req'[r].ttl = req[r].ttl /\ req'[r].late = req[r].late
               /\ req'[r].unlogged = req[r].unlogged
               /\ req'[r].unread = req[r].unread
               /\ req[r].granted => req'[r].granted
               /\ (InService(r) /\ req[r].grant = g) => req'[r].granted
    <2> DEFINE b == req[r].granted \/ (InService(r) /\ req[r].grant = g)
               q == [req[r] EXCEPT !.granted = b]
    <2>1. req[r] \in RequestType /\ b \in BOOLEAN
      BY <1>0 DEF ReqTypeOK, RequestType
    <2>2. req'[r] = q
      BY <2>1 DEF Grant, RequestType
    <2>3. (req[r].granted => b) /\ ((InService(r) /\ req[r].grant = g) => b)
      OBVIOUS
    <2> HIDE DEF b
    <2>4. /\ q \in RequestType /\ q.granted = b
          /\ q.pc = req[r].pc /\ q.code = req[r].code /\ q.serial = req[r].serial
          /\ q.grant = req[r].grant /\ q.ttl = req[r].ttl /\ q.late = req[r].late
          /\ q.unlogged = req[r].unlogged /\ q.unread = req[r].unread
      BY <2>1 DEF RequestType
    <2> HIDE DEF q
    <2> QED BY <2>2, <2>3, <2>4
  <1>2. TypeOK'
    <2>1. req' \in [Requests -> RequestType]
      BY <1>1 DEF Grant
    <2>2. changes' \in 0..MaxChanges /\ acl' \subseteq Grants
      BY <1>0, <1>f, CertAssumption DEF Grant, TypeOK
    <2> QED BY <1>0, <1>f, <2>1, <2>2 DEF TypeOK, RequestType
  <1>3. ASSUME NEW r \in Requests PROVE RequestOK(req[r])'
    <2>1. RequestOK(req[r])
      BY ReqFacts
    <2> QED BY <1>1, <1>f, <2>1 DEF RequestOK, InService
  <1>4. ASSUME NEW c \in certs' PROVE CertOK(c)'
    <2>1. CertOK(c) /\ c.req \in Requests
      BY <1>0, <1>f, <1>4 DEF CertOK
    <2> QED BY <1>1, <1>f, <2>1 DEF CertOK
  <1>5. SerialsDrawn'
    BY <1>0, <1>1, <1>f DEF SerialsDrawn, SerialsAreUnique
  <1>6. DenialsAreAudited'
    BY <1>0, <1>1, <1>f DEF DenialsAreAudited
  <1> QED BY <1>2, <1>3, <1>4, <1>5, <1>6 DEF CertInv

LEMMA RestartInductive ==
    ASSUME CertInv, Restart
    PROVE  CertInv'
  <1>0. /\ TypeOK /\ ReqTypeOK /\ SerialsDrawn /\ DenialsAreAudited
        /\ \A c \in certs : CertOK(c)
    BY TypeOKReq DEF CertInv
  <1>f. /\ revoked' = revoked /\ removed' = removed /\ acl' = acl
        /\ changes' = changes /\ audit' = audit /\ certs' = certs
        /\ faults' = faults /\ serial' = 0 /\ life' = life + 1
    BY DEF Restart, tableVars
  <1>1. ASSUME NEW r \in Requests
        PROVE  /\ req'[r] \in RequestType
               /\ req'[r].pc \in {"free", "answered"}
               /\ req[r].pc = "answered" => req'[r].pc = "answered"
               /\ req'[r].pc = "free" => req'[r].code = 0
               /\ req'[r].code = req[r].code
               /\ req'[r].granted = req[r].granted
               /\ req'[r].late = req[r].late
               /\ req'[r].unlogged = req[r].unlogged
               /\ req'[r].unread = req[r].unread
    <2> DEFINE q == [req[r] EXCEPT !.pc = "answered"]
    <2>0. req[r] \in RequestType /\ (req[r].pc # "answered" => req[r].code = 0)
      BY ReqFacts
    <2>1. /\ q \in RequestType /\ q.pc = "answered" /\ q.code = req[r].code
          /\ q.granted = req[r].granted /\ q.late = req[r].late
          /\ q.unlogged = req[r].unlogged /\ q.unread = req[r].unread
      BY <2>0 DEF RequestType, CertPC
    <2>2. req'[r] = IF InService(r) THEN q ELSE req[r]
      BY DEF Restart
    <2> HIDE DEF q
    <2> QED BY <2>0, <2>1, <2>2 DEF InService
  <1>2. TypeOK'
    <2>1. req' \in [Requests -> RequestType]
      BY <1>1 DEF Restart
    <2>2. life' \in 0..MaxRestarts
      BY <1>0, <1>f, CertAssumption DEF Restart, TypeOK
    <2> QED BY <1>0, <1>f, <2>1, <2>2 DEF TypeOK, RequestType
  <1>3. ASSUME NEW r \in Requests PROVE RequestOK(req[r])'
    BY <1>1 DEF RequestOK
  <1>4. ASSUME NEW c \in certs' PROVE CertOK(c)'
    <2>1. CertOK(c) /\ c.req \in Requests /\ life \in Nat
      BY <1>0, <1>f, <1>4 DEF CertOK, TypeOK
    <2> QED BY <1>1, <1>f, <2>1 DEF CertOK
  <1>5. SerialsDrawn'
    BY <1>0, <1>1, <1>f DEF SerialsDrawn, SerialsAreUnique
  <1>6. DenialsAreAudited'
    BY <1>0, <1>1, <1>f DEF DenialsAreAudited
  <1> QED BY <1>2, <1>3, <1>4, <1>5, <1>6 DEF CertInv

\* Taking a grant, a token or an Agent away, and a stuttering step.
LEMMA TakingInductive ==
    ASSUME CertInv,
           \/ \E g \in Grants : Ungrant(g)
           \/ \E c \in Callers : RevokeCaller(c)
           \/ \E a \in Agents : RemoveAgent(a)
           \/ UNCHANGED vars
    PROVE  CertInv'
  <1>f. /\ req' = req /\ serial' = serial /\ life' = life /\ audit' = audit
        /\ certs' = certs /\ faults' = faults
        /\ acl' \subseteq acl /\ revoked \subseteq revoked'
    BY DEF Ungrant, RevokeCaller, RemoveAgent, vars
  <1>1. TypeOK'
    <2>1. TypeOK
      BY DEF CertInv
    <2>2. /\ changes' \in 0..MaxChanges
          /\ revoked' \subseteq Callers /\ removed' \subseteq Agents
      BY <2>1, CertAssumption DEF TypeOK, Ungrant, RevokeCaller, RemoveAgent, vars
    <2> QED BY <1>f, <2>1, <2>2 DEF TypeOK
  <1>2. ASSUME NEW r \in Requests PROVE RequestOK(req[r])'
    <2>1. RequestOK(req[r])
      BY DEF CertInv
    <2> QED BY <1>f, <2>1 DEF RequestOK
  <1>3. ASSUME NEW c \in certs' PROVE CertOK(c)'
    <2>1. CertOK(c)
      BY <1>f, <1>3 DEF CertInv
    <2> QED BY <1>f, <2>1 DEF CertOK
  <1>4. SerialsDrawn' /\ DenialsAreAudited'
    BY <1>f DEF CertInv, SerialsDrawn, SerialsAreUnique, DenialsAreAudited
  <1> QED BY <1>1, <1>2, <1>3, <1>4 DEF CertInv

LEMMA InitCertInv == Init => CertInv
  <1> SUFFICES ASSUME Init PROVE CertInv
    OBVIOUS
  <1>1. NoRequest \in RequestType
    BY DEF RequestType, CertPC, Codes, NoRequest
  <1>2. \A r \in Requests : req[r] = NoRequest
    BY DEF Init
  <1>3. TypeOK
    BY <1>1, CertAssumption, BudgetAssumption DEF Init, TypeOK, RequestType
  <1>4. ASSUME NEW r \in Requests
        PROVE  req[r].pc = "free" /\ req[r].code = 0
    BY <1>2 DEF NoRequest
  <1>5. \A r \in Requests : RequestOK(req[r])
    BY <1>4 DEF RequestOK
  <1>6. SerialsDrawn /\ DenialsAreAudited /\ \A c \in certs : CertOK(c)
    BY <1>4 DEF Init, SerialsDrawn, SerialsAreUnique, DenialsAreAudited
  <1> QED BY <1>3, <1>5, <1>6 DEF CertInv

\* What holds between any two steps of the handler, of the operator and of
\* a restart, in every behaviour.
THEOREM CertInvariant == Spec => []CertInv
  <1>1. CertInv /\ [Next]_vars => CertInv'
    BY HandlerInductive, GrantInductive, RestartInductive, TakingInductive
    DEF Next
  <1> QED BY InitCertInv, <1>1, PTL DEF Spec

-----------------------------------------------------------------------------

\* handlers_certs.go: no certificate leaves the server without its row, for
\* every interleaving of requests, failures and restarts.
THEOREM CertsAlwaysAudited == Spec => []CertsAreAudited
  <1>1. CertInv => CertsAreAudited
    BY DEF CertInv, CertOK, CertsAreAudited
  <1> QED BY <1>1, CertInvariant, PTL

\* handlers_certs.go: every path that refuses a request the handler could read
\* leaves a denial row, unless the write of that very row failed, for every
\* interleaving of requests, operator, failures and restarts.
THEOREM DenialsAlwaysAudited == Spec => []DenialsAreAudited
  <1>1. CertInv => DenialsAreAudited
    BY DEF CertInv
  <1> QED BY <1>1, CertInvariant, PTL

\* handlers_certs.go: each certificate's grant was in the ACL while its request
\* was in service, although token, Agent and ACL are read in three store calls.
THEOREM CertsAlwaysGranted == Spec => []CertsWereGranted
  <1>1. CertInv => CertsWereGranted
    BY DEF CertInv, CertOK, CertsWereGranted
  <1> QED BY <1>1, CertInvariant, PTL

\* middleware_auth.go: a request whose caller was revoked before it arrived is
\* given no certificate, whatever is granted while it is in service.
THEOREM RevokedCallersNeverServed == Spec => []RevokedCallerGetsNone
  <1>1. CertInv => RevokedCallerGetsNone
    BY DEF CertInv, CertOK, RevokedCallerGetsNone
  <1> QED BY <1>1, CertInvariant, PTL

\* server.go: the counter is in memory, so serials are unique in one life of
\* the server, whatever the number of requests signing at once.
THEOREM SerialsAlwaysUnique == Spec => []SerialsAreUnique
  <1>1. CertInv => SerialsAreUnique
    BY DEF CertInv, SerialsDrawn
  <1> QED BY <1>1, CertInvariant, PTL

\* A ttl that is a Duration does not wrap.
LEMMA NoWrap ==
    ASSUME NEW D \in Nat, NEW ttl \in Int, -D <= ttl, ttl < D
    PROVE  ((ttl + D) % (2 * D)) - D = ttl
  <1>1. 0 <= ttl + D /\ ttl + D < 2 * D
    OBVIOUS
  <1>2. (ttl + D) % (2 * D) = ttl + D
    BY <1>1
  <1> QED BY <1>2

\* ca/sign.go, handlers_certs.go: a certificate's window is not empty and never
\* longer than the maximum and the skew, for every ttl that is a Duration.
THEOREM WindowAlwaysBounded == Spec => []WindowIsBounded
  <1>1. CertInv => WindowIsBounded
    <2> SUFFICES ASSUME CertInv, NEW c \in certs, c.ttl >= -DurationMax
                 PROVE  /\ ValidAfter < ValidBefore(c.ttl)
                        /\ ValidBefore(c.ttl) - ValidAfter <= certTTLMax + clockSkew
      BY DEF WindowIsBounded
    <2>1. /\ c.ttl \in Int /\ c.ttl <= certTTLMax
          /\ ValidAfter < ValidBefore(c.ttl)
      BY DEF CertInv, CertOK
    <2>2. ValidBefore(c.ttl) = c.ttl
      BY <2>1, CertAssumption, NoWrap DEF ValidBefore, certTTLMax
    <2> QED BY <2>1, <2>2 DEF ValidAfter, clockSkew, certTTLMax
  <1> QED BY <1>1, CertInvariant, PTL

=============================================================================

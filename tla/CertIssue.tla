----------------------------- MODULE CertIssue -----------------------------
(***************************************************************************)
(* POST /v1/certs: handleIssueCert (internal/server/handlers_certs.go)     *)
(* behind requireAuth, with the ACL, token revocation, `agents rm` and     *)
(* server restarts going on around it. A request reads the caller's token, *)
(* the Agent's row and the ACL in three store calls, signs in memory and   *)
(* writes the audit row last.                                              *)
(***************************************************************************)
EXTENDS FaultBudget, Integers

CONSTANTS
    Callers, Agents, Users,
    Requests,     \* certificate requests
    Ttls,         \* values of ttl_seconds
    DurationMax,  \* the longest time.Duration, in seconds
    MaxChanges,   \* bound on ACL changes
    MaxRestarts   \* bound on server restarts

certTTLDefault == 300
certTTLMax == 900
clockSkew == 30

ASSUME CertAssumption ==
    /\ Ttls \subseteq Int /\ MaxChanges \in Nat /\ MaxRestarts \in Nat
    /\ DurationMax \in Nat /\ DurationMax > certTTLMax

VARIABLES
    revoked,   \* caller tokens with revoked_at set
    removed,   \* Agents with status revoked: their name is gone, the id is not
    acl,       \* table acl
    changes,   \* ACL changes so far
    req,       \* the requests
    serial,    \* Server.serial, in memory
    life,      \* how many times the server was started before
    audit,     \* table cert_issuance_events
    certs      \* certificates callers have received

vars == <<revoked, removed, acl, changes, req, serial, life, audit, certs, faults>>
tableVars == <<revoked, removed, acl, changes>>

Grants == Callers \X Agents \X Users

CertPC == {"free", "auth", "validate", "resolve", "acl", "sign", "audit",
           "deny", "answered"}

Codes == {0, 200, 400, 401, 403, 404, 500}

\* What a certificate is about, and the row that records it.
CertOf(r) == [req |-> r, grant |-> req[r].grant, ttl |-> req[r].ttl,
              serial |-> req[r].serial, life |-> life]

TypeOK ==
    /\ revoked \subseteq Callers /\ removed \subseteq Agents
    /\ acl \subseteq Grants
    /\ changes \in 0..MaxChanges /\ life \in 0..MaxRestarts
    /\ faults \in 0..MaxFaults
    /\ serial \in Nat
    /\ req \in [Requests ->
                  [pc : CertPC, code : Codes, next : Codes, serial : Nat,
                   grant : Grants \cup {<<>>}, ttl : Int,
                   granted : BOOLEAN, late : BOOLEAN, unread : BOOLEAN,
                   unlogged : BOOLEAN]]
    /\ \A e \in audit : e.outcome \in {"signed", "denied"}

NoRequest ==
    [pc |-> "free", code |-> 0, next |-> 0, serial |-> 0, grant |-> <<>>,
     ttl |-> 0, granted |-> FALSE, late |-> FALSE, unread |-> FALSE,
     unlogged |-> FALSE]

\* The CA is there, Agents are enrolled and callers have tokens.
Init ==
    /\ revoked = {} /\ removed = {} /\ acl = {} /\ changes = 0
    /\ req = [r \in Requests |-> NoRequest]
    /\ serial = 0 /\ life = 0
    /\ audit = {} /\ certs = {}
    /\ faults = 0

-----------------------------------------------------------------------------
(* The operator. granted is history: the ACL held what the request asks    *)
(* for at some time since it arrived; so are late (the caller was revoked  *)
(* before it arrived), unread (its body did not decode) and unlogged (the  *)
(* write of its denial row failed).                                        *)

InService(r) == req[r].pc \notin {"free", "answered"}

Grant(g) ==
    /\ g \notin acl /\ changes < MaxChanges
    /\ acl' = acl \cup {g}
    /\ changes' = changes + 1
    /\ req' = [r \in Requests |->
                 [req[r] EXCEPT !.granted = @ \/ (InService(r) /\ req[r].grant = g)]]
    /\ UNCHANGED <<revoked, removed, serial, life, audit, certs, faults>>

Ungrant(g) ==
    /\ g \in acl /\ changes < MaxChanges
    /\ acl' = acl \ {g}
    /\ changes' = changes + 1
    /\ UNCHANGED <<revoked, removed, req, serial, life, audit, certs, faults>>

RevokeCaller(c) ==
    /\ c \notin revoked
    /\ revoked' = revoked \cup {c}
    /\ UNCHANGED <<removed, acl, changes, req, serial, life, audit, certs, faults>>

RemoveAgent(a) ==
    /\ a \notin removed
    /\ removed' = removed \cup {a}
    /\ UNCHANGED <<revoked, acl, changes, req, serial, life, audit, certs, faults>>

-----------------------------------------------------------------------------
(* handleIssueCert.                                                        *)

Step(r, pc) == req' = [req EXCEPT ![r].pc = pc]

Reply(r, code) == req' = [req EXCEPT ![r].pc = "answered", ![r].code = code]

\* The answer is decided; the denial row is written first.
Deny(r, code) == req' = [req EXCEPT ![r].pc = "deny", ![r].next = code]

\* What else the body says is chosen by the step that looks at it.
Arrive(r, g) ==
    /\ req[r].pc = "free"
    /\ req' = [req EXCEPT ![r] =
                 [NoRequest EXCEPT !.pc = "auth", !.grant = g,
                     !.granted = g \in acl, !.late = g[1] \in revoked]]
    /\ UNCHANGED <<tableVars, serial, life, audit, certs, faults>>

\* Mutant: any token that exists will do.
AuthenticateAny(r) ==
    /\ req[r].pc = "auth"
    /\ Step(r, "validate")
    /\ UNCHANGED <<tableVars, serial, life, audit, certs, faults>>

\* requireAuth(TokenCaller): the row is read once; a failed read is 401.
Authenticate(r) ==
    /\ req[r].pc = "auth"
    /\ \/ /\ IF req[r].grant[1] \in revoked THEN Reply(r, 401)
                                            ELSE Step(r, "validate")
          /\ UNCHANGED faults
       \/ Reply(r, 401) /\ Fails("store")
    /\ UNCHANGED <<tableVars, serial, life, audit, certs>>

\* Mutant: a ttl beyond the maximum is let through.
TooLongNever(ttl) == FALSE

TooLong(ttl) == ttl > certTTLMax

\* A body that does not decode is refused without a row. A missing field is
\* bad input; ttl 0 means the default, a negative one is not looked at here.
Validate(r) ==
    /\ req[r].pc = "validate"
    /\ \/ req' = [req EXCEPT ![r].pc = "answered", ![r].code = 400,
                             ![r].unread = TRUE]
       \/ \E complete \in BOOLEAN, asked \in Ttls :
             LET ttl == IF asked = 0 THEN certTTLDefault ELSE asked
             IN  IF ~complete \/ TooLong(ttl) THEN Deny(r, 400)
                 ELSE req' = [req EXCEPT ![r].pc = "resolve", ![r].ttl = ttl]
    /\ UNCHANGED <<tableVars, serial, life, audit, certs, faults>>

\* resolveAgent: the id of a removed Agent still resolves, its name does not.
\* A failed query is "not found".
ResolveAgent(r) ==
    /\ req[r].pc = "resolve"
    /\ \/ /\ \E byName \in BOOLEAN :
                IF byName /\ req[r].grant[2] \in removed
                THEN Deny(r, 404) ELSE Step(r, "acl")
          /\ UNCHANGED faults
       \/ Deny(r, 404) /\ Fails("store")
    /\ UNCHANGED <<tableVars, serial, life, audit, certs>>

\* Mutant: any grant of this caller on this Agent will do.
AllowsAnyUser(g) == \E u \in Users : <<g[1], g[2], u>> \in acl

\* ListACL filters by caller and Agent, the loop compares the username.
Allows(g) == g \in acl

\* Mutant: the refusal of an ungranted user is not recorded.
CheckACLUnrecorded(r) ==
    /\ req[r].pc = "acl"
    /\ \/ /\ IF Allows(req[r].grant) THEN Step(r, "sign") ELSE Reply(r, 403)
          /\ UNCHANGED faults
       \/ Reply(r, 500) /\ Fails("store")
    /\ UNCHANGED <<tableVars, serial, life, audit, certs>>

CheckACL(r) ==
    /\ req[r].pc = "acl"
    /\ \/ /\ IF Allows(req[r].grant) THEN Step(r, "sign") ELSE Deny(r, 403)
          /\ UNCHANGED faults
       \/ Reply(r, 500) /\ Fails("store")
    /\ UNCHANGED <<tableVars, serial, life, audit, certs>>

\* The window a certificate is valid in, relative to the time of signing.
\* time.Duration(ttl) * time.Second wraps around at 64 bits.
ValidAfter == -clockSkew
ValidBefore(ttl) == ((ttl + DurationMax) % (2 * DurationMax)) - DurationMax

\* Mutant: the counter is read here and stored with the audit row.
NextSerialUnlocked == serial' = serial

\* serial.Add(1).
NextSerial == serial' = serial + 1

\* ca.Sign refuses what is not a plain public key, and an empty window; the
\* serial is spent all the same.
Sign(r) ==
    /\ req[r].pc = "sign"
    /\ NextSerial
    /\ \/ /\ \E goodKey \in BOOLEAN :
                IF goodKey /\ ValidBefore(req[r].ttl) > ValidAfter
                THEN req' = [req EXCEPT ![r].pc = "audit",
                                        ![r].serial = serial + 1]
                ELSE Deny(r, 400)
          /\ UNCHANGED faults
       \/ Reply(r, 500) /\ Fails("sign")
    /\ UNCHANGED <<tableVars, life, audit, certs>>

\* Mutant: the success row is as lenient as the denial row.
WriteSignedLenient(r) ==
    /\ req[r].pc = "audit"
    /\ \/ /\ audit' = audit \cup {[outcome |-> "signed", cert |-> CertOf(r)]}
          /\ UNCHANGED faults
       \/ UNCHANGED audit /\ Fails("store")
    /\ certs' = certs \cup {CertOf(r)}
    /\ Reply(r, 200)
    /\ UNCHANGED <<tableVars, serial, life>>

\* WriteCertEvent, strict: without the row the certificate is not returned.
WriteSigned(r) ==
    /\ req[r].pc = "audit"
    /\ \/ /\ audit' = audit \cup {[outcome |-> "signed", cert |-> CertOf(r)]}
          /\ certs' = certs \cup {CertOf(r)}
          /\ Reply(r, 200)
          /\ UNCHANGED faults
       \/ Reply(r, 500) /\ Fails("store") /\ UNCHANGED <<audit, certs>>
    /\ UNCHANGED <<tableVars, serial, life>>

\* writeDeniedEvent, lenient: the planned answer goes out either way.
WriteDenied(r) ==
    /\ req[r].pc = "deny"
    /\ \/ /\ audit' = audit \cup {[outcome |-> "denied", cert |-> CertOf(r)]}
          /\ Reply(r, req[r].next)
          /\ UNCHANGED faults
       \/ /\ Fails("store")
          /\ req' = [req EXCEPT ![r].pc = "answered", ![r].code = req[r].next,
                                ![r].unlogged = TRUE]
          /\ UNCHANGED audit
    /\ UNCHANGED <<tableVars, serial, life, certs>>

\* The server is restarted: requests in service are gone and the serial
\* counter starts again.
Restart ==
    /\ life < MaxRestarts
    /\ life' = life + 1
    /\ serial' = 0
    /\ req' = [r \in Requests |->
                 IF InService(r) THEN [req[r] EXCEPT !.pc = "answered"] ELSE req[r]]
    /\ UNCHANGED <<tableVars, audit, certs, faults>>

IssueCert(r) ==
    \/ Authenticate(r) \/ Validate(r) \/ ResolveAgent(r) \/ CheckACL(r)
    \/ Sign(r) \/ WriteSigned(r) \/ WriteDenied(r)

Next ==
    \/ \E g \in Grants : Grant(g) \/ Ungrant(g)
    \/ \E c \in Callers : RevokeCaller(c)
    \/ \E a \in Agents : RemoveAgent(a)
    \/ \E r \in Requests :
          \/ \E g \in Grants : Arrive(r, g)
          \/ IssueCert(r)
    \/ Restart

Spec == Init /\ [][Next]_vars

-----------------------------------------------------------------------------

\* No certificate without its audit row, whatever store call fails and
\* whenever the server dies (ACCEPTANCE.md, Audit; #44).
CertsAreAudited ==
    \A c \in certs : [outcome |-> "signed", cert |-> c] \in audit

\* Every path on which the handler refuses a request it could read, whatever
\* changes between its store calls, leaves a denial row; the one exception is
\* a request whose own row could not be written. A body that does not decode
\* leaves none, although handlers_certs.go says "Every request".
DenialsAreAudited ==
    \A r \in Requests :
        (req[r].code \in {400, 403, 404} /\ ~req[r].unread) =>
            \/ \E e \in audit : e.outcome = "denied" /\ e.cert.req = r
            \/ req[r].unlogged

\* The caller, the Agent and the username of a certificate were granted
\* together at some time while the request was in service, although token,
\* Agent and ACL are read at three different times.
CertsWereGranted == \A c \in certs : req[c.req].granted

\* A request that arrives after the caller's token was revoked gets nothing.
RevokedCallerGetsNone == \A c \in certs : ~req[c.req].late

\* Two certificates of one server lifetime never share a serial, so that an
\* audit row identifies one certificate.
SerialsAreUnique ==
    \A c, d \in certs :
        (c.serial = d.serial /\ c.life = d.life) => c = d

\* A certificate is never valid for longer than the maximum plus the skew,
\* and its window is never empty, for every ttl_seconds that is a Duration,
\* negative ones too.
WindowIsBounded ==
    \A c \in certs : c.ttl >= -DurationMax =>
        /\ ValidAfter < ValidBefore(c.ttl)
        /\ ValidBefore(c.ttl) - ValidAfter <= certTTLMax + clockSkew

=============================================================================

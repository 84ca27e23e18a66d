----------------------------- MODULE ServerBoot -----------------------------
(***************************************************************************)
(* How the Control plane gets its CA key and its schema: the commands      *)
(* `server bootstrap`, run any number of times, and `server start`         *)
(* (internal/cli/server_cmd.go, internal/ca, internal/store). They share   *)
(* the files ca and ca.pub and the database, and any of them may crash at  *)
(* any step and be run again.                                              *)
(***************************************************************************)
EXTENDS FaultBudget, Sequences

CONSTANTS
    Bootstraps,      \* invocations of `server bootstrap`
    OpenersOverlap   \* two processes may be inside OpenSQLite at once

ASSUME BootAssumption ==
    /\ OpenersOverlap \in BOOLEAN
    /\ Bootstraps \cap {"server", "none", "partial"} = {}

VARIABLES
    caKey, caPub,    \* the files ca and ca.pub: whose key pair they hold
    tables,          \* the tables of the database
    schemaVersion,   \* the row of schema_version
    cmd,             \* where each process is
    signer, pubkey,  \* server.Config: CASigner and CAPubkey
    callers          \* the Bootstraps whose caller token is in the database

caVars == <<caKey, caPub>>
dbVars == <<tables, schemaVersion>>
cfgVars == <<signer, pubkey>>
bootVars == <<caVars, dbVars, cmd, cfgVars, callers>>

Procs == Bootstraps \cup {"server"}

CmdPC == {"idle", "create", "write", "pub", "readPub", "open", "migrate",
          "mint", "done", "failed"}

\* The statements of migrations.go, each index the schema_version it leads
\* to. Consecutive statements that create unrelated tables stand as one.
Migrations ==
    << [op |-> "create", t |-> "nodes"],
       [op |-> "create", t |-> "tokens"],
       [op |-> "create", t |-> "agents"],
       [op |-> "dropIf", t |-> "tasks"],
       [op |-> "create", t |-> "tokens_v2"],
       [op |-> "copy",   t |-> "tokens_v2"],
       [op |-> "drop",   t |-> "tokens"],
       [op |-> "rename", t |-> "tokens_v2"],
       [op |-> "dropIf", t |-> "nodes"],
       [op |-> "create", t |-> "update_policy"] >>

Tables == {"nodes", "tokens", "agents", "tokens_v2", "update_policy"}

\* SQLite refuses a statement on a table that exists, or does not.
Accepted(s, ts) ==
    CASE s.op = "create" -> s.t \notin ts
      [] s.op = "copy"   -> {s.t, "tokens"} \subseteq ts
      [] s.op = "drop"   -> s.t \in ts
      [] s.op = "rename" -> s.t \in ts /\ "tokens" \notin ts
      [] s.op = "dropIf" -> TRUE

Executed(s, ts) ==
    CASE s.op = "create" -> ts \cup {s.t}
      [] s.op = "copy"   -> ts
      [] s.op \in {"drop", "dropIf"} -> ts \ {s.t}
      [] s.op = "rename" -> (ts \ {s.t}) \cup {"tokens"}

\* The schema after the first n statements.
SchemaAt[n \in 0..Len(Migrations)] ==
    IF n = 0 THEN {} ELSE Executed(Migrations[n], SchemaAt[n - 1])

BootTypeOK ==
    /\ caKey \in Bootstraps \cup {"none", "partial"}
    /\ caPub \in Bootstraps \cup {"none", "partial"}
    /\ tables \subseteq Tables
    /\ schemaVersion \in 0..Len(Migrations)
    /\ cmd \in [Procs -> [pc : CmdPC, next : 0..(Len(Migrations) + 1)]]
    /\ signer \in Bootstraps \cup {"none"}
    /\ pubkey \in Bootstraps \cup {"none"}
    /\ callers \subseteq Bootstraps

BootInit ==
    /\ caKey = "none" /\ caPub = "none"
    /\ tables = {} /\ schemaVersion = 0
    /\ cmd = [p \in Procs |-> [pc |-> "idle", next |-> 0]]
    /\ signer = "none" /\ pubkey = "none"
    /\ callers = {}

GoTo(p, pc) == cmd' = [cmd EXCEPT ![p] = [pc |-> pc, next |-> 0]]

-----------------------------------------------------------------------------
(* The CA key pair.                                                        *)

\* os.Stat, and LoadPrivateFromDisk when there is a file: a half-written key
\* does not parse.
CheckCA(b) ==
    /\ cmd[b].pc = "idle"
    /\ GoTo(b, CASE caKey = "none"    -> "create"
                 [] caKey = "partial" -> "failed"
                 [] OTHER             -> "open")
    /\ UNCHANGED <<caVars, dbVars, cfgVars, callers, faults>>

\* Mutant: an existing file is opened and truncated.
CreateOrTruncate(b) ==
    /\ cmd[b].pc = "create"
    /\ caKey' = "partial"
    /\ GoTo(b, "write")
    /\ UNCHANGED <<caPub, dbVars, cfgVars, callers, faults>>

\* O_CREATE|O_EXCL: whoever comes second gives up.
CreatePrivate(b) ==
    /\ cmd[b].pc = "create"
    /\ IF caKey = "none"
       THEN caKey' = "partial" /\ GoTo(b, "write")
       ELSE UNCHANGED caKey /\ GoTo(b, "failed")
    /\ UNCHANGED <<caPub, dbVars, cfgVars, callers, faults>>

\* A failed write removes the file again.
WritePrivateToDisk(b) ==
    /\ cmd[b].pc = "write"
    /\ \/ caKey' = b /\ GoTo(b, "pub") /\ UNCHANGED faults
       \/ caKey' = "none" /\ GoTo(b, "failed") /\ Fails("disk")
    /\ UNCHANGED <<caPub, dbVars, cfgVars, callers>>

\* os.WriteFile truncates first: a failure leaves an empty file.
WritePublicToDisk(b) ==
    /\ cmd[b].pc = "pub"
    /\ \/ caPub' = b /\ GoTo(b, "open") /\ UNCHANGED faults
       \/ caPub' = "partial" /\ GoTo(b, "failed") /\ Fails("disk")
    /\ UNCHANGED <<caKey, dbVars, cfgVars, callers>>

\* `server start` loads the key it finds, or starts without one.
LoadSigner ==
    /\ cmd["server"].pc = "idle"
    /\ IF caKey = "partial" THEN GoTo("server", "failed") /\ UNCHANGED signer
       ELSE /\ signer' = caKey
            /\ GoTo("server", IF caKey = "none" THEN "open" ELSE "readPub")
    /\ UNCHANGED <<caVars, dbVars, pubkey, callers, faults>>

\* A public key that is not there is not an error.
ReadPubkey ==
    /\ cmd["server"].pc = "readPub"
    /\ pubkey' = IF caPub \in Bootstraps THEN caPub ELSE "none"
    /\ GoTo("server", "open")
    /\ UNCHANGED <<caVars, dbVars, signer, callers, faults>>

-----------------------------------------------------------------------------
(* The schema.                                                             *)

\* migrate reads schema_version once.
OpenSQLite(p) ==
    /\ cmd[p].pc = "open"
    /\ OpenersOverlap \/ \A q \in Procs : cmd[q].pc # "migrate"
    /\ cmd' = [cmd EXCEPT ![p] = [pc |-> "migrate", next |-> schemaVersion + 1]]
    /\ UNCHANGED <<caVars, dbVars, cfgVars, callers, faults>>

\* Mutant: the version is bumped in a transaction of its own, which fails.
MigrateThenBump(p) ==
    /\ cmd[p].pc = "migrate" /\ cmd[p].next <= Len(Migrations)
    /\ Accepted(Migrations[cmd[p].next], tables)
    /\ tables' = Executed(Migrations[cmd[p].next], tables)
    /\ \/ /\ schemaVersion' = cmd[p].next
          /\ cmd' = [cmd EXCEPT ![p].next = @ + 1]
          /\ UNCHANGED faults
       \/ Fails("store") /\ GoTo(p, "failed") /\ UNCHANGED schemaVersion
    /\ UNCHANGED <<caVars, cfgVars, callers>>

\* One statement and its version bump are one transaction.
Migrate(p) ==
    LET n == cmd[p].next
    IN  /\ cmd[p].pc = "migrate"
        /\ n <= Len(Migrations)
        /\ Accepted(Migrations[n], tables)
        /\ tables' = Executed(Migrations[n], tables)
        /\ schemaVersion' = n
        /\ cmd' = [cmd EXCEPT ![p].next = @ + 1]
        /\ UNCHANGED <<caVars, cfgVars, callers, faults>>

\* The statement fails, or the database does: nothing is committed.
MigrateFails(p) ==
    /\ cmd[p].pc = "migrate"
    /\ cmd[p].next <= Len(Migrations)
    /\ \/ ~Accepted(Migrations[cmd[p].next], tables) /\ UNCHANGED faults
       \/ Fails("store")
    /\ GoTo(p, "failed")
    /\ UNCHANGED <<caVars, dbVars, cfgVars, callers>>

Opened(p) ==
    /\ cmd[p].pc = "migrate"
    /\ cmd[p].next > Len(Migrations)
    /\ GoTo(p, IF p = "server" THEN "done" ELSE "mint")
    /\ UNCHANGED <<caVars, dbVars, cfgVars, callers, faults>>

\* The first caller token is written straight into the database.
MintCallerToken(b) ==
    /\ cmd[b].pc = "mint"
    /\ IF "tokens" \in tables
       THEN callers' = callers \cup {b} /\ GoTo(b, "done")
       ELSE UNCHANGED callers /\ GoTo(b, "failed")
    /\ UNCHANGED <<caVars, dbVars, cfgVars, faults>>

-----------------------------------------------------------------------------

Rerun(p) ==
    /\ cmd[p].pc = "failed"
    /\ GoTo(p, "idle")
    /\ signer' = IF p = "server" THEN "none" ELSE signer
    /\ pubkey' = IF p = "server" THEN "none" ELSE pubkey
    /\ UNCHANGED <<caVars, dbVars, callers, faults>>

\* The process is killed; what it had in memory is gone.
Killed(p) ==
    /\ cmd[p].pc \notin {"idle", "failed"}
    /\ p # "server" => cmd[p].pc # "done"
    /\ Fails("crash")
    /\ GoTo(p, "failed")
    /\ UNCHANGED <<caVars, dbVars, cfgVars, callers>>

Serving == cmd["server"].pc = "done"

BootStep ==
    \/ \E b \in Bootstraps :
          \/ CheckCA(b) \/ CreatePrivate(b) \/ WritePrivateToDisk(b)
          \/ WritePublicToDisk(b) \/ MintCallerToken(b)
    \/ LoadSigner
    \/ ReadPubkey
    \/ \E p \in Procs : OpenSQLite(p) \/ Migrate(p) \/ MigrateFails(p) \/ Opened(p)
    \/ \E p \in Procs : Rerun(p)

=============================================================================

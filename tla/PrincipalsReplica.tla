------------------------- MODULE PrincipalsReplica -------------------------
(***************************************************************************)
(* What policy synchronisation promises sshd, with no process, no message  *)
(* and no failure in it: the principals directory is a replica of a log of *)
(* ACLs. The replica adopts versions in order, never going back, and a     *)
(* file changes only by taking the adopted version's content for its user  *)
(* or by disappearing. In particular a caller whose grant has been removed *)
(* cannot come back into a file by an older policy that arrives late.      *)
(***************************************************************************)
EXTENDS Policy

VARIABLES
    latest,    \* the newest published version
    log,       \* log[v]: the ACL published as version v
    adopted,   \* the version the replica takes its content from
    files      \* the principals directory

replicaVars == <<latest, log, adopted, files>>

ReplicaInit ==
    /\ latest = 0
    /\ log = [v \in {0} |-> {}]
    /\ adopted = 0
    /\ files = NoFiles

\* Exactly one grant is added or removed.
Publish ==
    /\ \E g \in Grants :
          LET old == log[latest]
              new == IF g \in old THEN old \ {g} ELSE old \cup {g}
          IN log' = [v \in 0..(latest + 1) |->
                        IF v = latest + 1 THEN new ELSE log[v]]
    /\ latest' = latest + 1
    /\ UNCHANGED <<adopted, files>>

Adopt ==
    /\ adopted' \in (adopted + 1)..latest
    /\ UNCHANGED <<latest, log, files>>

Put(u) ==
    /\ files' = [files EXCEPT ![u] = Projection(log[adopted])[u]]
    /\ UNCHANGED <<latest, log, adopted>>

Drop(u) ==
    /\ files' = [files EXCEPT ![u] = {}]
    /\ UNCHANGED <<latest, log, adopted>>

ReplicaNext ==
    \/ Publish
    \/ Adopt
    \/ \E u \in Users : Put(u) \/ Drop(u)

ReplicaSpec == ReplicaInit /\ [][ReplicaNext]_replicaVars

=============================================================================

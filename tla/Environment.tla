---------------------------- MODULE Environment ----------------------------
(***************************************************************************)
(* What surrounds the program: a link between Agent and Control plane that *)
(* may be cut and mended, and a bounded number of faults, of the kinds a   *)
(* run chooses to include.                                                 *)
(***************************************************************************)
EXTENDS Naturals

CONSTANTS
    FaultKinds,  \* which kinds of fault can happen, see FaultKind
    MaxFaults    \* bound on the number of faults in a behaviour

\* crash: the Agent process dies;   stop: it gets SIGTERM;
\* apply: a file operation of an apply fails;   wipe: one of onRevoked fails;
\* store: a database call of a handler fails;   cut: the link goes down;
\* payload: the payload process dies alone;   download: an update cannot be
\* fetched or staged;   health, pending, quarantine: writing that marker fails.
FaultKind == {"crash", "stop", "apply", "wipe", "store", "cut",
              "payload", "download", "health", "pending", "quarantine"}

ASSUME FaultsAssumption == FaultKinds \subseteq FaultKind /\ MaxFaults \in Nat

VARIABLES
    faults,       \* faults so far
    partitioned   \* no answer of the Control plane reaches the Agent

envVars == <<faults, partitioned>>

EnvTypeOK == faults \in 0..MaxFaults /\ partitioned \in BOOLEAN

EnvInit == faults = 0 /\ partitioned = FALSE

Fault(kind) ==
    /\ kind \in FaultKinds
    /\ faults < MaxFaults
    /\ faults' = faults + 1
    /\ UNCHANGED partitioned

Cut ==
    /\ ~partitioned
    /\ "cut" \in FaultKinds
    /\ faults < MaxFaults
    /\ faults' = faults + 1
    /\ partitioned' = TRUE

Heal ==
    /\ partitioned
    /\ partitioned' = FALSE
    /\ UNCHANGED faults

=============================================================================

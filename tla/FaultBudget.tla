---------------------------- MODULE FaultBudget ----------------------------
(* A bounded number of failures, of the kinds a run includes.              *)
EXTENDS Naturals

CONSTANTS
    Failing,    \* which kinds of failure can happen
    MaxFaults   \* bound on the failures in a behaviour

ASSUME BudgetAssumption == MaxFaults \in Nat

VARIABLE faults   \* failures so far

Fails(kind) ==
    /\ kind \in Failing
    /\ faults < MaxFaults
    /\ faults' = faults + 1

=============================================================================

------------------------------- MODULE Faults -------------------------------
(***************************************************************************)
(* What may go wrong around the services behind the pipeline: a query to   *)
(* MySQL or a command to Redis fails, the answer to a save is lost after   *)
(* the row was written, a process dies.                                    *)
(***************************************************************************)
EXTENDS Naturals

CONSTANTS
    FaultKinds,     \* the kinds of fault the environment may inject
    MaxFaults       \* bound: how many faults one behaviour has

ASSUME FaultAssumption ==
    /\ FaultKinds \subseteq {"db", "dbAck", "redis", "crash"}
    /\ MaxFaults \in Nat

VARIABLE faults     \* faults injected so far

Fault(kind) ==
    /\ kind \in FaultKinds
    /\ faults < MaxFaults
    /\ faults' = faults + 1

\* What a table holds after save() threw.
AfterFailedSave(old, new) == {old} \cup {t \in {new} : "dbAck" \in FaultKinds}
=============================================================================

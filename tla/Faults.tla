------------------------------- MODULE Faults -------------------------------
(***************************************************************************)
(* What the machine may do to a run: a system call, a statement or a git   *)
(* command may fail and a process may be killed, at most MaxFaults times.  *)
(***************************************************************************)
EXTENDS Integers

CONSTANT MaxFaults \* bound: failures and kills in one behaviour

ASSUME FaultsAssumption == MaxFaults \in Nat

VARIABLE faults

Works == UNCHANGED faults
Fails == faults < MaxFaults /\ faults' = faults + 1

=============================================================================

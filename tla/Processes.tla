----------------------------- MODULE Processes -----------------------------
(***************************************************************************)
(* The processes of the system: each submit-review is one, and ends with   *)
(* one of the exit codes of internal/cli/cli.go.  They share one clock.    *)
(***************************************************************************)
EXTENDS Integers

CONSTANTS
    Runs,    \* the concurrent submit-review processes
    MaxTime  \* bound: seconds the clock advances in one behaviour

ASSUME ProcessAssumption == MaxTime \in Nat

\* RFC 3339 keeps whole seconds.
Times == 0..MaxTime

ExitValid == 0
ExitInvalid == 1
ExitUsage == 2
ExitPrecondition == 3
ExitTool == 101

\* A process that has not ended, or was killed: it has no exit code.
Running == -1

ExitCodes == {ExitValid, ExitInvalid, ExitUsage, ExitPrecondition, ExitTool}

=============================================================================

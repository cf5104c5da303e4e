------------------------------ MODULE Guidance ------------------------------
(***************************************************************************)
(* The commands that a reviewer is taught by, as the command line tells    *)
(* them apart (internal/cli/cli.go): one run is either of prime or of      *)
(* describe.                                                               *)
(***************************************************************************)
EXTENDS Profiles, Describe

guidanceVars == <<profileVars, describeVars>>

GuidanceInit == ProfilesInit /\ DescribeInit

Prime == stage = "idle" /\ ProfilesNext /\ UNCHANGED describeVars
DescribeCommand == at = "idle" /\ DescribeNext /\ UNCHANGED profileVars

GuidanceNext == Prime \/ DescribeCommand

GuidanceSpec == GuidanceInit /\ [][GuidanceNext]_guidanceVars

=============================================================================

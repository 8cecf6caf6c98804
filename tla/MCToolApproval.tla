--------------------------- MODULE MCToolApproval ---------------------------
(* Instances of ToolApproval for TLC. *)
EXTENDS ToolApproval, TLC

\* Most properties say nothing about what follows one of the two races.
UpToRace == Calm

Runners2 == Permutations(Runner)
=============================================================================

---------------------------- MODULE MCSubagents ----------------------------
(* Instances of Subagents for TLC. *)
EXTENDS Subagents, TLC

\* Delegations of one mode are interchangeable, and so are responses.
Symmetry == Permutations(Background) \cup Permutations(Response)
=============================================================================

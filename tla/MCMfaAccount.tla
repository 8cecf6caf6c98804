---- MODULE MCMfaAccount ----
(* MfaAccount on small instances. *)
EXTENDS MfaAccount, TLC

Symmetry == Permutations(Request) \cup Permutations(Password)
====

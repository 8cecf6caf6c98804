---- MODULE MCChatHistory ----
(* ChatHistory on small instances. *)
EXTENDS ChatHistory, TLC

Symmetry == Permutations(Prompt) \cup Permutations(Reply) \cup Permutations(Tab)
====

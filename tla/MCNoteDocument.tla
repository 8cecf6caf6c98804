---- MODULE MCNoteDocument ----
(* NoteDocument on small instances. *)
EXTENDS NoteDocument, TLC

Symmetry == Permutations(Editor) \cup Permutations(Word)
====

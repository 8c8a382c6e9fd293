---------------------------- MODULE MCEditorSync ----------------------------
(* EditorSync with three texts; the texts are interchangeable.              *)
EXTENDS EditorSync, TLC

Interchangeable == Permutations(Text)
=============================================================================

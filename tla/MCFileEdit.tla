------------------------------ MODULE MCFileEdit ------------------------------
(* Small instances of FileEdit for TLC. *)
EXTENDS FileEdit, TLC

\* Sessions are interchangeable.
Symmetric == Permutations(Sessions)
=============================================================================

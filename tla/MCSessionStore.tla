---------------------------- MODULE MCSessionStore ----------------------------
(* Small instances of SessionStore for TLC. *)
EXTENDS SessionStore, TLC

\* Calls of one kind are interchangeable.
Symmetric == Permutations(SubAgents) \union Permutations(Steps)
=============================================================================

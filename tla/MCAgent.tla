------------------------------ MODULE MCAgent ------------------------------
(* Small instances of Agent for TLC. *)
EXTENDS Agent, TLC

\* Prompts, summarizers, cancellers and tool calls differ in nothing but their names.
Symmetry ==
  Permutations(Prompts) \cup Permutations(Summarizers) \cup Permutations(Cancellers)
    \cup Permutations(Calls)
=============================================================================

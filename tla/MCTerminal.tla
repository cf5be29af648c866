------------------------------- MODULE MCTerminal -------------------------------
(* Small instances of Terminal for TLC. *)
EXTENDS Terminal, TLC

W(type, id, role, of, text, call, end) ==
  [type |-> type, id |-> id, role |-> role, of |-> of, text |-> text, call |-> call,
   end |-> end]

\* A turn of two messages: the first one has nothing but a call of an agent
\* tool, the second one ends the turn.
CallOnly ==
  << W("created", 1, "user", 0, TRUE, "none", FALSE),
     W("created", 2, "assistant", 0, FALSE, "none", FALSE),
     W("updated", 2, "assistant", 0, FALSE, "open", FALSE),
     W("updated", 2, "assistant", 0, FALSE, "done", FALSE),
     W("updated", 3, "child", 2, FALSE, "open", FALSE),
     W("created", 4, "childTool", 2, FALSE, "none", FALSE),
     W("created", 5, "tool", 2, FALSE, "none", FALSE),
     W("created", 6, "assistant", 0, FALSE, "none", FALSE),
     W("updated", 6, "assistant", 0, TRUE, "none", TRUE) >>

Symmetry == Permutations(ViewSessions)
=============================================================================

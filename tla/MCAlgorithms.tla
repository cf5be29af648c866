---------------------------- MODULE MCAlgorithms ----------------------------
(* Small instances of Algorithms for TLC. *)
EXTENDS Algorithms, TLC

Call(id, name) == [id |-> id, name |-> name, input |-> "x"]

\* Steps without a call, with a call that has the result r or none, with the
\* same call and result under another id, and with two calls.
SomeSteps ==
  { [calls |-> <<>>, results |-> <<>>],
    [calls |-> <<Call("c1", "view")>>, results |-> ("c1" :> "r")],
    [calls |-> <<Call("c2", "view")>>, results |-> ("c2" :> "r")],
    [calls |-> <<Call("c1", "view")>>, results |-> <<>>],
    [calls |-> <<Call("c1", "view"), Call("c2", "grep")>>,
     results |-> ("c1" :> "r" @@ "c2" :> "s")] }

\* Resources of three modules, within the target of tokens and above it.
Resource(tokens, module) == [tokens |-> tokens, module |-> module]

SomeResources ==
  { Resource(0, "a"), Resource(1, "a"), Resource(2, "b"), Resource(3, "a"), Resource(5, "b"),
    Resource(2, "c") }

SomeCharacters == {"a", "b", "x", "y", "\r", "\n"}

\* Documents of one line and of more, with each ending and with both.
SomeDocs ==
  { <<>>, <<"a", "b">>, <<"a", "\n", "b">>, <<"a", "\n">>, <<"a", "\n", "\n", "b", "\n">>,
    <<"a", "\r", "\n", "b">>, <<"a", "\r", "\n", "\r", "\n">>, <<"a", "\n", "b", "\r", "\n">> }

SomeTexts ==
  { << <<>> >>, << <<"x">> >>, << <<"x">>, <<>> >>, << <<>>, <<"y">> >>, << <<"x", "\r">>, <<>> >> }

Message(role, mark, calls, tokens, cut) ==
  [role |-> role, mark |-> mark, calls |-> calls, tokens |-> tokens, cut |-> cut]

\* A prompt, a task and a long prompt; an answer, one that is marked, one that
\* counts for more when it is cut; a call and its result, which have no text.
SomeMessages ==
  { Message("user", "none", FALSE, 8, 8),
    Message("user", "task", FALSE, 8, 8),
    Message("user", "none", FALSE, 14, 9),
    Message("assistant", "none", FALSE, 7, 7),
    Message("assistant", "drea", FALSE, 9, 9),
    Message("assistant", "none", FALSE, 11, 12),
    Message("assistant", "none", TRUE, 6, 6),
    Message("tool", "none", FALSE, 6, 6) }
=============================================================================

----------------------------- MODULE Compaction -----------------------------
(***************************************************************************)
(* Which messages of a history GhostCompact keeps (ghostcount/truncate.go, *)
(* ghostcount/compact.go, agent/agent.go) and what the next turn sends.    *)
(*                                                                         *)
(* A message is a record: its role, its mark ("task", "drea" or "none"),   *)
(* its estimated tokens with the overhead, and cut, the estimate once its  *)
(* text is truncated.  The estimate credits repetition, so that cut may be *)
(* more than tokens.  The program creates no system messages and sets no   *)
(* active symbols: a message is RetainAlways or RetainNormal.              *)
(*                                                                         *)
(* What is kept is a sequence of places in the history, whole or cut.      *)
(***************************************************************************)
EXTENDS Integers, Sequences, FiniteSets, SequencesExt

CONSTANT HistoryThreshold   \* 85% of the window, or 1500 after a context error

Whole(i) == [at |-> i, whole |-> TRUE]
Cut(i)   == [at |-> i, whole |-> FALSE]

EstimateMessages(msgs, kept) ==
  FoldLeft(LAMBDA sum, k : sum + IF k.whole THEN msgs[k.at].tokens ELSE msgs[k.at].cut, 0, kept)

WholeHistory(msgs) == [i \in DOMAIN msgs |-> Whole(i)]

\* The places of the history that are in S, in order.
Places(msgs, S) ==
  FoldLeft(LAMBDA kept, k : IF k.at \in S THEN Append(kept, k) ELSE kept, <<>>, WholeHistory(msgs))

IsTask(m) == m.role = "user" /\ m.mark = "task"

\* Mutant: the last message only is protected.
LastOnly(msgs) == {i \in DOMAIN msgs : IsTask(msgs[i]) \/ i = Len(msgs)}

Protected(msgs) ==
  {i \in DOMAIN msgs : IsTask(msgs[i])} \cup {i \in DOMAIN msgs : i >= Len(msgs) - 1}

\* One round of the second pass: message i, which is not protected.
AddUnprotected(msgs, t, i) ==
  LET whole == Append(t.kept, Whole(i))
      cut   == Append(t.kept, Cut(i))
  IN  IF t.stopped THEN t
      ELSE IF EstimateMessages(msgs, whole) <= HistoryThreshold
      THEN [t EXCEPT !.kept = whole]
      ELSE [kept |-> cut, stopped |-> EstimateMessages(msgs, cut) > HistoryThreshold]

\* Mutant: what was removed is not weighed against what there was.
TruncateAlways(msgs) ==
  LET others == Places(msgs, DOMAIN msgs \ Protected(msgs))
      start  == [kept |-> Places(msgs, Protected(msgs)), stopped |-> FALSE]
      kept   == FoldLeft(LAMBDA t, k : AddUnprotected(msgs, t, k.at), start, others).kept
  IN  [kept |-> kept, truncated |-> Len(msgs) > 3]

TruncateMessages(msgs) ==
  LET others == Places(msgs, DOMAIN msgs \ Protected(msgs))
      start  == [kept |-> Places(msgs, Protected(msgs)), stopped |-> FALSE]
      kept   == FoldLeft(LAMBDA t, k : AddUnprotected(msgs, t, k.at), start, others).kept
      before == EstimateMessages(msgs, WholeHistory(msgs))
  IN  IF Len(msgs) <= 3 \/ before <= HistoryThreshold
      THEN [kept |-> WholeHistory(msgs), truncated |-> FALSE]
      ELSE [kept |-> kept, truncated |-> EstimateMessages(msgs, kept) < before]

RetainAlways(msgs) == {i \in DOMAIN msgs : msgs[i].mark = "drea"}

\* Mutant: the oldest messages are kept first.
KeepOldest(msgs, p, i) ==
  LET j == Len(msgs) + 1 - i
  IN  IF j \in RetainAlways(msgs) \/ msgs[j].tokens > p.available THEN p
      ELSE [kept |-> p.kept \cup {j}, available |-> p.available - msgs[j].tokens]

\* One round of the loop over the normal messages, from the newest.
KeepNormal(msgs, p, i) ==
  IF i \in RetainAlways(msgs) \/ msgs[i].tokens > p.available THEN p
  ELSE [kept |-> p.kept \cup {i}, available |-> p.available - msgs[i].tokens]

HardPrune(msgs) ==
  LET always    == Places(msgs, RetainAlways(msgs))
      available == HistoryThreshold - EstimateMessages(msgs, always)
      start     == [kept |-> {}, available |-> IF available < 0 THEN 0 ELSE available]
      normal    == FoldLeft(LAMBDA p, k : KeepNormal(msgs, p, k.at), start,
                            Reverse(WholeHistory(msgs))).kept
  IN  always \o Places(msgs, normal)

Compact(msgs) ==
  LET before    == EstimateMessages(msgs, WholeHistory(msgs))
      truncated == TruncateMessages(msgs)
      pruned    == HardPrune(msgs)
      after     == EstimateMessages(msgs, pruned)
  IN  IF before <= HistoryThreshold
      THEN [messages |-> WholeHistory(msgs), wasCompacted |-> FALSE, asyncRecommended |-> FALSE]
      ELSE IF truncated.truncated
      THEN [messages |-> truncated.kept, wasCompacted |-> TRUE, asyncRecommended |-> FALSE]
      ELSE [messages |-> pruned,
            wasCompacted |-> after > HistoryThreshold \/ after < before,
            asyncRecommended |-> after > HistoryThreshold]

\* The message at which the next turn starts: the first of the result that is
\* still the message of the database, or the start of the history.
GhostCompact(msgs) ==
  LET result == Compact(msgs)
      wholes == {j \in DOMAIN result.messages : result.messages[j].whole}
  IN  IF ~result.wasCompacted \/ wholes = {} THEN 1 ELSE result.messages[Min(wholes)].at

\* What the next turn sends: getSessionMessages from the boundary on.
Sent(msgs) == GhostCompact(msgs)..Len(msgs)
=============================================================================

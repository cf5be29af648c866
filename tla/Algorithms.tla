------------------------------ MODULE Algorithms ------------------------------
(***************************************************************************)
(* The algorithms of the program that keep no state, on inputs that grow   *)
(* one element at a time: the steps of a turn until the loop detector      *)
(* stops it, the resources of a task, the edits of a document, the         *)
(* messages of a history.                                                  *)
(***************************************************************************)
EXTENDS Integers, Sequences, FiniteSets, SequencesExt

CONSTANTS
  Steps, windowSize, maxRepeats, MaxSteps,                 \* loop detection
  Resources, MaxIntents, MaxTokensPerIntent, MaxResources, \* partition
  Characters, Docs, NoFile, Texts, MaxEdits,               \* text edits
  Messages, MaxMessages, HistoryThreshold                  \* compaction

VARIABLES steps, resources, content, edits, history

inputs == <<steps, resources, content, edits, history>>

Loop == INSTANCE LoopDetection

Part == INSTANCE Partition

Edit == INSTANCE TextEdits

Ghost == INSTANCE Compaction

ASSUME AlgorithmsAssumption ==
  /\ {windowSize, maxRepeats, MaxTokensPerIntent, MaxIntents} \subseteq Nat \ {0}
  /\ \A r \in Resources : r.tokens \in Nat
  /\ Docs \subseteq Seq(Characters) /\ NoFile \notin Docs
  /\ Texts \subseteq Seq(Seq(Characters \ {Edit!Newline})) /\ <<>> \notin Texts
  /\ HistoryThreshold \in Nat
  /\ \A m \in Messages : {m.tokens, m.cut} \subseteq Nat \ {0}

\* The ending of the document and its lines, of which no file has any.
ending == Edit!lineEnding(content)
doc    == IF content = NoFile THEN <<>> ELSE Edit!splitLines(content, ending)

\* Without a document the other inputs grow.
AlgorithmsInit ==
  /\ steps = <<>> /\ resources = <<>> /\ edits = <<>> /\ history = <<>>
  /\ content \in Docs \cup {NoFile}

\* A step of a turn; the stream asks the detector after every one.
TakeStep(s) ==
  /\ content = NoFile /\ resources = <<>> /\ history = <<>> /\ Len(steps) < MaxSteps
  /\ ~Loop!hasRepeatedToolCalls(steps)
  /\ steps' = Append(steps, s)
  /\ UNCHANGED <<resources, content, edits, history>>

AddResource(r) ==
  /\ content = NoFile /\ steps = <<>> /\ history = <<>> /\ Len(resources) < MaxResources
  /\ resources' = Append(resources, r)
  /\ UNCHANGED <<steps, content, edits, history>>

Positions == UNION {{<<i - 1, c>> : c \in 0..Len(doc[i])} : i \in DOMAIN doc}

AddEdit(from, to, text) ==
  /\ content # NoFile /\ Len(edits) < MaxEdits
  /\ ~Edit!Before(to, from)
  /\ edits' = Append(edits, [start |-> from, end |-> to, text |-> text])
  /\ UNCHANGED <<steps, resources, content, history>>

\* A history begins with a prompt; results follow their calls.
AddMessage(m) ==
  /\ content = NoFile /\ steps = <<>> /\ resources = <<>> /\ Len(history) < MaxMessages
  /\ history = <<>> => m.role = "user"
  /\ m.role = "tool" <=> history # <<>> /\ Last(history).calls
  /\ history' = Append(history, m)
  /\ UNCHANGED <<steps, resources, content, edits>>

AlgorithmsNext ==
  \/ \E s \in Steps : TakeStep(s)
  \/ \E r \in Resources : AddResource(r)
  \/ \E from, to \in Positions, text \in Texts : AddEdit(from, to, text)
  \/ \E m \in Messages : AddMessage(m)

AlgorithmsSpec == AlgorithmsInit /\ [][AlgorithmsNext]_inputs

-----------------------------------------------------------------------------
(* Properties *)

\* The detector stops a turn exactly when one of its windows, wherever it
\* lies, has a signature more than maxRepeats times (loop_detection.go:17):
\* looking at the last window only, a turn slips through with none.
NoLoopIsMissed ==
  LET sig(i) == Loop!getToolInteractionSignature(steps[i])
      Loops(a) == \E i \in a..(a + windowSize - 1) :
        /\ sig(i) # <<>>
        /\ Cardinality({j \in a..(a + windowSize - 1) : sig(j) = sig(i)}) > maxRepeats
  IN  Loop!hasRepeatedToolCalls(steps)
        <=> \E a \in 1..(Len(steps) - windowSize + 1) : Loops(a)

Sum(s) == FoldLeft(LAMBDA a, b : a + b, 0, s)

TokensOf(intent) == Sum([k \in DOMAIN intent |-> intent[k].tokens])

\* The intents have every resource once and in order, and one has more tokens
\* than the target only when its one resource has.
WholeByFile(rs, intents) ==
  /\ FlattenSeq(intents) = rs
  /\ \A i \in DOMAIN intents :
       \/ TokensOf(intents[i]) <= MaxTokensPerIntent
       \/ Len(intents[i]) = 1

\* Every resource is in the intent of its module at the place it has among
\* the module's resources, and an intent has no more than these.
WholeByModule(rs, intents) ==
  LET SameModule(k, n) == {j \in 1..n : rs[j].module = rs[k].module}
  IN  /\ \A k \in DOMAIN rs : \E i \in DOMAIN intents :
           /\ Len(intents[i]) = Cardinality(SameModule(k, Len(rs)))
           /\ intents[i][Cardinality(SameModule(k, k))] = rs[k]
      /\ \A i \in DOMAIN intents :
           /\ intents[i] # <<>> /\ intents[i][1] \in ToSet(rs)
           /\ \A k \in DOMAIN intents[i], j \in DOMAIN intents :
                j = i <=> intents[j][1].module = intents[i][k].module

\* Whether a task is divided by its files (partition.go:83) or by its modules
\* (partition.go:165), no resource is lost, doubled or moved before another of
\* its intent.  The target of tokens is kept by the first way only.
PartitionIsWhole ==
  /\ \A intents \in Part!PartitionOf(resources, "file") : WholeByFile(resources, intents)
  /\ resources # <<>> =>
       \A intents \in Part!PartitionOf(resources, "module") : WholeByModule(resources, intents)

\* There is an empty line at place o of a text.
BlankAt(text, o) ==
  /\ o = 0 \/ text[o] = Edit!Newline
  /\ o = Len(text) \/ text[o + 1] = Edit!Newline

EndsWithNewline(text) == text # <<>> /\ Last(text) = Edit!Newline

\* The document has no line ending but its own, and no new text has a "\r".
Plain == Characters \ {Edit!Return, Edit!Newline}

OneEnding ==
  /\ doc \in Seq(Seq(Plain))
  /\ \A i \in DOMAIN edits : edits[i].text \in Seq(Seq(Plain))

\* The lines are all of the document, and edits that overlap are rejected.
\* Others, applied one after the other from the last to the first, give the
\* text they give when each refers to the document as it was (edit.go:45), and
\* every line of it has the ending of the document.  Not looked at are a
\* document of more than one ending, whose lines the server counts in another
\* way, and a text with "\r", which stays in front of the ending; edits that
\* start at one place, which the sort brings in any order; and removals that
\* leave an empty line, which goes with them.
EditsAreSimultaneous ==
  LET old   == Edit!Flat(doc)
      new   == Edit!Simultaneously(doc, edits)
      From(i) == Edit!OffsetOf(doc, edits[i].start)
      To(i)   == Edit!OffsetOf(doc, edits[i].end)
      Overlap == \E i, j \in DOMAIN edits : i # j /\ From(i) < To(j) /\ From(j) < To(i)
      \* Edit i removes text, and its line is empty when those after it are made.
      Empties(i) ==
        LET done == [j \in DOMAIN edits |->
              IF Edit!Before(edits[j].start, edits[i].start) THEN Edit!Nothing ELSE edits[j]]
        IN  Edit!Empty(edits[i].text) /\ BlankAt(Edit!Simultaneously(doc, done), From(i))
      whole   == IF EndsWithNewline(old) /\ ~EndsWithNewline(new)
                 THEN Append(new, Edit!Newline) ELSE new
      Distinct == \A i, j \in DOMAIN edits : i # j => From(i) # From(j)
      results == Edit!applyTextEdits(content, edits)
  IN  content # NoFile =>
      /\ Edit!joinLines(doc, ending) = content
      /\ OneEnding =>
           /\ Overlap => results = {Edit!Rejected}
           /\ ~Overlap /\ Distinct /\ (\A i \in DOMAIN edits : ~Empties(i))
                => \A r \in results : r = Edit!Written(Edit!Rendered(whole, ending))

\* GhostCompact sees histories whose calls have their results.
Complete == history # <<>> /\ ~Last(history).calls

\* A pruned history has all that must always be kept and fits, unless that
\* alone is too much; a message that was given up does not fit beside those
\* that are newer or must be kept (compact.go:162).
PruneFits ==
  LET kept   == ToSet(Ghost!HardPrune(history))
      At     == {k.at : k \in kept}
      Weigh(S) == Ghost!EstimateMessages(history, Ghost!Places(history, S))
      always == Ghost!RetainAlways(history)
  IN  Complete =>
      /\ always \subseteq At
      /\ Weigh(At) <= HistoryThreshold \/ At = always
      /\ \A i \in DOMAIN history \ At :
           Weigh({i} \cup always \cup {j \in At : j > i}) > HistoryThreshold

\* After a compaction that only truncates, the next turn sends the last two
\* messages and every task, whole; a summary is asked for when what is kept
\* does not fit, and only then, unless the history was truncated
\* (truncate.go:67, compact.go:142).
RecentIsSent ==
  LET result == Ghost!Compact(history)
      after  == Ghost!EstimateMessages(history, result.messages)
      truncates == Ghost!TruncateMessages(history).truncated
      recent == {i \in DOMAIN history : i >= Len(history) - 1 \/ Ghost!IsTask(history[i])}
  IN  Complete /\ result.wasCompacted =>
      IF truncates
      THEN /\ recent \subseteq Ghost!Sent(history)
           /\ \A i \in recent : Ghost!Whole(i) \in ToSet(result.messages)
      ELSE result.asyncRecommended <=> after > HistoryThreshold

\* A compaction never leaves more tokens than there were, although a text
\* that repeats itself may count for more when it is cut (estimator.go:105).
CompactNeverGrows ==
  Complete => Ghost!EstimateMessages(history, Ghost!Compact(history).messages)
                <= Ghost!EstimateMessages(history, Ghost!WholeHistory(history))

\* Messages marked to be always retained are never truncated (types.go:37).
\* The code does not have this: TruncateMessages protects tasks, not these.
RetainedIsKept ==
  Complete => \A i \in Ghost!RetainAlways(history) :
                Ghost!Whole(i) \in ToSet(Ghost!Compact(history).messages)

\* Messages are removed from the middle, the oldest first (truncate.go:66).
\* The code does not have this: it keeps the oldest that fit and stops.
OldestGoFirst ==
  LET kept == ToSet(Ghost!TruncateMessages(history).kept)
  IN  Complete => \A i, j \in DOMAIN history \ Ghost!Protected(history) :
                    i < j /\ Ghost!Whole(i) \in kept => Ghost!Whole(j) \in kept

\* The next turn starts at the first message that was actually kept
\* (agent.go:907).  The code does not have this: the protected messages come
\* first in the result, and what is kept of those before them is not sent.
KeptIsSent ==
  LET result == Ghost!Compact(history)
  IN  Complete /\ result.wasCompacted =>
        \A i \in DOMAIN history :
          Ghost!Whole(i) \in ToSet(result.messages) => i \in Ghost!Sent(history)

\* The comment on the configuration calls MaxIntents the maximum number of
\* intents to create (partition.go:27).  The code does not have this: past the
\* maximum every resource becomes an intent of its own.
IntentsAreBounded ==
  \A intents \in Part!PartitionOf(resources, "file") : Len(intents) <= MaxIntents
=============================================================================

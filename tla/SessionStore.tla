----------------------------- MODULE SessionStore -----------------------------
(***************************************************************************)
(* The row of one session in the database and everyone who writes it       *)
(* (internal/session/session.go).  Save writes the whole row from a copy    *)
(* read earlier, so a writer that reads, waits and saves undoes whatever    *)
(* was written in between; UpdateTitleAndUsage and Rename are single SQL    *)
(* statements.  The writers run on goroutines of their own: the tools of a  *)
(* turn, OnStepFinish, the title generator, Summarize, GhostCompact and the *)
(* sessions dialog of the UI.                                               *)
(*                                                                         *)
(* Abstracted: every writer writes once, and its identity stands for what   *)
(* it writes, the cost it adds as well as the title, todo list or summary   *)
(* it stores.  Token counters are left out.  A tool that fails before it    *)
(* reads never takes a step.  Summarize and GhostCompact may overlap a      *)
(* turn: GhostCompact runs after the session's entry is deleted, Summarize  *)
(* reads the row between its busy check and its registration.               *)
(***************************************************************************)
EXTENDS Naturals, FiniteSets

CONSTANTS SubAgents,    \* agent and agentic_fetch calls of the turn, parallel tools
          TodoCalls,    \* calls of the todos tool
          Steps,        \* steps of the turn that reach OnStepFinish
          Titles,       \* title generations
          Renames,      \* titles set by "crush session rename"
          Dialogs,      \* sessions dialogs in which the user types a title
          Summarizers,  \* calls of Summarize
          Compactors,   \* calls of GhostCompact
          MaxWriters,   \* bound: writers that write at all
          None          \* an empty field

Tools == SubAgents \union TodoCalls
Savers == Tools \union Steps \union Dialogs \union Summarizers \union Compactors
Writers == Savers \union Titles \union Renames
Fields == {"title", "todos", "summary"}

ASSUME NoneIsNoWriter == None \notin Writers
ASSUME KindsAreDisjoint ==
  /\ Steps \intersect (Tools \union Titles \union Renames) = {}
  /\ (Steps \union Tools) \intersect (Dialogs \union Summarizers \union Compactors) = {}
  /\ Summarizers \intersect (Dialogs \union Compactors) = {}
  /\ Savers \intersect (Titles \union Renames) = {}

VARIABLES row,       \* the session's row: who is charged in cost, who wrote each field
          copy,      \* [Savers -> rows]: the copy a saver read
          pc,        \* [Writers -> phases]
          summaries, \* Summarizers whose summary message is in the message table
          truth,     \* history: the row, had every update been applied to the row itself
          lapped,    \* history: writers that wrote since a saver read
          lostTo     \* history: <<victim, culprit>>, a saver wrote over a write it had not seen

vars == <<row, copy, pc, summaries, truth, lapped, lostTo>>
history == <<truth, lapped, lostTo>>

Rows == [cost : SUBSET Writers, val : [Fields -> Writers \union {None}]]
EmptyRow == [cost |-> {}, val |-> [f \in Fields |-> None]]

TypeOK ==
  /\ row \in Rows /\ truth \in Rows
  /\ copy \in [Savers -> Rows]
  /\ pc \in [Writers -> {"idle", "read", "summarizing", "done"}]
  /\ summaries \subseteq Summarizers
  /\ lapped \in [Savers -> SUBSET Writers]
  /\ lostTo \subseteq Writers \X Savers

Init ==
  /\ row = EmptyRow /\ truth = EmptyRow
  /\ copy = [w \in Savers |-> EmptyRow]
  /\ \E never \in SUBSET Writers :
       /\ Cardinality(Writers \ never) <= MaxWriters
       /\ pc = [w \in Writers |-> IF w \in never THEN "done" ELSE "idle"]
  /\ summaries = {}
  /\ lapped = [w \in Savers |-> {}]
  /\ lostTo = {}

-----------------------------------------------------------------------------

\* Who adds to the cost of the copy it read, and who sets which field.
Charging == SubAgents \union Steps \union Summarizers
Sets(w, f) == \/ f = "title" /\ w \in Dialogs
              \/ f = "todos" /\ w \in TodoCalls
              \/ f = "summary" /\ w \in Summarizers \union Compactors

\* What the update of saver w does to a row.
Change(r, w) ==
  [cost |-> r.cost \union ({w} \intersect Charging),
   val |-> [f \in Fields |-> IF Sets(w, f) THEN w ELSE r.val[f]]]

\* The row r with title t, charged for the set payers.
Titled(r, t, payers) ==
  [cost |-> r.cost \union payers, val |-> [r.val EXCEPT !["title"] = t]]

\* w has written: every saver holding a copy is lapped by it.
Lap(w) ==
  lapped' = [u \in Savers |-> IF u # w /\ pc[u] \in {"read", "summarizing"}
                              THEN lapped[u] \union {w} ELSE {}]

\* w is done with the row; its copy goes.
Drop(w) ==
  /\ pc' = [pc EXCEPT ![w] = "done"]
  /\ copy' = [copy EXCEPT ![w] = EmptyRow]

\* sessions.Get: w takes a copy of the row.
Get(w) ==
  /\ pc[w] = "idle"
  /\ pc' = [pc EXCEPT ![w] = "read"]
  /\ copy' = [copy EXCEPT ![w] = row]
  /\ lapped' = [lapped EXCEPT ![w] = {}]
  /\ UNCHANGED <<row, summaries, truth, lostTo>>

\* Mutation of Save: the whole-row update leaves out the title column.
SaveDropsTitle(w) ==
  /\ row' = Titled(Change(copy[w], w), None, {})
  /\ truth' = Change(truth, w)
  /\ lostTo' = lostTo \union (lapped[w] \X {w})
  /\ Lap(w)
  /\ Drop(w)
  /\ UNCHANGED summaries

\* sessions.Save: w writes its changed copy over the whole row.
Save(w) ==
  /\ row' = Change(copy[w], w)
  /\ truth' = Change(truth, w)
  /\ lostTo' = lostTo \union (lapped[w] \X {w})
  /\ Lap(w)
  /\ Drop(w)
  /\ UNCHANGED summaries

\* One SQL statement that sets the title and adds a cost in the row itself.
UpdateInPlace(w, title, payers) ==
  /\ pc[w] = "idle"
  /\ pc' = [pc EXCEPT ![w] = "done"]
  /\ row' = Titled(row, title, payers)
  /\ truth' = Titled(truth, title, payers)
  /\ Lap(w)
  /\ UNCHANGED <<copy, summaries, lostTo>>

-----------------------------------------------------------------------------

\* A tool call of the turn reads: updateParentSessionCost after its child has
\* ended, or the todos tool.  The step of the call has not finished.
ToolReads(w) ==
  /\ w \in Tools
  /\ \A s \in Steps : pc[s] # "read"
  /\ Get(w)

ToolSaves(w) == w \in Tools /\ pc[w] = "read" /\ Save(w)

\* Mutation of StepReads: called while tools of the step are still running.
StepReadsEarly(s) ==
  /\ s \in Steps
  /\ \A u \in Steps : pc[u] # "read"
  /\ Get(s)

\* OnStepFinish: the stream calls it when every tool call of the step has
\* returned, and one step after the other.
StepReads(s) ==
  /\ s \in Steps
  /\ \A w \in Tools \union Steps : pc[w] # "read"
  /\ Get(s)

StepSaves(s) == s \in Steps /\ pc[s] = "read" /\ Save(s)

\* A Save that returns an error, the context cancelled or the database locked.
SaveFails(w) ==
  /\ w \in Savers
  /\ pc[w] = "read"
  /\ Drop(w)
  /\ lapped' = [lapped EXCEPT ![w] = {}]
  /\ UNCHANGED <<row, summaries, truth, lostTo>>

\* Mutation of CreateSummary: the session refers to it before the stream ends.
CreateSummaryRefers(c) ==
  /\ c \in Summarizers
  /\ pc[c] = "read"
  /\ pc' = [pc EXCEPT ![c] = "summarizing"]
  /\ summaries' = summaries \union {c}
  /\ row' = [row EXCEPT !.val["summary"] = c]
  /\ truth' = [truth EXCEPT !.val["summary"] = c]
  /\ UNCHANGED <<copy, lapped, lostTo>>

\* Summarize reads the session first and creates the summary message ...
SummarizeReads(c) == c \in Summarizers /\ Get(c)

CreateSummary(c) ==
  /\ c \in Summarizers
  /\ pc[c] = "read"
  /\ pc' = [pc EXCEPT ![c] = "summarizing"]
  /\ summaries' = summaries \union {c}
  /\ UNCHANGED <<row, copy, history>>

\* ... deletes it when its stream is cancelled ...
SummaryCancelled(c) ==
  /\ c \in Summarizers
  /\ pc[c] = "summarizing"
  /\ Drop(c)
  /\ lapped' = [lapped EXCEPT ![c] = {}]
  /\ summaries' = summaries \ {c}
  /\ UNCHANGED <<row, truth, lostTo>>

\* ... leaves it unused when the stream or a write fails ...
SummaryFails(c) ==
  /\ c \in Summarizers
  /\ pc[c] = "summarizing"
  /\ Drop(c)
  /\ lapped' = [lapped EXCEPT ![c] = {}]
  /\ UNCHANGED <<row, summaries, truth, lostTo>>

\* ... and otherwise saves the session it read before the stream.
SummarySaves(c) == c \in Summarizers /\ pc[c] = "summarizing" /\ Save(c)

\* GhostCompact: marks a message that exists as the start of the history.
CompactReads(c) == c \in Compactors /\ Get(c)

CompactSaves(c) == c \in Compactors /\ pc[c] = "read" /\ Save(c)

\* The dialog lists the sessions when it opens and saves the listed row, with
\* the new title, when the user confirms.
DialogOpens(d) == d \in Dialogs /\ Get(d)

DialogRenames(d) == d \in Dialogs /\ pc[d] = "read" /\ Save(d)

\* generateTitle: UpdateTitleAndUsage sets the title and adds the cost ...
UpdateTitleAndUsage(g) == g \in Titles /\ UpdateInPlace(g, g, {g})

\* ... or, when both models fail, Rename sets the default title.
RenameToDefault(g) == g \in Titles /\ UpdateInPlace(g, g, {})

\* crush session rename.
Rename(r) == r \in Renames /\ UpdateInPlace(r, r, {})

Next ==
  \/ \E w \in Tools : ToolReads(w) \/ ToolSaves(w)
  \/ \E s \in Steps : StepReads(s) \/ StepSaves(s)
  \/ \E w \in Savers : SaveFails(w)
  \/ \E c \in Summarizers : \/ SummarizeReads(c) \/ CreateSummary(c) \/ SummaryCancelled(c)
                            \/ SummaryFails(c) \/ SummarySaves(c)
  \/ \E c \in Compactors : CompactReads(c) \/ CompactSaves(c)
  \/ \E d \in Dialogs : DialogOpens(d) \/ DialogRenames(d)
  \/ \E g \in Titles : UpdateTitleAndUsage(g) \/ RenameToDefault(g)
  \/ \E r \in Renames : Rename(r)

Spec == Init /\ [][Next]_vars

-----------------------------------------------------------------------------
(* Properties.                                                             *)

Lost == {p[1] : p \in lostTo}

\* The row r lacks of t only what the writers in L wrote.
Lags(r, t, L) ==
  /\ r.cost \subseteq t.cost
  /\ t.cost \ r.cost \subseteq L
  /\ \A f \in Fields : r.val[f] # t.val[f] => t.val[f] \in L

\* The row differs from the row that atomic updates would have given only by
\* writes a saver passed over: an update is lost to a Save of an older copy
\* and to nothing else, and no cost is invented.
LossNeedsOverlap == Lags(row, truth, Lost)

\* The cost of a step is never lost to the turn itself: its tools have saved
\* before OnStepFinish reads, and the next step reads after it has saved.
TurnKeepsItsSteps ==
  \A p \in lostTo : p[1] \in Steps => p[2] \notin Tools \union Steps

\* The summary the session refers to is a message that exists, whoever wrote
\* the row and from however old a copy (getSessionMessages looks it up).
SummaryResolves == row.val["summary"] \in summaries \union Compactors \union {None}

\* updateParentSessionCost "accumulates the cost from a child session to its
\* parent session": a child whose parent was saved is in the parent's cost.
ParentCostAccumulates ==
  \A s \in SubAgents : s \in truth.cost => s \in row.cost

=============================================================================

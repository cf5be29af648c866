-------------------------- MODULE SessionStoreProofs --------------------------
(***************************************************************************)
(* What SessionStore promises for any number of writers of every kind: the  *)
(* row falls behind the ideal row only by writes that a Save passed over,   *)
(* a turn never passes over its own steps, and the summary the row refers   *)
(* to exists.                                                              *)
(***************************************************************************)
EXTENDS SessionStore, TLAPS

\* A saver that holds a copy of the row.
Holds(w) == pc[w] \in {"read", "summarizing"}

\* A copy lags by what was lost before and by what has been written since.
CopyLag == \A w \in Savers : Holds(w) => Lags(copy[w], truth, Lost \union lapped[w])

\* A step that has read excludes the tools and the other steps of the turn.
StepAlone ==
  \A s \in Steps : \A w \in Tools \union Steps :
    pc[s] = "read" /\ w # s => pc[w] # "read"

\* No step has written since a tool or a step read.
StepsNotLapped == \A w \in Tools \union Steps : lapped[w] \intersect Steps = {}

\* Only Summarizers are ever in phase "summarizing".
SummarizingIsSummarizer == \A w \in Savers : pc[w] = "summarizing" => w \in Summarizers

\* A summary that can be referred to: its Summarize has ended and kept it.
Kept == {c \in summaries : pc[c] = "done"} \union Compactors \union {None}

\* The row and the copies refer to kept summaries, and a Summarize whose
\* stream runs has its message.
SummaryInv ==
  /\ row.val["summary"] \in Kept
  /\ \A w \in Savers : copy[w].val["summary"] \in Kept
  /\ \A c \in Summarizers : pc[c] = "summarizing" => c \in summaries

-----------------------------------------------------------------------------
(* Rows.                                                                   *)

\* A row that lags by L lags by anything larger.
LEMMA LagsMonotone ==
  ASSUME NEW r, NEW t, NEW L, NEW M, Lags(r, t, L), L \subseteq M
  PROVE  Lags(r, t, M)
BY DEF Lags

\* The same update on both sides keeps the lag.
LEMMA ChangeKeepsLag ==
  ASSUME NEW r \in Rows, NEW t \in Rows, NEW L, NEW w \in Savers, Lags(r, t, L)
  PROVE  Lags(Change(r, w), Change(t, w), L)
BY DEF Lags, Change, Rows

\* An update of the ideal row alone adds its writer to the lag.
LEMMA ChangeAddsLag ==
  ASSUME NEW r \in Rows, NEW t \in Rows, NEW L, NEW w \in Savers, Lags(r, t, L)
  PROVE  Lags(r, Change(t, w), L \union {w})
BY DEF Lags, Change, Rows

\* The same two facts of a title set in place.
LEMMA TitledKeepsLag ==
  ASSUME NEW r \in Rows, NEW t \in Rows, NEW L, NEW w \in Writers,
         NEW p \in SUBSET Writers, Lags(r, t, L)
  PROVE  Lags(Titled(r, w, p), Titled(t, w, p), L)
BY DEF Lags, Titled, Rows, Fields

\* ... and one to the truth alone adds its writer to them.
LEMMA TitledAddsLag ==
  ASSUME NEW r \in Rows, NEW t \in Rows, NEW L, NEW w \in Writers,
         NEW p \in SUBSET {w}, Lags(r, t, L)
  PROVE  Lags(r, Titled(t, w, p), L \union {w})
BY DEF Lags, Titled, Rows, Fields

\* Both updates make rows of rows.
LEMMA UpdatesAreRows ==
  ASSUME NEW r \in Rows
  PROVE  /\ \A w \in Savers : Change(r, w) \in Rows
         /\ \A w \in Writers : \A p \in SUBSET {w} : Titled(r, w, p) \in Rows
<1>1. \A w \in Savers : Change(r, w) \in Rows
  BY DEF Change, Rows, Sets, Charging, Savers, Tools, Writers
<1>2. \A w \in Writers : \A p \in SUBSET {w} : Titled(r, w, p) \in Rows
  BY DEF Titled, Rows
<1> QED BY <1>1, <1>2

\* A new session is a row.
LEMMA EmptyRowIsRow == EmptyRow \in Rows
BY DEF EmptyRow, Rows

-----------------------------------------------------------------------------
(* The steps in terms of what they do to the row.  Every action is one of   *)
(* six shapes, so that the invariants are preserved shape by shape.         *)

Reads(w) ==
  /\ w \in Savers
  /\ Get(w)
  /\ w \in Tools => \A s \in Steps : pc[s] # "read"
  /\ w \in Steps => \A u \in Tools \union Steps : pc[u] # "read"

Saves(w) ==
  /\ w \in Savers
  /\ Save(w)
  /\ pc[w] = IF w \in Summarizers THEN "summarizing" ELSE "read"

SetsTitle(w) ==
  /\ w \in Titles \union Renames
  /\ \E p \in SUBSET {w} : UpdateInPlace(w, w, p)

Shapes ==
  \/ \E w \in Savers : Reads(w) \/ Saves(w) \/ SaveFails(w)
  \/ \E c \in Summarizers : CreateSummary(c) \/ SummaryCancelled(c) \/ SummaryFails(c)
  \/ \E w \in Titles \union Renames : SetsTitle(w)

\* Every action is one of the shapes.
LEMMA NextHasShape == Next => Shapes
<1> SUFFICES ASSUME Next PROVE Shapes OBVIOUS
<1> USE KindsAreDisjoint DEF Savers, Tools
<1>1. ASSUME NEW w \in Tools, ToolReads(w) PROVE Reads(w)
  BY <1>1 DEF ToolReads, Reads
<1>2. ASSUME NEW w \in Tools, ToolSaves(w) PROVE Saves(w)
  BY <1>2 DEF ToolSaves, Saves
<1>3. ASSUME NEW s \in Steps, StepReads(s) PROVE Reads(s)
  BY <1>3 DEF StepReads, Reads
<1>4. ASSUME NEW s \in Steps, StepSaves(s) PROVE Saves(s)
  BY <1>4 DEF StepSaves, Saves
<1>5. ASSUME NEW c \in Summarizers, SummarizeReads(c) PROVE Reads(c)
  BY <1>5 DEF SummarizeReads, Reads
<1>6. ASSUME NEW c \in Summarizers, SummarySaves(c) PROVE Saves(c)
  BY <1>6 DEF SummarySaves, Saves
<1>7. ASSUME NEW c \in Compactors, CompactReads(c) PROVE Reads(c)
  BY <1>7 DEF CompactReads, Reads
<1>8. ASSUME NEW c \in Compactors, CompactSaves(c) PROVE Saves(c)
  BY <1>8 DEF CompactSaves, Saves
<1>9. ASSUME NEW d \in Dialogs, DialogOpens(d) PROVE Reads(d)
  BY <1>9 DEF DialogOpens, Reads
<1>10. ASSUME NEW d \in Dialogs, DialogRenames(d) PROVE Saves(d)
  BY <1>10 DEF DialogRenames, Saves
<1>11. ASSUME NEW g \in Titles, UpdateTitleAndUsage(g) \/ RenameToDefault(g) PROVE SetsTitle(g)
  <2>1. CASE UpdateTitleAndUsage(g)
    <3>1. UpdateInPlace(g, g, {g}) BY <2>1 DEF UpdateTitleAndUsage
    <3>2. {g} \in SUBSET {g} OBVIOUS
    <3> QED BY <3>1, <3>2 DEF SetsTitle
  <2>2. CASE RenameToDefault(g)
    <3>1. UpdateInPlace(g, g, {}) BY <2>2 DEF RenameToDefault
    <3>2. {} \in SUBSET {g} OBVIOUS
    <3> QED BY <3>1, <3>2 DEF SetsTitle
  <2> QED BY <1>11, <2>1, <2>2
<1>12. ASSUME NEW r \in Renames, Rename(r) PROVE SetsTitle(r)
  <2>1. UpdateInPlace(r, r, {}) BY <1>12 DEF Rename
  <2>2. {} \in SUBSET {r} OBVIOUS
  <2> QED BY <2>1, <2>2 DEF SetsTitle
<1> QED
  BY <1>1, <1>2, <1>3, <1>4, <1>5, <1>6, <1>7, <1>8, <1>9, <1>10, <1>11, <1>12
     DEF Next, Shapes

-----------------------------------------------------------------------------
(* Types.                                                                  *)

\* Recording who was lapped keeps the type of the record.
LEMMA LapType ==
  ASSUME TypeOK, NEW w \in Writers, Lap(w)
  PROVE  lapped' \in [Savers -> SUBSET Writers]
BY DEF Lap, TypeOK

\* Every step keeps the types.
LEMMA TypeStep == TypeOK /\ [Next]_vars => TypeOK'
<1> SUFFICES ASSUME TypeOK, [Next]_vars PROVE TypeOK' OBVIOUS
<1> USE EmptyRowIsRow
<1>0. Savers \subseteq Writers /\ Titles \union Renames \subseteq Writers /\ Summarizers \subseteq Savers
  BY DEF Writers, Savers
<1>1. ASSUME NEW w \in Savers, Reads(w) PROVE TypeOK'
  BY <1>0, <1>1 DEF Reads, Get, TypeOK
<1>2. ASSUME NEW w \in Savers, Saves(w) PROVE TypeOK'
  <2>1. row' \in Rows /\ truth' \in Rows
    BY <1>2, UpdatesAreRows DEF Saves, Save, TypeOK
  <2>2. lapped' \in [Savers -> SUBSET Writers]
    BY <1>0, <1>2, LapType DEF Saves, Save
  <2>3. lostTo' \subseteq Writers \X Savers
    BY <1>2 DEF Saves, Save, TypeOK
  <2>4. /\ pc' \in [Writers -> {"idle", "read", "summarizing", "done"}]
        /\ copy' \in [Savers -> Rows]
        /\ summaries' \subseteq Summarizers
    BY <1>0, <1>2 DEF Saves, Save, Drop, TypeOK
  <2> QED BY <2>1, <2>2, <2>3, <2>4 DEF TypeOK
<1>3. ASSUME NEW w \in Savers, SaveFails(w) PROVE TypeOK'
  BY <1>0, <1>3 DEF SaveFails, Drop, TypeOK
<1>4. ASSUME NEW c \in Summarizers, CreateSummary(c) PROVE TypeOK'
  BY <1>0, <1>4 DEF CreateSummary, history, TypeOK
<1>5. ASSUME NEW c \in Summarizers, SummaryCancelled(c) PROVE TypeOK'
  BY <1>0, <1>5 DEF SummaryCancelled, Drop, TypeOK
<1>6. ASSUME NEW c \in Summarizers, SummaryFails(c) PROVE TypeOK'
  BY <1>0, <1>6 DEF SummaryFails, Drop, TypeOK
<1>7. ASSUME NEW w \in Titles \union Renames, SetsTitle(w) PROVE TypeOK'
  <2>1. PICK p \in SUBSET {w} : UpdateInPlace(w, w, p) BY <1>7 DEF SetsTitle
  <2>2. row' \in Rows /\ truth' \in Rows
    BY <1>0, <2>1, UpdatesAreRows DEF UpdateInPlace, TypeOK
  <2>3. lapped' \in [Savers -> SUBSET Writers]
    BY <1>0, <2>1, LapType DEF UpdateInPlace
  <2>4. /\ pc' \in [Writers -> {"idle", "read", "summarizing", "done"}]
        /\ copy' \in [Savers -> Rows]
        /\ summaries' \subseteq Summarizers
        /\ lostTo' \subseteq Writers \X Savers
    BY <1>0, <2>1 DEF UpdateInPlace, TypeOK
  <2> QED BY <2>2, <2>3, <2>4 DEF TypeOK
<1>8. CASE UNCHANGED vars BY <1>8 DEF vars, TypeOK
<1>9. CASE Next
  <2>1. Shapes BY <1>9, NextHasShape
  <2> QED BY <2>1, <1>1, <1>2, <1>3, <1>4, <1>5, <1>6, <1>7 DEF Shapes
<1> QED BY <1>8, <1>9

\* The variables keep their types.
THEOREM TypeCorrect == Spec => []TypeOK
<1>1. Init => TypeOK
  BY EmptyRowIsRow DEF Init, TypeOK
<1> QED BY <1>1, TypeStep, PTL DEF Spec

-----------------------------------------------------------------------------
(* Lost updates.                                                           *)

LagInv == LossNeedsOverlap /\ CopyLag

\* Who is lost after a Save.
LEMMA LostBySave ==
  ASSUME NEW w \in Savers, Save(w)
  PROVE  Lost' = Lost \union lapped[w]
<1>1. lostTo' = lostTo \union (lapped[w] \X {w}) BY DEF Save
<1>2. ASSUME NEW v \in lapped[w] PROVE v \in Lost'
  <2>1. <<v, w>> \in lostTo' BY <1>1
  <2>2. <<v, w>>[1] = v OBVIOUS
  <2> QED BY <2>1, <2>2 DEF Lost
<1>3. Lost \subseteq Lost' BY <1>1 DEF Lost
<1>4. ASSUME NEW p \in lostTo' PROVE p[1] \in Lost \union lapped[w]
  <2>1. CASE p \in lostTo BY <2>1 DEF Lost
  <2>2. CASE p \in lapped[w] \X {w} BY <2>2
  <2> QED BY <1>1, <1>4, <2>1, <2>2
<1>5. Lost' \subseteq Lost \union lapped[w] BY <1>4 DEF Lost
<1> QED BY <1>2, <1>3, <1>5

\* Every step keeps the lags of the row and of the copies accounted for.
LEMMA LagStep == TypeOK /\ LagInv /\ [Next]_vars => LagInv'
<1> SUFFICES ASSUME TypeOK, LagInv, [Next]_vars PROVE LagInv' OBVIOUS
<1>0. Savers \subseteq Writers /\ Titles \union Renames \subseteq Writers /\ Summarizers \subseteq Savers
  BY DEF Writers, Savers
<1>1. ASSUME NEW w \in Savers, Reads(w) PROVE LagInv'
  <2>1. Lost' = Lost /\ truth' = truth /\ row' = row
    BY <1>1 DEF Reads, Get, Lost
  <2>2. LossNeedsOverlap' BY <2>1 DEF LagInv, LossNeedsOverlap, Lags
  <2>3. ASSUME NEW u \in Savers, Holds(u)'
        PROVE  Lags(copy'[u], truth, Lost \union lapped'[u])
    <3>1. CASE u = w
      <4>1. copy'[u] = row BY <1>1, <3>1 DEF Reads, Get, TypeOK
      <4>2. Lags(row, truth, Lost) BY DEF LagInv, LossNeedsOverlap
      <4> QED BY <4>1, <4>2, LagsMonotone
    <3>2. CASE u # w
      <4>1. copy'[u] = copy[u] /\ lapped'[u] = lapped[u] /\ Holds(u)
        BY <1>0, <1>1, <2>3, <3>2 DEF Reads, Get, Holds, TypeOK
      <4> QED BY <4>1 DEF LagInv, CopyLag
    <3> QED BY <3>1, <3>2
  <2>4. CopyLag' BY <2>1, <2>3 DEF CopyLag
  <2> QED BY <2>2, <2>4 DEF LagInv
<1>2. ASSUME NEW w \in Savers, Saves(w) PROVE LagInv'
  <2>1. Lost' = Lost \union lapped[w] BY <1>2, LostBySave DEF Saves
  <2>2. truth' = Change(truth, w) /\ row' = Change(copy[w], w)
    BY <1>2 DEF Saves, Save
  <2>3. Lags(copy[w], truth, Lost \union lapped[w])
    BY <1>2 DEF Saves, Holds, LagInv, CopyLag
  <2>4. truth \in Rows /\ \A u \in Savers : copy[u] \in Rows BY DEF TypeOK
  <2>5. LossNeedsOverlap'
    BY <2>1, <2>2, <2>3, <2>4, ChangeKeepsLag DEF LossNeedsOverlap
  <2>6. ASSUME NEW u \in Savers, Holds(u)'
        PROVE  Lags(copy'[u], truth', Lost' \union lapped'[u])
    <3>1. u # w /\ Holds(u) /\ copy'[u] = copy[u] /\ lapped'[u] = lapped[u] \union {w}
      BY <1>0, <1>2, <2>6 DEF Saves, Save, Drop, Lap, Holds, TypeOK
    <3>2. Lags(copy[u], truth, Lost \union lapped[u]) BY <3>1 DEF LagInv, CopyLag
    <3>3. Lags(copy[u], truth', (Lost \union lapped[u]) \union {w})
      BY <2>2, <2>4, <3>2, ChangeAddsLag
    <3>4. (Lost \union lapped[u]) \union {w} \subseteq Lost' \union lapped'[u]
      BY <2>1, <3>1
    <3> QED BY <3>1, <3>3, <3>4, LagsMonotone
  <2>7. CopyLag' BY <2>6 DEF CopyLag
  <2> QED BY <2>5, <2>7 DEF LagInv
<1>3. ASSUME NEW w \in Savers, w \in Savers,
             /\ pc' = [pc EXCEPT ![w] = "done"]
             /\ copy' = [copy EXCEPT ![w] = EmptyRow]
             /\ lapped' = [lapped EXCEPT ![w] = {}]
             /\ UNCHANGED <<row, truth, lostTo>>
      PROVE  LagInv'
  <2>1. Lost' = Lost /\ truth' = truth /\ row' = row BY <1>3 DEF Lost
  <2>2. LossNeedsOverlap' BY <2>1 DEF LagInv, LossNeedsOverlap, Lags
  <2>3. ASSUME NEW u \in Savers, Holds(u)'
        PROVE  Lags(copy'[u], truth, Lost \union lapped'[u])
    <3>1. copy'[u] = copy[u] /\ lapped'[u] = lapped[u] /\ Holds(u)
      BY <1>0, <1>3, <2>3 DEF Holds, TypeOK
    <3> QED BY <3>1 DEF LagInv, CopyLag
  <2>4. CopyLag' BY <2>1, <2>3 DEF CopyLag
  <2> QED BY <2>2, <2>4 DEF LagInv
<1>4. ASSUME NEW c \in Summarizers, CreateSummary(c) PROVE LagInv'
  <2>1. Lost' = Lost /\ truth' = truth /\ row' = row /\ copy' = copy /\ lapped' = lapped
    BY <1>4 DEF CreateSummary, history, Lost
  <2>2. LossNeedsOverlap' BY <2>1 DEF LagInv, LossNeedsOverlap, Lags
  <2>3. \A u \in Savers : Holds(u)' => Holds(u)
    BY <1>0, <1>4 DEF CreateSummary, Holds, TypeOK
  <2>4. CopyLag' BY <2>1, <2>3 DEF LagInv, CopyLag
  <2> QED BY <2>2, <2>4 DEF LagInv
<1>5. ASSUME NEW w \in Titles \union Renames, SetsTitle(w) PROVE LagInv'
  <2>1. PICK p \in SUBSET {w} : UpdateInPlace(w, w, p) BY <1>5 DEF SetsTitle
  <2>2. /\ Lost' = Lost
        /\ truth' = Titled(truth, w, p) /\ row' = Titled(row, w, p)
        /\ copy' = copy
    BY <2>1 DEF UpdateInPlace, Lost
  <2>3. row \in Rows /\ truth \in Rows /\ \A u \in Savers : copy[u] \in Rows BY DEF TypeOK
  <2>4. w \in Writers /\ p \in SUBSET Writers BY <1>0
  <2>5. LossNeedsOverlap'
    BY <2>2, <2>3, <2>4, TitledKeepsLag DEF LagInv, LossNeedsOverlap
  <2>6. ASSUME NEW u \in Savers, Holds(u)'
        PROVE  Lags(copy'[u], truth', Lost \union lapped'[u])
    <3>1. Holds(u) /\ lapped'[u] = lapped[u] \union {w}
      BY <1>0, <2>1, <2>6, KindsAreDisjoint DEF UpdateInPlace, Lap, Holds, TypeOK
    <3>2. Lags(copy[u], truth, Lost \union lapped[u]) BY <3>1 DEF LagInv, CopyLag
    <3>3. Lags(copy[u], truth', (Lost \union lapped[u]) \union {w})
      BY <2>2, <2>3, <2>4, <3>2, TitledAddsLag
    <3> QED BY <2>2, <3>1, <3>3, LagsMonotone
  <2>7. CopyLag' BY <2>2, <2>6 DEF CopyLag
  <2> QED BY <2>5, <2>7 DEF LagInv
<1>6. CASE UNCHANGED vars
  BY <1>6 DEF vars, LagInv, LossNeedsOverlap, CopyLag, Holds, Lost, Lags
<1>7. CASE Next
  <2>1. Shapes BY <1>7, NextHasShape
  <2>2. ASSUME NEW w \in Savers, SaveFails(w) PROVE LagInv'
    BY <1>3, <2>2 DEF SaveFails, Drop
  <2>3. ASSUME NEW c \in Summarizers, SummaryCancelled(c) \/ SummaryFails(c) PROVE LagInv'
    BY <1>0, <1>3, <2>3 DEF SummaryCancelled, SummaryFails, Drop
  <2> QED BY <2>1, <1>1, <1>2, <1>4, <1>5, <2>2, <2>3 DEF Shapes
<1> QED BY <1>6, <1>7

\* An update is lost only to a Save of a copy that is older than it.
THEOREM LossesHaveACulprit == Spec => []LossNeedsOverlap
<1>1. Init => LagInv
  BY DEF Init, LagInv, LossNeedsOverlap, CopyLag, Holds, Lags, EmptyRow, Savers, Writers
<1>2. LagInv => LossNeedsOverlap BY DEF LagInv
<1> QED BY <1>1, <1>2, LagStep, TypeCorrect, PTL DEF Spec

-----------------------------------------------------------------------------
(* The turn and its steps.                                                 *)

TurnInv == StepAlone /\ StepsNotLapped /\ SummarizingIsSummarizer /\ TurnKeepsItsSteps

\* Every step keeps a finished step of the turn out of what tools pass over.
LEMMA TurnStep == TypeOK /\ TurnInv /\ [Next]_vars => TurnInv'
<1> SUFFICES ASSUME TypeOK, TurnInv, [Next]_vars PROVE TurnInv' OBVIOUS
<1>0. /\ Savers \subseteq Writers /\ Titles \union Renames \subseteq Writers
      /\ Summarizers \subseteq Savers /\ Steps \subseteq Savers /\ Tools \subseteq Savers
  BY DEF Writers, Savers, Tools
<1> USE DEF TurnInv, StepAlone, StepsNotLapped, SummarizingIsSummarizer, TurnKeepsItsSteps
<1>1. ASSUME NEW w \in Savers, Reads(w) PROVE TurnInv'
  <2>1. StepAlone' BY <1>0, <1>1, KindsAreDisjoint DEF Reads, Get, TypeOK
  <2>2. StepsNotLapped' BY <1>0, <1>1 DEF Reads, Get, TypeOK
  <2>3. SummarizingIsSummarizer' /\ TurnKeepsItsSteps' BY <1>0, <1>1 DEF Reads, Get, TypeOK
  <2> QED BY <2>1, <2>2, <2>3
<1>2. ASSUME NEW w \in Savers, Saves(w) PROVE TurnInv'
  <2>1. /\ \A u \in Writers : pc'[u] = IF u = w THEN "done" ELSE pc[u]
        /\ lostTo' = lostTo \union (lapped[w] \X {w})
    BY <1>0, <1>2 DEF Saves, Save, Drop, TypeOK
  <2>2. StepAlone' /\ SummarizingIsSummarizer' BY <1>0, <2>1
  <2>3. ASSUME NEW u \in Tools \union Steps PROVE lapped'[u] \intersect Steps = {}
    <3>1. u \in Savers BY <1>0
    <3>2. CASE u # w /\ pc[u] \in {"read", "summarizing"}
      <4>1. lapped'[u] = lapped[u] \union {w} BY <1>2, <3>1, <3>2 DEF Saves, Save, Lap
      <4>2. pc[u] = "read" BY <3>1, <3>2, KindsAreDisjoint
      <4>3. w \notin Steps BY <1>2, <3>2, <4>2, KindsAreDisjoint DEF Saves
      <4> QED BY <4>1, <4>3
    <3>3. CASE ~(u # w /\ pc[u] \in {"read", "summarizing"})
      BY <1>2, <3>1, <3>3 DEF Saves, Save, Lap
    <3> QED BY <3>2, <3>3
  <2>4. TurnKeepsItsSteps' BY <2>1
  <2> QED BY <2>2, <2>3, <2>4
<1>3. ASSUME NEW w \in Savers,
             /\ pc' = [pc EXCEPT ![w] = "done"]
             /\ lapped' = [lapped EXCEPT ![w] = {}]
             /\ UNCHANGED lostTo
      PROVE  TurnInv'
  BY <1>0, <1>3 DEF TypeOK
<1>4. ASSUME NEW c \in Summarizers, CreateSummary(c) PROVE TurnInv'
  BY <1>0, <1>4 DEF CreateSummary, history, TypeOK
<1>5. ASSUME NEW w \in Titles \union Renames, SetsTitle(w) PROVE TurnInv'
  <2>1. PICK p \in SUBSET {w} : UpdateInPlace(w, w, p) BY <1>5 DEF SetsTitle
  <2>2. \A u \in Writers : pc'[u] = IF u = w THEN "done" ELSE pc[u]
    BY <1>0, <2>1 DEF UpdateInPlace, TypeOK
  <2>3. StepAlone' /\ SummarizingIsSummarizer' BY <1>0, <2>2
  <2>4. StepsNotLapped'
    BY <1>0, <2>1, KindsAreDisjoint DEF UpdateInPlace, Lap
  <2>5. TurnKeepsItsSteps' BY <2>1 DEF UpdateInPlace
  <2> QED BY <2>3, <2>4, <2>5
<1>6. CASE UNCHANGED vars BY <1>6 DEF vars
<1>7. CASE Next
  <2>1. Shapes BY <1>7, NextHasShape
  <2>2. ASSUME NEW w \in Savers, SaveFails(w) PROVE TurnInv'
    BY <1>3, <2>2 DEF SaveFails, Drop
  <2>3. ASSUME NEW c \in Summarizers, SummaryCancelled(c) \/ SummaryFails(c) PROVE TurnInv'
    BY <1>0, <1>3, <2>3 DEF SummaryCancelled, SummaryFails, Drop
  <2> QED BY <2>1, <1>1, <1>2, <1>4, <1>5, <2>2, <2>3 DEF Shapes
<1> QED BY <1>6, <1>7

\* No tool and no step of a turn saves over a step of the turn.
THEOREM StepsSurviveTheirTurn == Spec => []TurnKeepsItsSteps
<1>1. Init => TurnInv
  BY DEF Init, TurnInv, StepAlone, StepsNotLapped, SummarizingIsSummarizer,
         TurnKeepsItsSteps, Savers, Writers, Tools
<1>2. TurnInv => TurnKeepsItsSteps BY DEF TurnInv
<1> QED BY <1>1, <1>2, TurnStep, TypeCorrect, PTL DEF Spec

-----------------------------------------------------------------------------
(* The summary.                                                            *)

\* Every step keeps the references to summaries resolved.
LEMMA SummaryStep == TypeOK /\ SummaryInv /\ [Next]_vars => SummaryInv'
<1> SUFFICES ASSUME TypeOK, SummaryInv, [Next]_vars PROVE SummaryInv' OBVIOUS
<1>0. /\ Savers \subseteq Writers /\ Titles \union Renames \subseteq Writers
      /\ Summarizers \subseteq Savers
  BY DEF Writers, Savers
<1> USE DEF SummaryInv, Kept
<1>1. ASSUME NEW w \in Savers, Reads(w) PROVE SummaryInv'
  BY <1>0, <1>1 DEF Reads, Get, TypeOK
<1>2. ASSUME NEW w \in Savers, Saves(w) PROVE SummaryInv'
  <2>1. /\ \A u \in Writers : pc'[u] = IF u = w THEN "done" ELSE pc[u]
        /\ \A u \in Savers : copy'[u] = IF u = w THEN EmptyRow ELSE copy[u]
        /\ row' = Change(copy[w], w)
        /\ summaries' = summaries
    BY <1>0, <1>2 DEF Saves, Save, Drop, TypeOK
  <2>2. Kept \subseteq Kept' BY <1>0, <2>1 DEF TypeOK
  <2>3. row'.val["summary"] = IF w \in Summarizers \union Compactors THEN w
                              ELSE copy[w].val["summary"]
    BY <2>1 DEF Change, Sets, Fields
  <2>4. w \in Summarizers => w \in Kept'
    BY <1>0, <1>2, <2>1 DEF Saves
  <2>5. row'.val["summary"] \in Kept' BY <2>2, <2>3, <2>4
  <2>6. EmptyRow.val["summary"] = None BY DEF EmptyRow, Fields
  <2>7. \A u \in Savers : copy'[u].val["summary"] \in Kept' BY <2>1, <2>2, <2>6
  <2>8. \A c \in Summarizers : pc'[c] = "summarizing" => c \in summaries' BY <1>0, <2>1
  <2> QED BY <2>5, <2>7, <2>8
<1>3. ASSUME NEW w \in Savers,
             /\ pc' = [pc EXCEPT ![w] = "done"]
             /\ copy' = [copy EXCEPT ![w] = EmptyRow]
             /\ row' = row
             /\ summaries' = summaries \/ (summaries' = summaries \ {w} /\ pc[w] = "summarizing")
      PROVE  SummaryInv'
  <2>1. /\ \A u \in Writers : pc'[u] = IF u = w THEN "done" ELSE pc[u]
        /\ \A u \in Savers : copy'[u] = IF u = w THEN EmptyRow ELSE copy[u]
    BY <1>0, <1>3 DEF TypeOK
  <2>2. Kept \subseteq Kept' BY <1>0, <1>3, <2>1 DEF TypeOK
  <2>3. EmptyRow.val["summary"] = None BY DEF EmptyRow, Fields
  <2>4. row'.val["summary"] \in Kept' BY <1>3, <2>2
  <2>5. \A u \in Savers : copy'[u].val["summary"] \in Kept' BY <2>1, <2>2, <2>3
  <2>6. \A c \in Summarizers : pc'[c] = "summarizing" => c \in summaries' BY <1>0, <1>3, <2>1
  <2> QED BY <2>4, <2>5, <2>6
<1>4. ASSUME NEW c \in Summarizers, CreateSummary(c) PROVE SummaryInv'
  BY <1>0, <1>4 DEF CreateSummary, TypeOK
<1>5. ASSUME NEW w \in Titles \union Renames, SetsTitle(w) PROVE SummaryInv'
  <2>1. PICK p \in SUBSET {w} : UpdateInPlace(w, w, p) BY <1>5 DEF SetsTitle
  <2>2. /\ \A u \in Writers : pc'[u] = IF u = w THEN "done" ELSE pc[u]
        /\ row' = Titled(row, w, p) /\ copy' = copy /\ summaries' = summaries
    BY <1>0, <2>1 DEF UpdateInPlace, TypeOK
  <2>3. row'.val["summary"] = row.val["summary"]
    BY <2>2 DEF Titled, TypeOK, Rows, Fields
  <2> QED BY <1>0, <2>2, <2>3 DEF TypeOK
<1>6. CASE UNCHANGED vars BY <1>6 DEF vars
<1>7. CASE Next
  <2>1. Shapes BY <1>7, NextHasShape
  <2>2. ASSUME NEW w \in Savers, SaveFails(w) PROVE SummaryInv'
    BY <1>3, <2>2 DEF SaveFails, Drop
  <2>3. ASSUME NEW c \in Summarizers, SummaryCancelled(c) \/ SummaryFails(c) PROVE SummaryInv'
    BY <1>0, <1>3, <2>3 DEF SummaryCancelled, SummaryFails, Drop
  <2> QED BY <2>1, <1>1, <1>2, <1>4, <1>5, <2>2, <2>3 DEF Shapes
<1> QED BY <1>6, <1>7

\* The session never refers to a summary that was deleted.
THEOREM SummariesResolve == Spec => []SummaryResolves
<1>1. Init => SummaryInv
  BY DEF Init, SummaryInv, Kept, EmptyRow, Fields, Savers, Writers
<1>2. SummaryInv => SummaryResolves BY DEF SummaryInv, SummaryResolves, Kept
<1> QED BY <1>1, <1>2, SummaryStep, TypeCorrect, PTL DEF Spec
=============================================================================

------------------------------ MODULE ChatList ------------------------------
(***************************************************************************)
(* The scrolled list of the chat (ui/list/list.go) with the chat's follow  *)
(* mode and selection (ui/model/chat.go), driven by the handlers of the    *)
(* user interface: keys, wheel, loaded, appended, updated and deleted      *)
(* messages, and new window sizes.                                         *)
(*                                                                         *)
(* An item is told apart by the number of lines it renders to and by       *)
(* whether it can be selected.  The viewport starts at line `line' of item *)
(* `idx', counted from zero as in the code; a gap of Gap lines follows     *)
(* every item and belongs to the offset of the item above it.  The list is *)
(* one record l, and a method of the code is an operator from lists to     *)
(* lists, so that a handler is the composition of the calls it makes.      *)
(***************************************************************************)
EXTENDS Integers, Sequences, FiniteSetsExt

CONSTANTS
  MaxItems,   \* bound: items in the list
  MaxLines,   \* bound: lines of an item
  MaxHeight,  \* bound: lines of the viewport
  Wheel,      \* MouseScrollThreshold: lines of one turn of the wheel
  Gap         \* lines between two items; the chat sets 1

ListAssumption ==
  /\ {MaxItems, MaxLines, MaxHeight, Wheel} \subseteq Nat \ {0}
  /\ Gap \in Nat

VARIABLE l

Item == [lines: 1..MaxLines, focusable: BOOLEAN]

TypeOK ==
  /\ l.items \in UNION {[1..n -> Item] : n \in 0..MaxItems}
  /\ l.height \in 1..MaxHeight
  /\ l.selected \in -1..(Len(l.items) - 1)
  /\ l.idx \in -1..MaxItems
  /\ l.line \in Int
  /\ l.follow \in BOOLEAN

Init == \E h \in 1..MaxHeight :
  l = [items |-> <<>>, height |-> h, selected |-> -1, idx |-> 0, line |-> 0,
       follow |-> FALSE]

-----------------------------------------------------------------------------
(* list.go *)

Last(v) == Len(v.items) - 1

Max2(a, b) == IF a > b THEN a ELSE b

Min2(a, b) == IF a < b THEN a ELSE b

\* The height of an item; an index outside of the list renders to nothing.
GetItem(v, i) == IF i \in 0..Last(v) THEN v.items[i + 1].lines ELSE 0

\* The lines of the items a to b and of the gaps between them.
Total(v, a, b) ==
  LET lines[i \in Int] == IF i < a THEN 0 ELSE GetItem(v, i) + lines[i - 1]
  IN  IF a > b THEN 0 ELSE lines[b] + Gap * (b - a)

Offset(v, i, n) == [v EXCEPT !.idx = i, !.line = n]

\* The loop gives up as soon as the items before the last one fill the
\* viewport, without the lines of the first that are scrolled out of it.
AtBottom(v) ==
  \/ v.items = <<>>
  \/ /\ \A i \in v.idx..(Last(v) - 1) : Total(v, v.idx, i) <= v.height
     /\ Total(v, v.idx, Last(v)) - v.line <= v.height

\* The offset that shows the last line in the last row.
LastOffsetItem(v) ==
  LET over == {i \in 0..Last(v) : Total(v, i, Last(v)) > v.height}
  IN  IF over = {} THEN <<0, 0>>
      ELSE <<Max(over), Total(v, Max(over), Last(v)) - v.height>>

ListToBottom(v) ==
  IF v.items = <<>> THEN v
  ELSE Offset(v, LastOffsetItem(v)[1], LastOffsetItem(v)[2])

\* Walk down from line n of item i; past the last item the list jumps to its end.
WalkDown(v, from, lines) ==
  LET walk[p \in (-1..Len(v.items)) \X Nat] ==
        IF p[1] > Last(v) THEN LastOffsetItem(v)
        ELSE IF p[2] < GetItem(v, p[1]) THEN p
        ELSE walk[<<p[1] + 1, Max2(0, p[2] - GetItem(v, p[1]) - Gap)>>]
  IN  walk[<<from, lines>>]

\* Mutant: a walk that passes the last offset is not clamped.
ClampNot(v, p) == p

Clamp(v, p) ==
  LET e == LastOffsetItem(v)
  IN  IF p[1] > e[1] \/ (p[1] = e[1] /\ p[2] > e[2]) THEN e ELSE p

\* A walk that starts below the first row may start in or past a gap.
WalkUp(v, from, lines) ==
  LET walk[p \in (-1..Len(v.items)) \X Int] ==
        IF p[2] >= 0 THEN p
        ELSE IF p[1] < 1 THEN <<0, 0>>
        ELSE walk[<<p[1] - 1, p[2] + GetItem(v, p[1] - 1) + Gap>>]
  IN  walk[<<from, lines>>]

ListScrollBy(v, n) ==
  IF v.items = <<>> \/ n = 0 \/ (n > 0 /\ AtBottom(v)) THEN v
  ELSE LET p == IF n > 0 THEN Clamp(v, WalkDown(v, v.idx, v.line + n))
                ELSE WalkUp(v, v.idx, v.line + n)
       IN  Offset(v, p[1], p[2])

StartIdx(v) == IF v.items = <<>> THEN 0 ELSE v.idx

EndIdx(v) ==
  LET full == {i \in v.idx..Last(v) : Total(v, v.idx, i) + Gap - v.line >= v.height}
  IN  IF v.items = <<>> THEN 0 ELSE IF full = {} THEN Last(v) ELSE Min(full)

SelectedItemInView(v) ==
  v.selected \in 0..Last(v) /\ v.selected \in StartIdx(v)..EndIdx(v)

\* A selected item below the viewport is moved to its last row.
ListToSelected(v) ==
  LET fill == {i \in 0..v.selected : Total(v, i, v.selected) >= v.height}
  IN  IF v.selected \notin 0..Last(v) \/ v.selected \in StartIdx(v)..EndIdx(v) THEN v
      ELSE IF v.selected < StartIdx(v) THEN Offset(v, v.selected, 0)
      ELSE IF fill = {} THEN Offset(v, 0, 0)
      ELSE Offset(v, Max(fill), Total(v, Max(fill), v.selected) - v.height)

SetItems(v, s) ==
  [v EXCEPT !.items = s, !.line = 0,
            !.selected = Min2(@, Len(s) - 1), !.idx = Min2(@, Len(s) - 1)]

AppendItems(v, s) == [v EXCEPT !.items = @ \o s]

RemoveItem(v, i) ==
  LET n == Last(v)
      s == SubSeq(v.items, 1, i) \o SubSeq(v.items, i + 2, n + 1)
  IN  [v EXCEPT !.items = s,
        !.selected = IF @ = i THEN -1 ELSE IF @ > i THEN @ - 1 ELSE @,
        !.idx = IF @ > i THEN @ - 1 ELSE IF @ = i /\ @ >= n THEN Max2(0, n - 1) ELSE @,
        !.line = IF v.idx = i /\ v.idx >= n THEN 0 ELSE @]

-----------------------------------------------------------------------------
(* chat.go: scrolling sets the follow mode, selecting skips the items that *)
(* cannot be selected and ends on the last one tried.                      *)

Followed(v, b) == [v EXCEPT !.follow = b]

ScrollToBottom(v) == Followed(ListToBottom(v), TRUE)

ScrollToTop(v) == Followed(Offset(v, 0, 0), FALSE)

ScrollBy(v, n) == LET w == ListScrollBy(v, n) IN Followed(w, n > 0 /\ AtBottom(w))

ScrollToSelected(v) == LET w == ListToSelected(v) IN Followed(w, AtBottom(w))

ScrollToIndex(v, i) == LET w == Offset(v, i, 0) IN Followed(w, AtBottom(w))

\* Mutant: follow is forgotten.
AnchoredNot(v) == v

Anchored(v) == IF v.follow THEN ScrollToBottom(v) ELSE v

Selectable(v) == {i \in 0..Last(v) : v.items[i + 1].focusable}

Select(v, i) == [v EXCEPT !.selected = i]

SelectPrev(v) ==
  LET above == {i \in Selectable(v) : i < v.selected}
  IN  IF above # {} THEN Select(v, Max(above)) ELSE Select(v, Min2(v.selected, 0))

SelectNext(v) ==
  LET below == {i \in Selectable(v) : i > v.selected}
  IN  IF below # {} THEN Select(v, Min(below)) ELSE Select(v, Last(v))

SelectFirst(v) ==
  IF v.items = <<>> THEN v
  ELSE IF Selectable(v) = {} THEN Select(v, Last(v)) ELSE Select(v, Min(Selectable(v)))

SelectLast(v) ==
  IF v.items = <<>> THEN v
  ELSE IF Selectable(v) = {} THEN Select(v, 0) ELSE Select(v, Max(Selectable(v)))

\* Forward from i, and from the end backwards when nothing is left.
SetSelected(v, i) ==
  LET below == {j \in Selectable(v) : j >= i}
  IN  IF i \notin 0..Last(v) THEN Select(v, -1)
      ELSE IF below # {} THEN Select(v, Min(below)) ELSE SelectLast(v)

InView(v) == Selectable(v) \cap StartIdx(v)..EndIdx(v)

SelectFirstInView(v) == IF InView(v) = {} THEN v ELSE Select(v, Min(InView(v)))

SelectLastInView(v) == IF InView(v) = {} THEN v ELSE Select(v, Max(InView(v)))

\* The list anchors with the size it has just been given.
SetSize(v, h) ==
  LET w == [v EXCEPT !.height = h]
  IN  IF AtBottom(w) THEN ScrollToBottom(w) ELSE w

-----------------------------------------------------------------------------
(* The handlers of ui.go. *)

KeepInView(v, Move(_)) == IF SelectedItemInView(v) THEN v ELSE ScrollToSelected(Move(v))

KeyUp == l' = KeepInView(ScrollBy(l, -1), SelectPrev)

KeyDown == l' = KeepInView(ScrollBy(l, 1), SelectNext)

WheelUp == l' = KeepInView(ScrollBy(l, -Wheel), SelectPrev)

WheelDown ==
  l' = KeepInView(ScrollBy(l, Wheel), LAMBDA v : IF AtBottom(v) THEN SelectLast(v) ELSE SelectNext(v))

UpOneItem == l' = ScrollToSelected(SelectPrev(l))

DownOneItem == l' = ScrollToSelected(SelectNext(l))

\* Page and half page.
PageUp == \E n \in {l.height \div 2, l.height} : l' = SelectFirstInView(ScrollBy(l, -n))

PageDown == \E n \in {l.height \div 2, l.height} : l' = SelectLastInView(ScrollBy(l, n))

Home == l' = SelectFirst(ScrollToTop(l))

End == l' = SelectLast(ScrollToBottom(l))

FocusChat == l' = SetSelected(l, Last(l))

Click(i) ==
  /\ i \in InView(l)
  /\ l' = Select(l, i)

\* Rendered anew, an item has other lines: it was expanded, collapsed or
\* updated, or the width of the window has changed.
Redraw(v, i, n) == [v EXCEPT !.items[i + 1].lines = n]

Expand(n, expanded) ==
  /\ l.selected \in Selectable(l)
  /\ LET v == Redraw(l, l.selected, n)
         w == IF expanded THEN v ELSE ScrollToIndex(v, v.selected)
     IN  l' = IF AtBottom(w) THEN ScrollToBottom(w) ELSE w

LoadSession(s) == l' = SelectLast(ScrollToBottom(SetItems(l, s)))

\* newSession
ClearMessages == l' = SetItems(l, <<>>)

Room(s) == Len(l.items) + Len(s) <= MaxItems

AppendUser(i) ==
  /\ Room(<<i>>)
  /\ l' = ScrollToBottom(AppendItems(l, <<i>>))

AppendAssistant(s) ==
  /\ Room(s)
  /\ l' = Anchored(AppendItems(l, s))

\* A message with new text, or one that has become only tool calls.
AfterUpdate(v) == IF v.follow THEN SelectLast(ScrollToBottom(v)) ELSE v

UpdateMessage(i, n) == i <= Last(l) /\ l' = AfterUpdate(Redraw(l, i, n))

UpdateToCalls(i, s) ==
  /\ i <= Last(l)
  /\ l' = AfterUpdate(AppendItems(RemoveItem(l, i), s))

\* A tool's message is a result for the item of its call.
ToolResult(i, n) == i <= Last(l) /\ l' = Anchored(Redraw(l, i, n))

\* The event of a deleted message, and nothing after it.
DeleteMessage(i) == i <= Last(l) /\ l' = RemoveItem(l, i)

\* Draw finds that the layout has changed, or a pill or the editor has grown.
Layout(h) == l' = SetSize(l, h)

\* A new width renders every item anew.
WindowSize(h, lines) ==
  l' = Anchored(SetSize([l EXCEPT !.items =
         [i \in DOMAIN @ |-> [@[i] EXCEPT !.lines = lines[i]]]], h))

\* anim.StepMsg
AnimationStep == l' = Anchored(l)

UserMoves ==
  \/ KeyUp \/ KeyDown \/ WheelUp \/ WheelDown \/ UpOneItem \/ DownOneItem
  \/ PageUp \/ PageDown \/ Home \/ End \/ FocusChat
  \/ \E i \in 0..(MaxItems - 1) : Click(i)

Expands == \E n \in 1..MaxLines, b \in BOOLEAN : Expand(n, b)

Deletes == \E i \in 0..(MaxItems - 1) : DeleteMessage(i)

Updates == \E i \in 0..(MaxItems - 1) :
  \/ \E n \in 1..MaxLines : UpdateMessage(i, n) \/ ToolResult(i, n)
  \/ \E x \in Item : UpdateToCalls(i, <<x>>)

Arrives ==
  \/ Updates
  \/ \E x \in Item : AppendUser(x) \/ AppendAssistant(<<x>>)
  \/ \E n \in 0..MaxItems, x \in Item : LoadSession([i \in 1..n |-> x])
  \/ AnimationStep

Rewraps == \E h \in 1..MaxHeight, lines \in [DOMAIN l.items -> 1..MaxLines] :
  WindowSize(h, lines)

Next ==
  \/ UserMoves \/ Expands
  \/ Arrives \/ Deletes \/ ClearMessages
  \/ Rewraps
  \/ \E h \in 1..MaxHeight : Layout(h)

Spec == Init /\ [][Next]_l

-----------------------------------------------------------------------------
(* Properties *)

\* The lines below the top of the viewport, without the gap of the last item.
Below(v) == Total(v, Max2(v.idx, 0), Last(v)) - v.line

\* What a reader sees: the last line of the last item is in the viewport.
EndIsShown(v) == v.items = <<>> \/ Below(v) <= v.height

\* Rows are empty at the bottom although lines are hidden at the top.
Overscrolled(v) == v.items # <<>> /\ Below(v) < v.height /\ (v.idx > 0 \/ v.line > 0)

\* The first row lies within the first item or its gap.
InPlace(v) == v.idx >= 0 /\ ~Overscrolled(v) /\ v.line <= GetItem(v, v.idx) + Gap

\* The rows of the viewport in which Render puts the lines of item i; it puts
\* an empty row for an item -1, and nothing for an item that ends above.
Rows(v, i) ==
  LET first == IF v.idx < 0 THEN 1 ELSE GetItem(v, v.idx)
      top   == IF i = v.idx THEN -v.line
               ELSE Max2(0, first + Gap - v.line) + Total(v, v.idx + 1, i - 1)
                    + (IF i > v.idx + 1 THEN Gap ELSE 0)
  IN  (top..(top + GetItem(v, i) - 1)) \cap 0..(v.height - 1)

\* The offset into the first item is never negative, as the comment on
\* offsetLine demands, and never past the last item.
OffsetIsInside ==
  /\ l.line >= 0
  /\ l.idx <= Max2(0, Last(l))

\* VisibleItemIndices misses no item of which a line is shown: the animations
\* of the others are paused, and the page keys select among them.
ShownIsVisible ==
  \A i \in Max2(l.idx, 0)..Last(l) : Rows(l, i) # {} => i \in StartIdx(l)..EndIdx(l)

\* Only a message that is removed or gets shorter leaves empty rows below the
\* chat: no scroll, no resize and no new message does.
KeepsRows == Overscrolled(l') => Overscrolled(l) \/ Expands \/ Updates \/ Deletes

\* While the chat follows, a step that adds or updates a message, an
\* animation or a new window size ends with the last line shown: only a move
\* of the user ends the following and hides it.
KeepsEnd ==
  l.follow /\ ~EndIsShown(l')
    => \/ ~l'.follow /\ UserMoves
       \/ ~Arrives /\ ~Rewraps

\* A key that moves the selection leaves the selected item in the viewport, or
\* just above it: VisibleItemIndices counts the item whose gap is the first row.
\* An offset that a removed or shorter message has left out of place, and the
\* offset -1 of a chat that was cleared, are not looked at.
KeepsSelection ==
  InPlace(l) /\ l'.selected # l.selected /\ Rows(l', l'.selected) = {} /\ l'.selected # l'.idx
    => ~(KeyUp \/ KeyDown \/ WheelUp \/ WheelDown \/ UpOneItem \/ DownOneItem)

\* The comments on AtBottom (list.go:77) and on the anchor of SetSize
\* (chat.go:99): AtBottom holds exactly when the last line is shown.
AtBottomIsEnd == AtBottom(l) <=> EndIsShown(l)
=============================================================================

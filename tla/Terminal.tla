------------------------------ MODULE Terminal ------------------------------
(***************************************************************************)
(* The user interface: the keyboard with its dialogs (Dialogs), what the   *)
(* chat holds (ChatView), and how it is scrolled (ChatList).  The list     *)
(* sees only how many lines an item renders to; the view nothing of the    *)
(* offset or of the dialogs; and of the chat the dialogs need only which   *)
(* session is in view, which Dialogs has for itself.  No part reads the    *)
(* state of another, so TerminalInit chooses which one moves: their        *)
(* product would show nothing more.                                        *)
(***************************************************************************)
EXTENDS Dialogs

CONSTANTS
  MaxItems, MaxLines, MaxHeight, Wheel, Gap,    \* of ChatList
  ViewSessions, Script, ChannelSize, MaxCmds    \* of ChatView

VARIABLES part, l, written, running, events, lost, shown, chat, cmds

view == <<written, running, events, lost, shown, chat, cmds>>

List == INSTANCE ChatList

\* The sessions of the view, the one in view and the busy ones have names of
\* their own here.
View == INSTANCE ChatView WITH Sessions <- ViewSessions, session <- shown, busy <- running

ASSUME TerminalAssumption == DialogAssumption /\ List!ListAssumption /\ View!ViewAssumption

\* The parts that do not move begin in one state.
TerminalInit ==
  /\ part \in {"list", "view", "keyboard"}
  /\ List!Init /\ View!Init /\ Init
  /\ part # "view" => written = <<>>
  /\ part # "list" => l.height = MaxHeight
  /\ part # "keyboard" => state = "landing" /\ inbox = EmptyBag /\ listed = {} /\
       Configured = Providers

Scroll == part = "list" /\ List!Next /\ UNCHANGED <<part, view, vars>>

Update == part = "view" /\ View!Next /\ UNCHANGED <<part, l, vars>>

Press == part = "keyboard" /\ Next /\ UNCHANGED <<part, l, view>>

TerminalNext == Scroll \/ Update \/ Press

TerminalSpec == TerminalInit /\ [][TerminalNext]_<<part, l, view, vars>>

-----------------------------------------------------------------------------
(* Properties of the list and the view, stated where their actions are.  That *)
(* l changes in no other part than "list" is said to spare TLC the evaluation. *)

\* The offset into the first visible item is never negative (list.go:33) and
\* never past the last item, whatever is removed, replaced or scrolled.
OffsetIsInside == List!OffsetIsInside

\* VisibleItemIndices (list.go:229) misses no item of which a line is drawn.
ShownIsVisible == List!ShownIsVisible

\* Only a message that is removed or gets shorter leaves empty rows below the
\* chat: no scroll, no new size and no new message does (list.go:179).
NoRowsWasted == [][part = "list" => List!KeepsRows]_l

\* While the chat follows, new and updated messages, animations and new window
\* sizes end with the last line in the viewport (chat.go:258).
FollowShowsTheEnd == [][part = "list" => List!KeepsEnd]_l

\* A key that moves the selection leaves the selected item in the viewport
\* (list.go:428).
SelectionIsShown == [][part = "list" => List!KeepsSelection]_l

\* Built from events in any order with loads, the chat is the one that a load
\* of the session would build (ui.go:994, ui.go:1083 against ui.go:883).
\* Whatever is dropped, it has no item of another session and none twice.
ChatShowsSession == View!ChatShowsSession

\* A prompt runs in the session in view when it was sent (ui.go:2874).
PromptRunsWhereTyped == [][View!RunsWhereTyped]_view

-----------------------------------------------------------------------------
(* What the code does not have, besides what Dialogs says it has not *)

\* A command that uses the session finds it.  The code does not have this: a
\* command of a file event or of a prompt reads m.session when it runs
\* (session.go:148, ui.go:2869), and newSession may have cleared it.
CommandsFindTheSession == [][View!FindsTheSession]_view

\* AtBottom holds exactly when the last line is shown (list.go:77).  The code
\* does not have this: the loop gives up without counting the lines of the
\* first item that are scrolled out.
AtBottomIsEnd == List!AtBottomIsEnd
=============================================================================

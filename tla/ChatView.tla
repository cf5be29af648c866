------------------------------ MODULE ChatView ------------------------------
(***************************************************************************)
(* What the user interface shows of a session (ui/model/ui.go and          *)
(* ui/model/session.go): one goroutine handles keys and events in the      *)
(* order of its channel, and the commands it returns run on goroutines of  *)
(* their own and answer with a message.  An agent writes the messages of   *)
(* its session to the database and publishes each write; the channel drops *)
(* an event that finds it full.                                            *)
(*                                                                         *)
(* The writes of a session are a prefix of Script: the database holds the  *)
(* latest write of every message, an event holds one write.  A message has *)
(* at most one tool call, and a call at most one nested call of an agent   *)
(* tool's own session.  The text of a message is what it has to show       *)
(* besides its call: words, thoughts, or that it failed or was cancelled.  *)
(***************************************************************************)
EXTENDS Integers, Sequences, FiniteSets, TLC, SequencesExt

CONSTANTS
  Sessions, None,
  Script,      \* the writes of a session's messages, see Write
  ChannelSize, \* bound: events waiting for the user interface
  MaxCmds      \* bound: commands running

Write == [
  type: {"created", "updated"},
  id: Nat,                                  \* the message
  role: {"user", "assistant", "tool", "child", "childTool"},
  of: Nat,                                  \* the message whose call it answers or nests in
  text: BOOLEAN, call: {"none", "open", "done"}, end: BOOLEAN]

Before(i, id) == {j \in 1..(i - 1) : Script[j].id = id}

\* A call of message id was written before i.
CallBefore(i, id) ==
  \E j \in Before(i, id) : Script[j].role = "assistant" /\ Script[j].call # "none"

\* The i-th write is one that a run makes (agent.go:355, 372-471, 582-659, 972):
\* a message has one role and is created once, a prompt whole, an answer empty;
\* the answer that is updated is the one created last, its calls stay, and its
\* end adds none; results and sub-agents come after their calls.
IsWrite(i) ==
  LET w == Script[i]
      own == {"user", "assistant"}
  IN  /\ \A j \in Before(i, w.id) : Script[j].role = w.role
      /\ w.role \in own /\ w.type = "created" => w.call = "none" /\ ~w.end
      /\ w.role \in own \cup {"tool"} /\ w.type = "created" => Before(i, w.id) = {}
      /\ w.role \in {"user", "tool"} => w.type = "created"
      /\ w.role = "assistant" /\ w.type = "updated" =>
           \E j \in Before(i, w.id) :
             /\ Script[j].type = "created"
             /\ \A k \in (j + 1)..(i - 1) : Script[k].type = "created" => Script[k].role \notin own
      /\ w.role = "assistant" /\ w.call = "none" => ~CallBefore(i, w.id)
      /\ w.role = "assistant" /\ w.call # "none" /\ w.end => CallBefore(i, w.id)
      /\ w.role \in {"tool", "child"} => CallBefore(i, w.of)
      /\ w.role = "childTool" =>
           \E j \in 1..(i - 1) :
             Script[j].role = "child" /\ Script[j].of = w.of /\ Script[j].call # "none"

ViewAssumption ==
  /\ Script \in Seq(Write) /\ {ChannelSize, MaxCmds} \subseteq Nat \ {0}
  /\ None \notin Sessions
  /\ \A i \in DOMAIN Script : IsWrite(i)

VARIABLES
  written,   \* session in the database -> writes of its messages in the database
  busy,      \* sessions with a run
  events,    \* the channel: what was published and not handled
  lost,      \* an event was dropped, and no load has come after all the others
  session,   \* m.session
  chat,      \* the items of the chat
  cmds       \* commands on their way

vars == <<written, busy, events, lost, session, chat, cmds>>

created == DOMAIN written

-----------------------------------------------------------------------------
(* Items *)

Item(s, id, kind, w) ==
  [s |-> s, id |-> id, kind |-> kind, text |-> w.text, call |-> w.call,
   result |-> FALSE, nested |-> "none"]

\* A message with nothing but a call has no item of its own.
ShouldRender(w) == w.call = "none" \/ w.text

IsInfo(w) == w.role = "assistant" /\ w.end

InfoItem(s, w) == Item(s, w.id, "info", w)

ExtractMessageItems(s, w) ==
  CASE w.role = "user" -> <<Item(s, w.id, "message", w)>>
    [] w.role = "assistant" ->
         (IF ShouldRender(w) THEN <<Item(s, w.id, "message", w)>> ELSE <<>>)
         \o (IF w.call # "none" THEN <<Item(s, w.id, "call", w)>> ELSE <<>>)
    [] OTHER -> <<>>

\* With the line at the end of a turn.
AllItems(s, w) ==
  ExtractMessageItems(s, w) \o (IF IsInfo(w) THEN <<InfoItem(s, w)>> ELSE <<>>)

Known(items, id, kind) == \E i \in DOMAIN items : items[i].id = id /\ items[i].kind = kind

RemoveMessage(items, id, kind) ==
  IF Known(items, id, kind)
  THEN RemoveAt(items, CHOOSE i \in DOMAIN items : items[i].id = id /\ items[i].kind = kind)
  ELSE items

\* The call of message id, changed by Change.
OnCall(items, id, Change(_)) ==
  [i \in DOMAIN items |->
     IF items[i].id = id /\ items[i].kind = "call" THEN Change(items[i]) ELSE items[i]]

SetResult(items, id) == OnCall(items, id, LAMBDA i : [i EXCEPT !.result = TRUE])

\* A nested call that was answered stays so.
SetNested(items, id, n) ==
  OnCall(items, id, LAMBDA i : [i EXCEPT !.nested = IF @ = "answered" THEN @ ELSE n])

-----------------------------------------------------------------------------
(* The two ways to the same view: the events, and the database. *)

appendSessionMessage(items, s, w) ==
  IF Known(items, w.id, "message") THEN items
  ELSE IF w.role = "tool" THEN SetResult(items, w.of)
  ELSE items \o AllItems(s, w)

\* Mutant: an update changes items and adds none.
UpdateOnly(items, s, w) ==
  [i \in DOMAIN items |->
     IF items[i].id = w.id /\ items[i].kind \in {"message", "call"}
     THEN [items[i] EXCEPT !.text = w.text, !.call = w.call] ELSE items[i]]

\* A call that is finished keeps its result; an older input replaces a newer one.
updateSessionMessage(items, s, w) ==
  LET texted == [i \in DOMAIN items |->
        IF items[i].id = w.id /\ items[i].kind = "message"
        THEN [items[i] EXCEPT !.text = w.text, !.call = w.call] ELSE items[i]]
      kept   == IF ShouldRender(w) \/ ~Known(items, w.id, "message") THEN texted
                ELSE RemoveMessage(RemoveMessage(texted, w.id, "message"), w.id, "info")
      ended  == IF ShouldRender(w) /\ IsInfo(w) /\ ~Known(items, w.id, "info")
                THEN Append(kept, InfoItem(s, w)) ELSE kept
  IN  IF w.call = "none" THEN ended
      ELSE IF Known(items, w.id, "call")
           THEN OnCall(ended, w.id, LAMBDA i : [i EXCEPT !.text = w.text, !.call = w.call])
           ELSE Append(ended, Item(s, w.id, "call", w))

\* The messages of an agent tool's own session change the item of its call.
handleChildSessionMessage(items, w) ==
  IF w.role = "child" THEN (IF w.call = "none" THEN items ELSE SetNested(items, w.of, w.call))
  ELSE OnCall(items, w.of, LAMBDA i :
         [i EXCEPT !.nested = IF @ = "none" THEN @ ELSE "answered"])

Handle(items, s, w) ==
  IF w.role \in {"child", "childTool"} THEN handleChildSessionMessage(items, w)
  ELSE IF w.type = "created" THEN appendSessionMessage(items, s, w)
  ELSE updateSessionMessage(items, s, w)

\* The database after the first n writes.
Latest(id, n) ==
  Script[CHOOSE i \in 1..n : /\ Script[i].id = id
                             /\ \A j \in (i + 1)..n : Script[j].id # id]

\* setSessionMessages on the first n writes of session s, with the results of
\* its calls and (loadNestedToolCalls) the messages of their own sessions.
Has(role, id, n) == \E i \in 1..n : Script[i].role = role /\ Script[i].of = id

\* The nested call of the call of message id.
Nested(id, n) ==
  LET calls == {i \in 1..n : /\ Script[i].role = "child" /\ Script[i].of = id
                             /\ Script[i].call # "none"}
  IN  IF calls = {} THEN "none"
      ELSE IF Has("childTool", id, n) THEN "answered"
      ELSE Script[CHOOSE i \in calls : \A j \in calls : j <= i].call

Linked(i, n) ==
  IF i.kind # "call" THEN i
  ELSE [i EXCEPT !.result = Has("tool", i.id, n), !.nested = Nested(i.id, n)]

setSessionMessages(s, n) ==
  LET items == FlattenSeq([i \in 1..n |->
        IF Script[i].type = "created" THEN AllItems(s, Latest(Script[i].id, n)) ELSE <<>>])
  IN  [i \in DOMAIN items |-> Linked(items[i], n)]

-----------------------------------------------------------------------------
Init ==
  /\ \E c \in SUBSET Sessions : written = [s \in c |-> Len(Script)]
  /\ busy = {} /\ events = <<>> /\ lost = FALSE
  /\ session = None /\ chat = <<>> /\ cmds = {}

-----------------------------------------------------------------------------
(* The agent *)

\* Bound: one event is dropped before a load clears lost.
Publish(e) ==
  IF Len(events) < ChannelSize THEN events' = Append(events, e) /\ UNCHANGED lost
  ELSE ~lost /\ lost' = TRUE /\ UNCHANGED events

\* A write of the running turn, and its event; a full channel drops it.
WriteMessage(s) ==
  /\ s \in busy /\ written[s] < Len(Script)
  /\ written' = [written EXCEPT ![s] = @ + 1]
  /\ Publish([kind |-> "message", s |-> s, n |-> written'[s]])
  /\ UNCHANGED <<busy, session, chat, cmds>>

\* A tool of the running turn changes a file.  Bound: when the channel is empty.
WriteFile(s) ==
  /\ s \in busy /\ events = <<>>
  /\ Publish([kind |-> "file", s |-> s, n |-> 0])
  /\ UNCHANGED <<written, busy, session, chat, cmds>>

\* Bound: when all its writes are done.  A turn that ends earlier leaves the
\* chat as one that pauses does.
EndTurn(s) ==
  /\ s \in busy /\ written[s] = Len(Script)
  /\ busy' = busy \ {s}
  /\ UNCHANGED <<written, events, lost, session, chat, cmds>>

-----------------------------------------------------------------------------
(* The user *)

Cmd(kind, s) == [kind |-> kind, s |-> s, typed |-> s]

Return(new) == cmds' = cmds \cup new /\ Cardinality(cmds') <= MaxCmds

\* A session is chosen in the dialog, or at the start.
SelectSession(s) ==
  /\ s \in created
  /\ Return({Cmd("load", s)})
  /\ UNCHANGED <<written, busy, events, lost, session, chat>>

\* The prompt runs in the session that is in view, created when there is none;
\* the files the prompt mentions are recorded by another command.
sendMessage(s, reads) ==
  /\ IF session = None
     THEN /\ s \notin created
          /\ written' = [x \in created \cup {s} |-> IF x = s THEN 0 ELSE written[x]]
          /\ session' = s
     ELSE s = session /\ UNCHANGED <<written, session>>
  /\ Return((IF session = None THEN {Cmd("load", s)} ELSE {})
            \cup (IF reads THEN {Cmd("reads", s)} ELSE {})
            \cup {Cmd("run", s)})
  /\ UNCHANGED <<busy, events, lost, chat>>

isAgentBusy == busy # {}

newSession ==
  /\ ~isAgentBusy /\ session # None
  /\ session' = None /\ chat' = <<>>
  /\ UNCHANGED <<written, busy, events, lost, cmds>>

-----------------------------------------------------------------------------
(* Update: the handlers of messages *)

HandleEvent ==
  /\ events # <<>>
  /\ events' = Tail(events)
  /\ LET e == Head(events)
     IN  IF e.s # session THEN UNCHANGED <<chat, cmds>>
         ELSE IF e.kind = "message"
         THEN chat' = Handle(chat, e.s, Script[e.n]) /\ UNCHANGED cmds
         ELSE Return({Cmd("files", e.s)}) /\ UNCHANGED chat
  /\ UNCHANGED <<written, busy, lost, session>>

\* loadSessionMsg: the messages are listed when the answer is handled.
HandleLoad(c) ==
  /\ c \in cmds /\ c.kind = "load"
  /\ cmds' = cmds \ {c}
  /\ session' = c.s
  /\ chat' = setSessionMessages(c.s, written[c.s])
  /\ lost' = (lost /\ events # <<>>)
  /\ UNCHANGED <<written, busy, events>>

-----------------------------------------------------------------------------
(* The commands *)

\* The coordinator runs the prompt in the session captured with the command;
\* a busy session queues it.
RunPrompt(c) ==
  /\ c \in cmds /\ c.kind = "run"
  /\ cmds' = cmds \ {c}
  /\ busy' = busy \cup {c.s}
  /\ UNCHANGED <<written, events, lost, session, chat>>

\* loadSessionFiles and RecordRead use m.session when they run.
UseSession(c) ==
  /\ c \in cmds /\ c.kind \in {"files", "reads"}
  /\ cmds' = cmds \ {c}
  /\ UNCHANGED <<written, busy, events, lost, session, chat>>

Next ==
  \/ \E s \in Sessions :
       \/ WriteMessage(s) \/ WriteFile(s) \/ EndTurn(s)
       \/ SelectSession(s)
       \/ \E reads \in BOOLEAN : sendMessage(s, reads)
  \/ newSession
  \/ HandleEvent
  \/ \E c \in cmds : HandleLoad(c) \/ RunPrompt(c) \/ UseSession(c)

Spec == Init /\ [][Next]_vars

-----------------------------------------------------------------------------
(* Properties *)

\* Whatever is dropped, the chat has no item of a session that is not in view
\* and no item twice.
ItemsAreOfSession ==
  /\ \A i \in DOMAIN chat : chat[i].s = session
  /\ \A i, j \in DOMAIN chat :
       chat[i].id = chat[j].id /\ chat[i].kind = chat[j].kind => i = j

\* An answer that was taken from the view, having nothing but a call, has more
\* later on; or it ends with no more than a call; or it changes after its end.
Unsteady(n) ==
  \E j \in 1..n : \E i \in Before(j, Script[j].id) \cup {j} :
    LET before == Script[i]
        after  == Script[j]
    IN  /\ after.role = "assistant"
        /\ \/ ~ShouldRender(before) /\ (ShouldRender(after) \/ after.end)
           \/ before.end /\ (~after.end \/ after.text # before.text \/ after.call # before.call)

\* And once the events are handled and none was dropped, the chat built from
\* them is the chat that a load of the session would build: no item is missing,
\* misplaced or stale.  An unsteady answer may be shown as it was.
ChatShowsSession ==
  /\ ItemsAreOfSession
  /\ session # None /\ events = <<>> /\ ~lost /\ ~Unsteady(written[session])
       => chat = setSessionMessages(session, written[session])

\* A run starts in a session only for a prompt that was sent with that session
\* in view, whichever is in view when the command runs (ui.go:2874).
RunsWhereTyped ==
  \A s \in busy' \ busy : \E c \in cmds \ cmds' : c.kind = "run" /\ c.typed = s

\* A command that uses the session never finds it gone: the comment at
\* ui.go:2874 names this race, and captures the session against it.
FindsTheSession ==
  \A c \in cmds \ cmds' : c.kind \in {"files", "reads"} => session # None
=============================================================================

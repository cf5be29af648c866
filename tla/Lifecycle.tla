------------------------------ MODULE Lifecycle ------------------------------
(***************************************************************************)
(* The life of the application around one turn: the event brokers           *)
(* (internal/pubsub), the goroutines that gather their events for the       *)
(* terminal UI, the loop of "crusher run" that prints the answer, and       *)
(* App.Shutdown (internal/app/app.go).                                      *)
(*                                                                         *)
(* One broker is looked at in each behaviour: the one of the messages, to   *)
(* which the turn publishes each longer state of its answer, in the UI or   *)
(* in "crusher run"; or the one of the MCP clients, the only one that is    *)
(* ever shut down.  The other six are connected like the first.  An event   *)
(* is a number, for an answer its length.  The clean-up tasks that touch    *)
(* none of this (killing shells and language servers, telemetry) are left   *)
(* out; they end by themselves.                                             *)
(***************************************************************************)
EXTENDS Integers, Sequences, FiniteSets

CONSTANTS Updates,    \* bound: events of the broker
          BufferSize, \* capacity of a subscription
          EventsSize, \* capacity of App.events
          None

ASSUME SizesArePositive == {Updates, BufferSize, EventsSize} \subseteq Nat \ {0}

\* The goroutine of setupSubscriber, and the subscription of RunNonInteractive.
Subs == {"fan", "reader"}
Tasks == {"db", "mcp", "events", "tui"}

VARIABLES mode,      \* "ui" or "run" with the messages, or "mcp"
          main,      \* Shutdown: "running", "cancelling", "cleaning", "ended"
          tasks,     \* clean-up tasks that have not ended
          hurried,   \* history: CancelAll returned after its timeout, or found no turn
                     \*   registered when one was about to be
          agent,     \* the turn: "starting", "working", "ended"
          cancelled, \* the context of the turn is cancelled
          db,        \* "open" or "closed"
          missed,    \* history: the turn wrote to a closed database
          published, \* the last event
          done,      \* the done channel of the MCP broker is closed
          open,      \* subscriptions in the subs of their broker
          cleaner,   \* [Subs -> the goroutine of Subscribe]: "none", "waiting", "ended"
          closes,    \* [Subs -> how often the channel was closed]
          buf,       \* [Subs -> events in the channel]
          fan,       \* "starting", "receiving", "sending", "ended"
          held,      \* the event it sends
          events,    \* App.events
          dropped,   \* history: an event was dropped
          tui,       \* App.Subscribe: "running", "ended"
          shown,     \* the last event the UI was sent
          reader,    \* RunNonInteractive: "starting", "reading", "returned"
          printed,   \* how much of the answer it has printed
          stopped    \* contexts that are cancelled: "events", "tui", "reader"

app == <<mode, main, tasks, hurried, stopped>>
turn == <<agent, cancelled, db, missed>>
broker == <<published, done, open, cleaner, closes>>
fans == <<fan, held, events, tui, shown>>
out == <<reader, printed>>
vars == <<app, turn, broker, buf, dropped, fans, out>>

TypeOK ==
  /\ mode \in {"ui", "run", "mcp"}
  /\ main \in {"running", "cancelling", "cleaning", "ended"} /\ tasks \subseteq Tasks
  /\ agent \in {"starting", "working", "ended"} /\ db \in {"open", "closed"}
  /\ {cancelled, missed, done, dropped, hurried} \subseteq BOOLEAN
  /\ published \in 0..Updates
  /\ open \subseteq Subs
  /\ cleaner \in [Subs -> {"none", "waiting", "ended"}]
  /\ closes \in [Subs -> 0..2]
  /\ \A s \in Subs : buf[s] \in Seq(1..Updates) /\ Len(buf[s]) <= BufferSize
  /\ fan \in {"starting", "receiving", "sending", "ended"}
  /\ held \in (1..Updates) \union {None}
  /\ events \in Seq(1..Updates) /\ Len(events) <= EventsSize
  /\ tui \in {"running", "ended"} /\ shown \in 0..Updates
  /\ reader \in {"starting", "reading", "returned"} /\ printed \in 0..Updates
  /\ stopped \subseteq {"events", "tui", "reader"}

\* In the terminal UI nothing reads the answer for printing; "crusher run"
\* has no UI, and App.events has no reader.
Init ==
  /\ mode \in {"ui", "run", "mcp"}
  /\ main = "running" /\ tasks = (IF mode = "mcp" THEN Tasks ELSE Tasks \ {"mcp"}) /\ hurried = FALSE
  /\ agent = (IF mode = "mcp" THEN "ended" ELSE "starting") /\ cancelled = FALSE /\ db = "open" /\ missed = FALSE
  /\ published = 0
  /\ done = FALSE /\ open = {}
  /\ cleaner = [s \in Subs |-> "none"]
  /\ closes = [s \in Subs |-> 0]
  /\ buf = [s \in Subs |-> <<>>]
  /\ fan = "starting"
  /\ held = None
  /\ events = <<>> /\ dropped = FALSE
  /\ tui = IF mode = "run" THEN "ended" ELSE "running"
  /\ shown = 0
  /\ reader = IF mode = "run" THEN "starting" ELSE "returned"
  /\ printed = 0
  /\ stopped = {}

-----------------------------------------------------------------------------
(* Broker.                                                                 *)

Context(s) == IF s = "reader" THEN "reader" ELSE "events"

\* Publish, under the read lock: a full channel misses the event.
Publish ==
  LET takers == {s \in open : ~done}
      full == {s \in takers : Len(buf[s]) = BufferSize}
  IN /\ published < Updates
     /\ published' = published + 1
     /\ buf' = [s \in Subs |-> IF s \in takers \ full THEN Append(buf[s], published')
                               ELSE buf[s]]
     /\ dropped' = (dropped \/ full # {})
     /\ UNCHANGED <<done, open, cleaner, closes>>

\* Subscribe: a broker that is shut down gives a closed channel.
Subscribe(s) ==
  IF done
  THEN /\ closes' = [closes EXCEPT ![s] = 1]
       /\ UNCHANGED <<open, cleaner>>
  ELSE /\ open' = open \union {s}
       /\ cleaner' = [cleaner EXCEPT ![s] = "waiting"]
       /\ UNCHANGED closes

\* Mutation of Unsubscribe: the goroutine does not look at done.
UnsubscribeAlways(s) ==
  /\ cleaner[s] = "waiting" /\ Context(s) \in stopped
  /\ cleaner' = [cleaner EXCEPT ![s] = "ended"]
  /\ open' = open \ {s}
  /\ closes' = [closes EXCEPT ![s] = @ + 1]
  /\ UNCHANGED <<app, turn, published, done, buf, dropped, fans, out>>

\* The goroutine of Subscribe, when its context ends: it leaves the channel to
\* a Shutdown that has begun.
Unsubscribe(s) ==
  /\ cleaner[s] = "waiting" /\ Context(s) \in stopped
  /\ cleaner' = [cleaner EXCEPT ![s] = "ended"]
  /\ IF done
     THEN UNCHANGED <<open, closes>>
     ELSE /\ open' = open \ {s}
          /\ closes' = [closes EXCEPT ![s] = @ + 1]
  /\ UNCHANGED <<app, turn, published, done, buf, dropped, fans, out>>

-----------------------------------------------------------------------------
(* The turn and the MCP clients publish.                                   *)

\* The prompt was entered, and sessionAgent.Run registers it.
AgentStarts ==
  /\ agent = "starting"
  /\ agent' = "working"
  /\ UNCHANGED <<app, cancelled, db, missed, broker, buf, dropped, fans, out>>

\* Messages.Update: the database first, then the event.
AgentWrites ==
  /\ agent = "working" /\ ~cancelled /\ db = "open"
  /\ mode # "mcp"
  /\ Publish
  /\ UNCHANGED <<app, turn, fans, out>>

\* The turn ends, by itself or because it is cancelled, and writes its last
\* state.
AgentEnds ==
  /\ agent = "working"
  /\ agent' = "ended"
  /\ missed' = (db = "closed")
  /\ UNCHANGED <<app, cancelled, db, broker, buf, dropped, fans, out>>

NoticePublished ==
  /\ mode = "mcp"
  /\ Publish
  /\ UNCHANGED <<app, turn, fans, out>>

-----------------------------------------------------------------------------
(* setupSubscriber, and App.Subscribe.                                     *)

FanSubscribes ==
  /\ fan = "starting"
  /\ Subscribe("fan")
  /\ fan' = "receiving"
  /\ UNCHANGED <<app, turn, published, done, buf, dropped, held, events, tui, shown, out>>

FanReceives ==
  /\ fan = "receiving"
  /\ buf["fan"] # <<>>
  /\ held' = Head(buf["fan"])
  /\ buf' = [buf EXCEPT !["fan"] = Tail(@)]
  /\ fan' = "sending"
  /\ UNCHANGED <<app, turn, broker, dropped, events, tui, shown, out>>

\* Mutation of FanSends: the event goes before those that wait.
FanSendsFirst ==
  /\ fan = "sending"
  /\ Len(events) < EventsSize
  /\ events' = <<held>> \o events
  /\ held' = None
  /\ fan' = "receiving"
  /\ UNCHANGED <<app, turn, broker, buf, dropped, tui, shown, out>>

\* Mutation of FanSends: the timer of the event before was not drained.
FanSendsStale ==
  /\ fan = "sending"
  /\ held' = None
  /\ fan' = "receiving"
  /\ UNCHANGED <<app, turn, broker, buf, dropped, events, tui, shown, out>>

FanSends ==
  /\ fan = "sending"
  /\ Len(events) < EventsSize
  /\ events' = Append(events, held)
  /\ held' = None
  /\ fan' = "receiving"
  /\ UNCHANGED <<app, turn, broker, buf, dropped, tui, shown, out>>

\* Two seconds without room.
FanDrops ==
  /\ fan = "sending"
  /\ Len(events) = EventsSize
  /\ dropped' = TRUE
  /\ held' = None
  /\ fan' = "receiving"
  /\ UNCHANGED <<app, turn, broker, buf, events, tui, shown, out>>

\* The channel is closed and empty, or the context ends.
FanEnds ==
  /\ \/ fan = "receiving" /\ buf["fan"] = <<>> /\ closes["fan"] > 0
     \/ fan \in {"receiving", "sending"} /\ "events" \in stopped
  /\ fan' = "ended"
  /\ held' = None
  /\ UNCHANGED <<app, turn, broker, buf, dropped, events, tui, shown, out>>

\* program.Send; it returns at once when the program has ended.
TuiReceives ==
  /\ tui = "running"
  /\ events # <<>>
  /\ shown' = Head(events)
  /\ events' = Tail(events)
  /\ UNCHANGED <<app, turn, broker, buf, dropped, fan, held, tui, out>>

TuiEnds ==
  /\ tui = "running" /\ "tui" \in stopped
  /\ tui' = "ended"
  /\ UNCHANGED <<app, turn, broker, buf, dropped, fan, held, events, shown, out>>

-----------------------------------------------------------------------------
(* RunNonInteractive: the turn is started before the messages are           *)
(* subscribed.                                                             *)

ReaderSubscribes ==
  /\ reader = "starting"
  /\ Subscribe("reader")
  /\ reader' = "reading"
  /\ UNCHANGED <<app, turn, published, done, buf, dropped, fans, printed>>

\* It prints what the answer has become longer by.
ReaderPrints ==
  /\ reader = "reading"
  /\ buf["reader"] # <<>>
  /\ printed' = Head(buf["reader"])
  /\ buf' = [buf EXCEPT !["reader"] = Tail(@)]
  /\ UNCHANGED <<app, turn, broker, dropped, fans, reader>>

\* The result of the turn, or the context, and the deferred cancel.
ReaderReturns ==
  /\ reader = "reading"
  /\ agent = "ended" \/ "reader" \in stopped
  /\ reader' = "returned"
  /\ stopped' = stopped \union {"reader"}
  /\ UNCHANGED <<mode, main, tasks, hurried, turn, broker, buf, dropped, fans, printed>>

\* SIGINT cancels the context that the turn and the loop share.
Interrupt ==
  /\ mode = "run" /\ main = "running"
  /\ stopped' = stopped \union {"reader"}
  /\ cancelled' = TRUE
  /\ UNCHANGED <<mode, main, tasks, hurried, agent, db, missed, broker, buf,
                 dropped, fans, out>>

-----------------------------------------------------------------------------
(* Shutdown.                                                               *)

\* Mutation of CancelAll: it does not wait.
CancelAllNoWait ==
  /\ main = "running" /\ reader = "returned"
  /\ hurried' = (agent = "starting")
  /\ cancelled' = (cancelled \/ agent = "working")
  /\ main' = "cleaning"
  /\ UNCHANGED <<mode, tasks, stopped, agent, db, missed, broker, buf, dropped, fans, out>>

\* The user quits the UI, or RunNonInteractive has returned: CancelAll cancels
\* the registered turns, and returns at once when there are none.
CancelAll ==
  /\ main = "running" /\ reader = "returned"
  /\ hurried' = (agent = "starting")
  /\ cancelled' = (cancelled \/ agent = "working")
  /\ main' = IF agent = "working" THEN "cancelling" ELSE "cleaning"
  /\ UNCHANGED <<mode, tasks, stopped, agent, db, missed, broker, buf, dropped, fans, out>>

\* CancelAll polls IsBusy, for five seconds.
CancelAllReturns ==
  /\ main = "cancelling"
  /\ hurried' = (agent = "working")
  /\ main' = "cleaning"
  /\ UNCHANGED <<mode, tasks, stopped, turn, broker, buf, dropped, fans, out>>

Task(t) == main = "cleaning" /\ t \in tasks

EndTask(t) ==
  /\ tasks' = tasks \ {t}
  /\ main' = IF tasks = {t} THEN "ended" ELSE main
  /\ UNCHANGED <<mode, hurried, stopped>>

CloseDB ==
  /\ Task("db")
  /\ db' = "closed"
  /\ EndTask("db")
  /\ UNCHANGED <<agent, cancelled, missed, broker, buf, dropped, fans, out>>

\* mcp.Close has closed its sessions, and Broker.Shutdown closes done ...
BrokerShutdown ==
  /\ Task("mcp") /\ mode = "mcp" /\ ~done
  /\ done' = TRUE
  /\ UNCHANGED <<app, turn, published, open, cleaner, closes, buf, dropped, fans, out>>

\* ... and then, with the lock, every subscription.
CloseSubs ==
  /\ Task("mcp") /\ mode = "mcp" /\ done
  /\ open' = open \ {"fan"}
  /\ closes' = [closes EXCEPT !["fan"] = IF "fan" \in open THEN @ + 1 ELSE @]
  /\ EndTask("mcp")
  /\ UNCHANGED <<turn, published, done, cleaner, buf, dropped, fans, out>>

\* Mutation of Stop: the clean-up waits without cancelling.
StopNot(t) == Task(t) /\ UNCHANGED vars

\* The clean-up of the events and of the UI cancels a context ...
Stop(t) ==
  /\ Task(t) /\ t \in {"events", "tui"}
  /\ t \notin stopped
  /\ stopped' = stopped \union {t}
  /\ UNCHANGED <<mode, main, tasks, hurried, turn, broker, buf, dropped, fans, out>>

\* ... and waits for the goroutines.
WaitForFans ==
  /\ Task("events") /\ "events" \in stopped
  /\ fan = "ended"
  /\ EndTask("events")
  /\ UNCHANGED <<turn, broker, buf, dropped, fans, out>>

WaitForTui ==
  /\ Task("tui") /\ "tui" \in stopped
  /\ tui = "ended"
  /\ EndTask("tui")
  /\ UNCHANGED <<turn, broker, buf, dropped, fans, out>>

-----------------------------------------------------------------------------

FanStep == FanSubscribes \/ FanReceives \/ FanSends \/ FanDrops \/ FanEnds
TuiStep == TuiReceives \/ TuiEnds
ReaderStep == ReaderSubscribes \/ ReaderPrints \/ ReaderReturns
Cleanup(t) ==
  \/ t = "db" /\ CloseDB
  \/ t = "mcp" /\ (BrokerShutdown \/ CloseSubs)
  \/ Stop(t)
  \/ t = "events" /\ WaitForFans
  \/ t = "tui" /\ WaitForTui

ShutdownStep == CancelAllReturns \/ \E t \in Tasks : Cleanup(t)

\* When Shutdown has returned the process exits, and everything with it.
Next ==
  /\ main # "ended"
  /\ \/ AgentStarts \/ AgentWrites \/ AgentEnds \/ NoticePublished
     \/ \E s \in Subs : Unsubscribe(s)
     \/ FanStep \/ TuiStep
     \/ ReaderStep \/ Interrupt
     \/ CancelAll \/ ShutdownStep

\* Every goroutine that can run does, and CancelAll returns after five seconds
\* at the latest.  Nothing is assumed of the turn, which may not notice that it
\* is cancelled, nor of the user; nobody waits for the goroutine of Subscribe.
Fairness ==
  /\ WF_vars(main # "ended" /\ FanStep)
  /\ WF_vars(main # "ended" /\ TuiStep)
  /\ WF_vars(ShutdownStep)

Spec == Init /\ [][Next]_vars /\ Fairness

-----------------------------------------------------------------------------
(* Properties.                                                             *)

\* A channel is closed once, whoever of Shutdown and the goroutine of its
\* subscription comes first, and no publisher finds a closed one among the
\* subs: either would panic.
ClosedOnce == \A s \in Subs : closes[s] <= 1 /\ (closes[s] = 1 => s \notin open)

\* What the UI has not seen yet of the events that were published, oldest first.
InFlight == events \o (IF held = None THEN <<>> ELSE <<held>>) \o buf["fan"]

Increasing(q) == \A i, j \in DOMAIN q : i < j => q[i] < q[j]

\* Events may be lost, but the UI is never sent an older state of a message
\* after a newer one, and the printing loop never finds an answer shorter than
\* what it has printed (it would end with an error).
NothingOutOfOrder ==
  /\ Increasing(<<shown>> \o InFlight)
  /\ Increasing(<<printed>> \o buf["reader"])

\* The turn meets a closed database only when CancelAll gave up after its five
\* seconds, or when the turn was not registered yet as CancelAll looked.
MissedNeedsTimeout == missed => hurried

\* Shutdown returns, whatever the turn does and however full the channels are.
ShutdownReturns == main # "running" ~> main = "ended"

\* While the application runs and nothing is dropped, the UI is sent the last
\* state of the answer: no event stays in a channel.
LastStateIsShown ==
  published = Updates /\ InFlight # <<>>
    ~> \/ shown = Updates
       \/ dropped \/ mode = "run" \/ main # "running"

\* app.go says of CancelAll "This must complete before closing the DB so agents
\* can finish writing their state."
AgentsFinishBeforeClose == db = "closed" => agent = "ended"

\* run.go redirects "crusher run" to a file: a run that ends without an error
\* has printed the whole answer.
AnswerIsPrinted ==
  mode = "run" /\ reader = "returned" /\ ~cancelled /\ agent = "ended"
    => printed = published

=============================================================================

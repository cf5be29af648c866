# Verification of crusher's core

TLA+ models of the concurrent core of this repository (a terminal coding agent
written in Go), model-checked with TLC and, where a result should hold for every
number of actors, proved with TLAPS. Every action is translated from the source;
`PROJECT.json` maps each definition to the lines it stands for, lists the hazards
of the code, the runs, the mutants that show what each property catches, and the
theorems.

## 1. Inventory

### What the program does

A user's prompt goes from the UI (or `crush run`) to the coordinator, which picks
a model and calls `sessionAgent.Run`. Run streams an answer of a language model
through the library *fantasy*; its callbacks write the messages of the turn to
SQLite, and it runs tools, in parallel when the model asks for several. Tools ask
the permission service, which asks the user through the event broker and the UI.
The bash tool starts shells of a process-wide manager; the agent tools run
sub-agents that are sessions of their own. Every part writes rows that other
parts have read.

| component (`internal/…`) | state it keeps | operations | shared with |
|---|---|---|---|
| session agent (`agent/agent.go`) | `messageQueue`, `activeRequests`, one entry per session | Run, Summarize, GhostCompact, Cancel, CancelAll, ClearQueue | UI, coordinator, recovery, multiplex workers |
| a turn (`agent/agent.go`, `message/`) | current assistant message in memory, messages in the database | PrepareStep, OnToolInputStart, OnToolCall, OnToolResult, OnStepFinish, the error path | fantasy, tools, database |
| recovery (`agent/recovery.go`, `agent/circuit/`) | retry count per session, audit list | AttemptRecovery | Run |
| coordinator (`agent/coordinator.go`) | current agent, token refresh | Run, runSubAgent, runWithMultiplex | UI, agents, session service |
| session service (`session/`, `agent/title.go`) | one row per session: title, cost, todos, summary | Get, Save, UpdateTitleAndUsage, Rename, Create, Delete | steps, tools, title goroutine, Summarize, UI |
| permission service (`permission/`) | request mutex, pending channels, granted keys, auto-approved sessions, skip flag | Request, Grant, GrantPersistent, Deny, AutoApproveSession, SetSkipRequests | every tool, UI, broker |
| background shells (`shell/background.go`, `agent/tools/bash.go`, `job_*.go`) | map of shells, each with a context, output and done channel | Start, Get, Remove, Kill, Cleanup, KillAll; the tools' waits | bash tool of every session, App.Shutdown |
| multiplex (`agent/multiplex/`, `agent/multiplex_integration.go`) | intent, result and completion channels, pool, aggregator | Execute, Worker.run, addResult, Stop | coordinator, session agent |
| edit tools, file tracker, history (`agent/tools/edit.go` …, `filetracker/`, `history/`) | last read time per session and file, versions per session and path | view, edit, multiedit, write: check, ask, write, store versions, record the read | permission, file system, other sessions |
| app (`app/`), broker (`pubsub/`) | subscriptions, event channel, the fan-in's goroutines, clean-up functions | Subscribe, Publish, RunNonInteractive, Shutdown | everything |
| terminal UI (`ui/model/ui.go`, `session.go`, `chat.go`, `ui/list/list.go`, `ui/dialog/`) | session in view, items of the chat, offset, selection, follow mode, stack of dialogs, armed Escape | handlers of keys, wheel, sizes, dialogs and events; commands on goroutines of their own | agents (through events), session service, coordinator |
| loop detection (`agent/loop_detection.go`), partition (`agent/multiplex/partition.go`), text edits (`lsp/util/edit.go`), compaction (`ghostcount/`) | none | hasRepeatedToolCalls; Partition; applyTextEdits; Compact | the turn, runWithMultiplex, the LSP client, GhostCompact |
| language servers (`lsp/manager.go`, `lsp/client.go`) | a map with one client per server name; of a client its state, its process, the open documents | start, OpenFileOnDemand, NotifyChange, Restart, StopAll, KillAll | view and edit tools, lsp_restart, App, UI |
| MCP clients (`agent/tools/mcp/`) | one client per server name | init, renew, disable | tools, UI |
| collections (`csync/`) | locked map, slice, value | single locked operations, and GetOrSet, which is two | everything |
| shell interpreter, configuration, OAuth, providers, skills, files, logs, other UI widgets, command line | no state another part races for | | |

`PROJECT.json` has one entry per component, with those that are not modelled and
the reason.

### What is hard

* **Check, then act, on locked maps.** `csync.Map` makes one operation atomic.
  Run's busy gate, its queue, the job limit of the shells and KillAll are
  sequences of them.
* **Deferred calls of nested frames.** Run recurses into itself for queued
  prompts and for recovered errors; the deferred `Del` of every frame removes
  whatever entry the session has by then.
* **Whole-row saves.** `sessions.Save` writes a copy that was read earlier: by a
  tool, a step, a title, a summary or a dialog.
* **Questions to the user.** A tool waits for an answer that may come late, for a
  call that was cancelled, through a channel with one place, after an event that
  may have been dropped.
* **Failing in the middle.** Any database write of a turn can fail, any context
  can be cancelled, and what is left is the history the next turn sends.
* **Two ways to one view.** The chat is loaded from the database and then kept up
  by events of the same messages, which may be older than the load, arrive after the
  session has changed, or never arrive.
* **A file that anybody may change.** The time of the last read is compared, then the
  file is read, then the user is asked; the write comes after the answer.
* **Whoever is in front.** Keys and results go to the dialog in front when they come;
  agents open dialogs of their own at any time, commands answer in any order, and timers
  do not know what they were started for.
* **Processes that come and go.** The client of a language server is looked up, made,
  stored, restarted and stopped without a lock, by goroutines that do not know of each
  other, while its process may crash or stop reading.
* **Waiting without a limit.** Kill waits for a command, job_output for a job,
  Request for a mutex, Stop for workers.

### What makes each component correct

* *Session agent*: a busy entry belongs to somebody who will remove it; a running
  turn can be found and cancelled; no prompt is lost or executed twice; a
  cancelled stream stops.
* *Turn*: whatever fails, the turn leaves a history that a provider accepts; a
  call is answered once; a tool that runs is on record; a cancelled turn ends.
* *Permission*: nothing runs without consent for this very call; one question at
  a time; the UI never blocks; every call is decided.
* *Shells*: a running command can always be found or is being killed; output that
  was promised is kept; a result is the command's own, unless a job_kill named the shell;
  every wait ends.
* *Session row*: an update is lost only to an older copy; a step's cost survives
  its own turn; the summary exists.
* *Multiplex*: a result is complete; no prompt runs twice unless a stale write puts it
  back; it returns; after it nothing of it runs.
* *Files*: no content the session has not seen is overwritten, but by a race that the
  second's precision or a change after the check allows; a write counts as a read;
  every write can be undone.
* *Lifecycle*: a channel is closed once; nothing is delivered out of order; the last
  state reaches the UI; Shutdown returns; the database is closed under a turn only
  after the five seconds.
* *Chat*: events and loads build the same view; the offset wastes no row; a chat that
  follows shows its end; a prompt runs in the session it was typed in.
* *Dialogs*: what an agent asks is on the screen until it is answered or withdrawn; a
  dialog that takes no keys is about to be answered; a single Escape cancels nothing
  later on; without a model there is a dialog to choose one.
* *Language servers*: every process that runs can be found by KillAll; a document that a
  client has open is open in its server, once and in the same version; a tool call ends.
* *Algorithms*: a loop is stopped, and nothing else is; a partition has every resource
  once and in order; edits do what they say about the document as it was; a compaction
  that truncates sends the last messages and every task.

## 2. Modules

| module | models | checked by | proved in |
|---|---|---|---|
| `SessionAgent` | queue and busy entry of one session, at the grain of one map operation | `Agent`, `MCAgent` | `SessionAgentProofs` |
| `AgentTurn` | the messages of one Run, every write of which may fail | `Agent`, `MCAgent` | `SessionAgentProofs` |
| `Agent` | the two side by side | `MCAgent`, 4 configurations | `SessionAgentProofs` |
| `Permission` | the permission service and the UI goroutine | `MCPermission` | `PermissionProofs` |
| `PermissionGate` | what the permission service promises | as the property `GateSpec` of `Permission` | `ImplementsGate` |
| `BackgroundShells` | the shell manager, bash, job_kill, job_output, KillAll | `MCBackgroundShells` | `BackgroundShellsProofs` |
| `SessionStore` | one session row and all its writers | `MCSessionStore` | `SessionStoreProofs` |
| `Multiplex` | one multiplexed prompt on one session | `MCMultiplex` | `MultiplexProofs` |
| `FileEdit` | one file, the tools of several sessions, the file tracker and the history | `MCFileEdit` | `FileEditProofs` |
| `Lifecycle` | brokers, fan-in, UI loop, `crusher run`, Shutdown around one turn | `Application`, `MCApplication` | `ApplicationProofs` |
| `LanguageServers` | the clients and processes of one language server, and a document | `Application`, `MCApplication` | `ApplicationProofs` |
| `Application` | the App: its life and the servers it owns | `MCApplication`, 2 configurations | `ApplicationProofs` |
| `Dialogs` | the keyboard, the stack of dialogs and the commands that answer them | `Terminal`, `MCTerminal` | `TerminalProofs` |
| `ChatView` | the chat's items of two sessions, built from loads and events | `Terminal`, `MCTerminal` | `TerminalProofs` |
| `ChatList` | the list's offset, selection and follow mode under every handler | `Terminal`, `MCTerminal` | `TerminalProofs` (follow mode) |
| `Terminal` | the three parts of the UI goroutine | `MCTerminal`, 2 configurations | `TerminalProofs` |
| `LoopDetection`, `Partition`, `Compaction`, `TextEdits` | algorithms as operators | `Algorithms`, `MCAlgorithms` | `MultiplexProofs` |

`SessionAgent` and `AgentTurn` are two views of `Run`: the first keeps the
scheduling and reduces the stream to start, end and failure, the second keeps the
stream and reduces the scheduling to two contexts that may be cancelled. In
`Multiplex` the session agent appears as its busy gate and its queue. `Agent`, `Application` and
`Terminal` put modules beside each other of which none reads the state of another: Init
chooses the part that moves, since a product of them would show nothing more, and each
behaviour of the whole is a behaviour of every part (theorem `AgentIsItsParts`, lemma
`AppRunsServers`). `Algorithms` feeds the four modules of operators with inputs that grow.
Definitions whose comment
begins with *Mutant* or *Mutation* belong to no specification: each is a plausible
bug, and `PROJECT.json` names the property that catches it.

### SessionAgent

A goroutine per prompt, as the UI starts one per message; goroutines that call
Summarize, Cancel or ClearQueue. `stack[g]` holds the contexts of the pending
frames of `g`; `active` is the session's entry in `activeRequests`, a context
number or 0; `local[g]` is the slice a goroutine has read and not yet written
back. Run is cut at every map operation: `CheckBusy` (215), `ReadToAppend` and
`Enqueue` (216-222), `Load` (225-286), `Register` (288-300), `ReadToDrain` and
`Drain` (313-323), the stream, `Release` (712-714), `ReadNext` and `TakeNext`
(716-723), `Unwind` for the deferred calls. Overflow of the context window leads
through `ReleaseToSummarize` or `ReleaseToCompact` to `Requeue`. `Recover` is the
recursion at 552, with its frame's entry in place, as in the code.

Abstractions. One session: both maps are keyed by it. Two appends to one slice may
share its backing array; the model copies. The retry counter is a map that
sessions write without a lock (recovery.go:73,81); with one session there is no
race to show. Which errors are recoverable is not decided: any failure of the
stream may be, a cancellation included, since the classification looks at the
text of the error. CancelAll is a Cancel for every key and a wait, which is in `Lifecycle`. The
key with the suffix `-summarize` that Cancel looks up (1205) is never set, so it
has no variable. `overlapped` and `clobbered` are history: two goroutines had
frames at once, and the queue was written from a stale read. They name the
precondition under which the code is right and what it takes to break it.

### AgentTurn

`mem` and `db` are the tool calls of the assistant message in memory and in the
database, `memFinish` and `dbFinish` its finish reason, `results` the results each
call has. `WriteCall` and `Update` are the pair every callback is made of: change
the message, then write it, and the write works or breaks. `ListMessages`,
`FinishCall`, `AnswerCall` and `FinishMessage` are the error path (566-663) write by
write. Two contexts: `genDone` (the session's cancel function) and `ctxDone` (the
caller's). Text and reasoning callbacks are reduced to their failure
(`StreamBreaks`). Fantasy is external: it calls OnToolCall before it runs a tool,
OnStepFinish after every tool of the step, and returns after the tools it started.

### Permission and PermissionGate

`Request` from its first check (`Begin`) over the mutex, the two policy checks, the
registration, the event and the wait to the two deferred calls; `Show`, `Answer`,
`Lookup`, `Send`, `Remember`, `ClearActive` are the UI goroutine from the event to
the end of Grant, GrantPersistent or Deny. `LoseEvent` is the fan-in's timeout and
the broker's full buffer. The four fields a persistent grant compares are one
value, `KeyOf`. `PermissionGate` says what a caller may rely on, without mutex,
channels or UI; `Gate == INSTANCE PermissionGate WITH ...` in `Permission` maps the
policies in force to `open`, the call past its checks to `asked` and the result to
`decision`.

### BackgroundShells

A shell is named by the call that starts it. `ListStale`, `RemoveStale`, `CheckLimit`
and `Start` are Cleanup and Start; `Complete`, `MoveToBackground` and `Interrupted`
are the bash tool's select; `Take`, `CancelShell` and `Killed` are Kill, for job_kill
and for a cancelled call; `Collect`, `Reset`, `CancelVictim` and `KillAllReturns` are
KillAll. Output is abstracted to whether the shell that holds it can be found. A
command in `Stubborn` ignores its cancellation.

`Find` is the lookup of job_kill and job_output with *any* ID. The IDs 001, 002, … are
counted through by the process, over all sessions, and start again with it, while a resumed
session remembers those of the process before: the model may name a shell whose ID it was
not told, and so one that a bash call still waits for. That call then finds its command
done and returns the interrupted output as its result. `ResultIsGenuine` excepts this case
by name (`KilledByJob`) and no other.

### SessionStore

A writer's name stands for what it writes, so that `cost` is the set of writers
charged and each field names its last writer; every writer writes once. `Get` and
`Save` are the read and the whole-row write with the writer's change in between;
`UpdateInPlace` is a single SQL statement. Init chooses which writers exist, at
most `MaxWriters` of them; the others count as done. `truth` is the row that atomic updates
would have given, `lostTo` records who passed over whose write. A step reads when
the tools of the step have returned, because fantasy calls OnStepFinish then.
Tokens are left out, and so are Create and Delete of rows.

### Multiplex

Execute, the workers, the aggregator and its notifying goroutine with channels of
the pool's size, the busy gate and the queue of the session agent, and the user, who may
cancel the session or the context. A worker's Run is cut at every operation on the two
maps, as in `SessionAgent`: `CheckBusy` (215), `ReadToAppend` and `Enqueue` (216-222),
`Register` or `LoadFails` (225-292), `ReadToDrain` and `Drain` (322-323), `TurnEnds`,
`TurnFails` or `TurnRecovers`, `ReadNext` and `TakeNext` or `Answer` (716-723), and `Unwind`,
once for each frame, for the deferred Del. So two workers may pass the gate together,
register over each other and delete each other's entries. `local[w]` is the queue that
worker `w` has read; `clobbered` is history: somebody wrote the queue although it was no
longer what he had read. Such a write can put back a prompt that a turn has taken, and then
the prompt runs twice; `NoIntentTwice` excepts it, and nothing else.

`expected` is the number of intents, up to `IntentBound`. An intent is its number, of a
text it is known whether there is any. Execute's five minutes may end at any moment. One
multiplexed prompt at a time, no other prompt of the user meanwhile, and no turn that
overflows its context window (`SessionAgent` has that).

### FileEdit

One path. `disk` is its content and modification time, `lastRead[s]` the second the
tracker has for session `s`, `versions` the rows of the history, `call[s]` the call
in progress with its phase, the content it read (`old`) and the one it wrote (`new`).
The order of the code is kept: `Replace`, `Write` and `CreateNewFile` look at the file
(os.Stat) and compare its time with the last read; `ReadFile` reads it, whatever it is by
then, and asks; `ReadFails` is the edit of a file that is gone meanwhile; `WriteFile` writes
after the answer, again whatever the file is by then; `Create`,
`ListFiles`, `StoreOld` and `StoreNew` are the history's queries, with the three
attempts of `createWithVersion` in `Free`; `RecordRead` closes the call. `Change` and
`Remove` are the user's editor or a command. `crlf` is kept because the edit tools
store the content with Unix line endings and the write tool as it is.

A call that fails its checks takes no step. What `failed` excludes from a property is
a call that was cancelled after its write or lost an insert: it is named, counted and
bounded (`MaxFaults`). `seen[s]` is history: the content the session last saw or wrote.
So is `checked` of a call: the last stamp that was given when it looked at the file, which
tells a change made before the check from one made after it, be it before the read or while
the user was asked. The check can only notice the former, and `LossNeedsRace` says that it
notices all of them but those of the second of the recorded read or before. Of the two reads
of the write tool the first (85) only compares; the second (100) is `ReadFile`.

### Lifecycle

Three brokers' worth of behaviour in one model: `mode` says whether the messages go to
the terminal UI, to the loop of `crusher run`, or whether the MCP broker, the only one
that is ever shut down, is looked at. `Publish`, `Subscribe` and `Unsubscribe` are the
broker at the grain of its mutex, with `BrokerShutdown` (the unlocked close of `done`)
apart from `CloseSubs`. `FanReceives`, `FanSends` and `FanDrops` are setupSubscriber;
`TuiReceives` is App.Subscribe; `ReaderPrints` and `ReaderReturns` are the select of
RunNonInteractive. Shutdown is `CancelAll` with its poll (`CancelAllReturns` may come
at any moment, as five seconds may), and then one step or two for each clean-up
function, in any order, since they run on goroutines of their own.

An event is a number: of an answer, how long it is. The turn is registered, works and
ends; it writes its last state when it ends, which is the write that a closed database
would miss.

### LanguageServers and Application

One server name: the manager's map has a key per name and starts every name in a
goroutine of its own. `clients` are the clients ever made, each with its state, the number
of its process, the version of the document it has open (0 for none) and the tool call
whose context it lives in; `servers` are the processes. `entry` is the map's client.
`StartServer`, `CheckAgain`, `New`, `Compare`, `Store`, `MarkStarting`, `Initialize` and
`BecomeReady` are startServer, cut where it reads or writes the map or a client;
`OpenFileOnDemand`, `DidOpen`, `NoteOpen`, `NextVersion`, `DidChange` and
`WaitForDiagnostics` are what a tool does to a document; `CloseAllFiles`, `Shutdown`,
`MarkStopped`, `Delete` and `Tell` are the end of a client, for a failed start, StopAll and
KillAll; `Recreate`, `Reinitialize` and `BecomeReadyAgain` are Restart. `Crash`, `Hang` and
a failed answer are faults, counted by `MaxFaults`; `EndContext` ends the turn of a tool.

`lost` and `overlapped` are history: how a process may have been lost, and whether two
goroutines were at work at once. Left out: diagnostics, references, root markers,
TrackConfigured. `Application` puts Lifecycle and LanguageServers beside each other:
Shutdown kills the servers in a clean-up task of its own, which touches neither a broker
nor the database.

### Terminal, ChatView, ChatList and Dialogs

`ChatView` is `UI.Update` for the events of messages and files, for loaded sessions and
for prompts. A session's messages are the first `written[s]` writes of `Script`: a
constant sequence of creations and updates of user, assistant and tool messages, and of
the messages of a sub-agent. `IsWrite` says which sequences runs make, and is what the
proof assumes of the script: a message has one role and is created once, by `Create`, before
its updates; the callbacks of a step update the message that PrepareStep created last
(agent.go:355), the error path the same one (582-659); tool calls are added and changed,
never removed; the finish of a step adds no call; a call is written before its tool runs
(426), and so before its result and the messages of its sub-agent. That is one run after
another in a session, which the agent's busy entry is for. `appendSessionMessage`, `updateSessionMessage` and
`handleChildSessionMessage` are the code's operators on the items; `setSessionMessages`
is the load. `cmds` are the commands bubbletea runs on goroutines of its own: a load,
a run of a prompt, the two that read `m.session` late. `lost` is history: an event was
dropped, and no load has come since. Left out: the pills, LSP starts, and the deletion of a
summary that was cancelled (agent.go:805).

`ChatList` is `list.List` with the chat's methods around it: one record, and one
operator per method, so that a handler is written as the code's composition of calls.
Items are told apart by their lines and by whether they can be selected. `Total` is
the sum that several loops of list.go compute, each with its own stopping condition;
those conditions are kept as they are, since they are what the properties are about.

`Dialogs` is the keyboard. `state`, `session`, `isCanceling` are the fields of `UI`,
`stack` is `m.dialog`: a sequence of records with the dialog's identifier, its own mode
(a key being verified, a session about to be deleted), what it is about (a provider, a
session, a request) and the token it was given. One action per key that changes any of
this: `OpenKey`, `OpenCommand`, `Close`, `SelectModel` and so on. What a key starts and
does not finish is a command, and `inbox` is the bag of all commands that run and
messages that wait: `Verify` takes `verifying` out and puts `verified` in, with no order
between what different commands return. `cancelTimerExpiredMsg` is told apart by
whether its Escape is the last one (`timer`, `oldTimer`), which the code cannot do.
`listed`, `busy`, `queued` and `request` are what the keyboard sees of the agents: a run
starts, asks, goes on with its queue, ends or fails. Sessions are deleted here, by
`ConfirmDelete`, `DeleteSession` and `SessionDeleted`.

`swept`, `unheard` and `torn` are history: a request's dialog was closed by the message
that belongs to another dialog, a verification's result went to another dialog, the
file picker wrote back a stack that had changed. Each is a way in which the code goes
wrong; the properties except it by name, and a behaviour ends with the first of them.
Left out: the text of the editor and of the filters, completions, the focus.

No part reads the state of another, so `Terminal` lets Init choose which one moves:
`Scroll`, `Update` and `Press` are a step of the list, of the view and of the keyboard.

### LoopDetection, Partition, TextEdits and Compaction

Operators, used by `Algorithms` on inputs that grow by one element, so that a
counterexample is a shortest one. `hasRepeatedToolCalls` is asked after every step, as
StopWhen does, and the turn takes no step when it says so.

`PartitionOf` has both ways of dividing a task. `partitionByFile` is a fold of the loop's
body. `partitionByModule` is what runWithMultiplex selects unless the repository has more
than fifty files and at most ten modules (multiplex_integration.go:66-71): it makes one
intent per module, ignores both limits, and ranges over a Go map, so that it gives a set of
partitions here, one for each order of the modules. `PartitionIsWhole` claims the target of
tokens for the first way only. A resource is its tokens and the module its path names.

`applyTextEdits` takes the characters of the file and returns the set of results it may
get, since the sort by position is not stable. A file with a CRLF anywhere is split at CRLF
only, any other at LF (`lineEnding`, `splitLines`); a new text is split at LF whatever the
file has (its `text` is the sequence of its lines, which may end in a carriage return); what
comes out is joined with the file's one ending. `Simultaneously` is the reference that
applies all edits to the document as it was, and shares nothing with the former. That the
lines are all of the file is claimed for every file. The rest is claimed under `OneEnding`:
in a file of both endings the lines of the server are not those of the client, and the CRLF
of a new text becomes CR CR LF in a CRLF file; both are inputs of the model, and not of the
claim.

`Compact` is
TruncateMessages and then HardPrune on a history of messages that have a role, a mark and
two estimates, whole and truncated (the estimator credits repetition, so that a truncated
text may count for more); `GhostCompact` finds the message at which the next turn starts.

## 3. Runs

| run | question | states | result |
|---|---|---|---|
| `session` | three prompts, a canceller, a recovery: ownership of the entry, reachability, conservation, nothing twice; three calls in three steps: the history after every failure and cancellation | 1.59 million | holds |
| `session_live` | a prompt, a Summarize, a canceller and ClearQueue, with an overflow and two recoveries: a cancelled stream stops in every phase; a cancelled turn ends | 181 thousand | holds |
| `session_recovery` | "Recovery succeeded - retry the operation" | | violated |
| `turn_caller` | "we use the parent context here because the genCtx has been cancelled" | | violated |
| `permission` | two calls of one key: consent, the abstract gate; every request returns | 54 thousand | holds |
| `shells` | two calls, a job_kill, a job_output, expiring jobs, KillAll, a command that ignores its cancellation | 1.49 million | holds |
| `store` | up to five writers, of all kinds but each at most once | 742 thousand | holds |
| `multiplex` | two workers, up to three intents, a recovery, cancellations and the timer; it returns | 1.08 million | holds |
| `files` | two sessions and an editor on one file, with a cancelled call or a failing insert | 6.26 million | holds |
| `application` | a turn, three brokers, full channels and a Shutdown at any point; Shutdown returns, the last state is shown; two tool calls, lsp_restart, StopAll, KillAll and a fault around one language server: no process is lost but in four ways, documents agree | 348 thousand | holds |
| `terminal` | the view of two sessions, the list under every handler, and the keyboard with its dialogs | 1.44 million | holds |
| `algorithms` | loop detector, partition, text edits and compaction against reference definitions | 132 thousand | holds |

The number of runs is kept to a dozen, so that all of them and the mutants can be
repeated in an hour or so; each property is checked in one run. More properties hold and
are not repeated every time. Each module's type invariant (`TypeOK`, `List!Typed`), and
`RunsRecorded` of `AgentTurn`, `QuietAfterStop` of `Multiplex` and `OwnWriteIsRead` of
`FileEdit`, are proved, and may be added as INVARIANTS to any configuration of their
module; so may `PruneFits` and `CompactNeverGrows` to `Algorithms.cfg`. Other
configurations have the rest:

* `Permission_more`: `UiNeverBlocks`, `DenialHolds`, `OneQuestion`, `GrantIsAnnounced` and
  `CancelledCallReturns` (all but the last are proved);
* `BackgroundShells_more`: `ReaderWakes` and `KillAllEnds`;
* `Application_live`: `CallsEnd` and `ShownAsReadyIsReady`, with fair servers;
* `Terminal_more`: `OffsetIsInside`, `ShownIsVisible`, `NoRowsWasted`, `SelectionIsShown`,
  `PromptRunsWhereTyped`, `OnboardingGoesOn` (the last two are proved).

### Divergences

What the repository says of the program and the program does not do. The first two are runs
of their own and findings in `PROJECT.json`; TLC finds the others with the
configuration named, in seconds.

| the repository says | what the model does | reproduce |
|---|---|---|
| "Recovery succeeded - retry the operation" (agent.go:548) | 552 recurses with the frame's own entry in place: the call is queued behind itself and the Run returns nothing | run `session_recovery` |
| "we use the parent context here because the genCtx has been cancelled" (agent.go:573) | the parent may be cancelled too (`crusher run` interrupted): List fails and the turn is left open | run `turn_caller` |
| "Second identical request should be automatically approved due to persistent permission" (permission_test.go:133) | permission.go:83 answers the call before 86 ff. remember the grant; the next call, woken by the unlock, asks again | `Permission_persistent.cfg`, `PersistentGrantHolds` |
| "accumulates the cost from a child session to its parent session" (coordinator.go:856) | two sub-agents that end together read the same row; one cost is lost at 868 | `SessionStore_cost.cfg`, `ParentCostAccumulates` |
| "Outputs de todos los workers se combinan" (MULTIPLEX_PLAN.md:8) | a Run that meets the busy session is queued and returns nothing; shared_agent.go:157 reports success with an empty text | `OutputsCombined` as the INVARIANT of `Multiplex.cfg` |
| "Log error but don't fail the operation" (edit.go:166) | 167 returns the error, after the file was written: no version is free, or the query fails | `FileEdit_error.cfg`, `HistoryDoesNotFail` |
| "AtBottom returns whether the list is showing the last item at the bottom" (list.go:78) | the loop gives up without subtracting the lines of the first item that are scrolled out: a list that shows its end is not at the bottom | `AtBottomIsEnd` as an INVARIANT of `Terminal_more.cfg` |
| "Capture session ID to avoid race with main goroutine updating m.session" (ui.go:2875) | the command six lines above (2869) and the one at session.go:148 read m.session when they run, after newSession may have cleared it | `CommandsFindTheSession` as a PROPERTY of `Terminal_more.cfg` |
| "The second press (before the timer expires) actually cancels the agent" (ui.go:2934) | Escape, Escape, Escape: the timer of the first one (2928 sends a message without an identity) disarms the third, and the fourth only arms again | `EscapeIsRemembered` as an INVARIANT of `Terminal.cfg` |
| "This must complete before closing the DB so agents can finish writing their state" (app.go:835) | CancelAll gives up after five seconds, and sees no turn that is about to register | `AgentsFinishBeforeClose` as an INVARIANT of `Application.cfg` |
| "MaxIntents is the maximum number of intents to create" (partition.go:27) | past the maximum every resource becomes an intent of its own | `IntentsAreBounded` as an INVARIANT of `Algorithms.cfg` |
| "RetainAlways messages are never truncated" (types.go:37) | truncate.go:67 protects tasks and the last two messages, not these | `RetainedIsKept` as an INVARIANT of `Algorithms.cfg` |
| "removes oldest messages from the middle when approaching token budget" (truncate.go:66) | the oldest that fit are kept, and the pass stops at the first that does not fit | `OldestGoFirst` as an INVARIANT of `Algorithms.cfg` |
| "Mark the compaction point - find first message that was actually kept" (agent.go:907) | protected messages come first in the result, and what is kept of those before them is not sent | `KeptIsSent` as an INVARIANT of `Algorithms.cfg` |
| "If another goroutine raced us, prefer the already-stored client." (manager.go:203) | the look at 205 and the Set at 213 are two operations | `FirstClientIsKept` as a PROPERTY of `Application.cfg` |
| "OpenFileOnDemand opens a file only if it's not already open." (client.go:487) | two calls look before either has opened it | `OpenedOnce` as an INVARIANT of `Application.cfg` |
| "Restart closes the current LSP client and creates a new one with the same configuration." (client.go:210) | the new one lives in the context of the tool call that once started the server, and fails when that call is over | `RestartFailsOnFaults` as an INVARIANT of `Application.cfg` |
| "If shutdown takes longer than closeTimeout, it falls back to Kill()." (client.go:135) | CloseAllFiles comes before the timer and waits for a server that reads nothing | `CloseEnds` as a PROPERTY of `Application_live.cfg` |

More properties are stated and refuted without a sentence of
the repository behind them; each can be added as an INVARIANT to the configuration named.

* `VersionsGrow` (`Application.cfg`, a PROPERTY): a change is numbered before it is sent, so that of
  two changes the later one may be sent first (client.go:360).

* `AnswerIsPrinted` (`Application.cfg`): RunNonInteractive's select (app.go:316) may take
  the result of the turn while the last text is still in the channel of the messages,
  and then the tail of the answer is not printed.
* `QuitCanBeDenied` (`Terminal.cfg`): while the first model is chosen, closing is
  refused for every dialog as long as that of the models is on the stack
  (ui.go:1249), the question whether to quit included: its "no" does nothing.
* `InitializedOnce` (`Terminal.cfg`): "yes" does not leave the view of the
  initialization before its prompt is sent, so a second key sends it again
  (onboarding.go:54).
* `BusyIsListed` (`Terminal.cfg`): whether a session is busy is asked when its deletion
  is asked for and not when it is confirmed (sessions.go:184), and a queued or new
  prompt may have started between the two.
* `ChatShowsSession` without its exception `Unsteady` (`Terminal.cfg`, with a script that
  cancels an answer that has nothing but a call): the event that adds the call removes the
  answer's own item, and no later update of the message brings it back (ui.go:1083-1105),
  so the line that says it was cancelled or has failed is seen only after a load, which
  extracts it from the message (messages.go:265). Text that an answer writes after its call
  is missed in the same way.
* `TokensAreOwn` (`Terminal.cfg` with `KeyProviders = {}` and `OAuthProviders = {o, q}`):
  the poll of a device flow goes on when its dialog is closed, and hands its token to
  the dialog in front, which may be that of another provider (oauth.go:170).

Three more ways to go wrong are behaviours of `Dialogs` that its properties except by
name: the message that closes the dialog of a fetched MCP prompt closes the dialog of a
permission request that came meanwhile (ui.go:557); the result of a verification meets
another dialog, and the one that verifies takes no key from then on
(api_key_input.go:127); the file picker changes the stack from a goroutine of its own
(ui.go:1516).

What holds in their stead is checked next to them: `OnlyFaultsAbandon` for a turn that
the user cancels, `RunsOnlyWithConsent` and `DenialHolds` for persistent grants,
`LossNeedsOverlap` for costs, `ResultIsWhole` for a multiplexed result,
`PromptsConserved` for a recovered call, `WritesCanBeUndone` for the history,
`NoRowsWasted` and `FollowShowsTheEnd` for the list, `PromptRunsWhereTyped` for a
prompt, `EscapeIsForgotten` for an Escape, `MissedNeedsTimeout` for Shutdown, `PartitionIsWhole` for the partition.

More comments are contradicted by behaviours that the models have, and the properties
are stated so that they hold with these behaviours. `BackgroundShells` has the job
limit's check apart from the insertion, so its map can outgrow `MaxJobs`
(background.go:16 calls it the maximum), and `Collect` apart from `Reset`, so a shell
that starts between them escapes KillAll (background.go:194 says it terminates all). In
`SessionAgent` a recursive Run works on after the deferred `Del` of another frame has
removed the entry, while the comment in Cancel says that it remains until the goroutine
fully completes. In `TextEdits`, edits of one start come in an unspecified order, a
removal that leaves an empty line takes the line with it (edit.go:142-145), a range
that ends past the last line keeps its end character for the last line, and of two line
endings in a file only one counts (edit.go:26-38). In `Compaction` the prune that is tried
when truncation saves nothing prefers marked and small messages, so that with messages of
14, 11 and 14 tokens and a threshold of 24 the next turn gets only the last one;
`RecentIsSent` promises the last two messages after a truncation only.

### Bounds

* `SessionAgent`: three prompts are the fewest where one goroutine runs, one has
  been queued and one is between its read and its write of the queue. One recovery
  (`MaxRecoveries`) shows the recursion. `session_live` has one actor of each kind, which
  interact only through the one entry and the one queue, and two recoveries, so that
  frames nest to three; one overflow (`MaxOverflow`) reaches Summarize from within Run
  while another goroutine calls it.
* `AgentTurn`: three steps, so that there are messages before the last two; three
  calls give one answered, one running and one open at the time of the error; two
  faults (`MaxFaults`) break a write of the stream and one of the error path.
* `Permission`: two calls of one session and key, for which a remembered grant, a
  late answer and a stale dialog of the other call all matter; one lost event
  (`MaxLost`). The policies change between any two steps. `Permission_persistent` adds
  a third call, of another session and on the allowlist.
* `BackgroundShells`: a limit of one job with two calls, so that the limit refuses
  a call and, when both pass the check, is exceeded; one of the commands is stubborn.
* `SessionStore`: one writer of each of the eight kinds, at most five of which write
  (`MaxWriters`): a loss has one saver and one victim, and what a step may be lapped by
  is one tool or one saver, so that every such pair occurs with three others around it.
  The proofs need no such bound.
* `Multiplex`: calls of one, two and three intents (`IntentBound`): three are more than
  the workers, so that a channel is full and a worker runs twice; one retry (`MaxRetries`).
  The user cancels calls of up to two intents (`MaxCancelled`), one per worker, which has
  every phase of both to cancel; a call of three may still end early by its five minutes,
  which stops the workers in the same way. The proofs have neither bound.
* `FileEdit`: two sessions are the fewest that number versions of one path; three
  changes (`MaxStamp`), so that a file that was read, changed by somebody and written
  is changed once more; two seconds of the clock (`MaxTime`), so that a change falls
  into the second of the read or into a later one; one session with a failing call.
* `Lifecycle`: subscriptions of one event and an events channel of two with three
  events, so that the publisher finds a full channel and the fan-in one too, and what
  comes next is delivered after a gap. The code's 64 and 100 only delay that.
* `ChatView`: two sessions, one with a prefix of the script and events under way while
  the other is loaded. The script has an assistant message with nothing but a call of an
  agent tool, the call's own session and result, and a last message, created empty, that ends the turn:
  every kind of item and of event. A channel of two (`ChannelSize`) with one drop between
  two loads, two commands at a time (`MaxCmds`); a turn ends when it has written all, a
  file event comes when the channel is empty.
* `ChatList`: three items of one or two lines and a gap of one in a viewport of up to
  three rows: first row inside of an item, inside of a gap, and at either end, with
  something hidden above, below or both.
* `Dialogs`: three dialogs (`MaxDialogs`): one in the way, one on top of it, and the
  one that comes. Two commands or messages at a time (`MaxMessages`), which is what it
  takes for their order to matter. Two permission requests (`MaxRequests`), so that the
  dialog of one that was withdrawn is there when the next is asked; a queue of one
  (`MaxQueued`), which an Escape clears; one provider with a key and one with a device
  flow; one session, so that there is one in view or none.
* `LanguageServers`: two tool calls, lsp_restart, StopAll and KillAll, of which two are
  at work at once (`MaxActors`): a client is lost when one of them acts between two steps
  of another. One fault (`MaxFaults`), so that a process crashes, hangs or refuses.
* `Algorithms`: a window of four with more than two repeats (ten and five in the code)
  and turns of six steps, so that the window slides twice; tokens below, at and above the
  limit of an intent, three modules, three intents and six resources; all pairs of edits of
  documents of up to four lines, with and without a last newline, with LF, CRLF or both; histories of up to six messages of
  eight kinds, so that some are protected, some fit and the pass stops before the others,
  at a threshold that three or four of them reach.

The invariants of `SessionAgent`, `AgentTurn`, `Permission`, `SessionStore`,
`BackgroundShells`, `Multiplex`, `FileEdit`, `Lifecycle`, `LanguageServers` and `Dialogs`
do not depend on these bounds: they are proved for any number of actors and any bounds, and
so are what `ChatList` promises of the follow mode and `Algorithms` of loops, partitions,
text edits and compactions (section 4).

Symmetry is used only where no liveness property is checked (`session`, `files`,
`terminal`, `SessionStore_cost`), and only over sets whose members no definition tells
apart.

`CHECK_DEADLOCK FALSE` is set for the modules whose actors all end or that the user may
leave alone (shells, session row, multiplex, files, application, terminal, algorithms) and that
have no waiting action. `SessionAgent` and `AgentTurn` have an explicit `Waiting` step,
so a state in which somebody is stuck is a deadlock and reported.

### Fairness

Weak fairness of a goroutine's own steps stands for the Go scheduler. What else is
assumed, and why:

* `SessionAgent`: nothing of Cancel, and nothing of the provider but that it answers
  or fails; a stream may go on for ever, step after step, and `CancelStops` has to
  hold nevertheless.
* `AgentTurn`: a running tool returns. Its context is the cancelled one, and the
  tools that wait (permission, command, sub-agent) watch it, which is what
  `CancelledCallReturns` of `Permission` and of `BackgroundShells` show.
* `Permission`: strong fairness for `Lock`, since `sync.Mutex` hands itself to a waiter
  after a millisecond, and for `Show` and `Answer`: the user answers the dialog, which
  is what the service waits for. `EveryRequestReturns` is claimed only when no event
  was lost: `requestMu.Lock` watches no context, so a question that never reached the
  user holds up every other call until its run is cancelled.
* `BackgroundShells`: a command that was cancelled and does not ignore it ends. No
  other command has to.
* `Multiplex`: a turn ends or fails. Cancellation and the five minutes are not fair.
* `Lifecycle`: the fan-in, the UI's loop and Shutdown's own goroutines run when they
  can, and CancelAll's poll ends after five seconds. Nothing is assumed of the turn,
  which may not notice that it is cancelled, of the user, who may never quit, or of the
  goroutine of Subscribe, for which nobody waits.
* `LanguageServers` (`Application_live` only): every goroutine that can go on does, and a
  server that was asked answers or fails, unless it hangs; a call that waits for a server
  that hangs is excepted by name in `CallsEnd`.

## 4. Proofs

The theorems hold for any finite or infinite sets of actors and any bounds; they
assume only the named `ASSUME`s of the modules, which TLC evaluates in every run.
Every invariant and action property that a passing run checks is stated by a theorem; the
runs show them on small instances, and liveness besides.

* **SessionAgent** (`TypeCorrect`, `BusyEntryIsLive`, `SoleRunIsReachable`,
  `PromptsAreConserved`, `NoPromptIsTwice`). `IInv == TypeOK /\ FrameInv /\ BusyEntryLive /\ SoleInv`.
  BusyEntryLive alone is not inductive. `FrameInv` says in which phases a goroutine has
  a frame of its own, that a Summarize called by Run runs on top of the frame of that
  Run, and that the queue is not empty where its head is taken. `SoleInv` says that,
  while nothing overlapped, one goroutine has all the frames and the entry is the
  innermost of them whenever it works. The actions are first sorted into the few
  *shapes* they have for the entry and the frames (`StepShape`), so that the invariant
  is preserved by a handful of cases instead of thirty. Conservation is an invariant
  relative to it: without a stale write, a step moves a prompt from one place to
  another and loses none (`SafeStep`), and puts it in one place only (`OneStep`, from
  `OneInv`: the queue has no call twice, and none that a goroutine runs or may put back).
* **AgentTurn** (`TurnTypeCorrect`, `HistoryIsClosed`, `CallsAreAnsweredOnce`,
  `RunsAreRecorded`, `CancelsLeaveNothingOpen`). That a closed turn is well formed
  follows from what holds on the way: the calls of earlier messages are closed
  (`EarlierInv`), a call of this one has at most one result and none before its input
  (`MineInv`), a running call is recorded and has no result (`RunningInv`), the database
  has what the memory has until the stream fails (`StreamInv`), a finished step is closed
  (`BetweenInv`), every message but the last says how it ended (`FinishInv`), and the
  error path is done with the calls it has left behind (`CloseInv`). One lemma per
  part, one step per action. The proofs share the module of `SessionAgent`; that each
  behaviour of `Agent` is one of both parts is `AgentIsItsParts`.
* **Permission** (`TypeCorrect`, `OneQuestionAtATime`, `ConsentIsNeeded`, `DenialIsFinal`,
  `UiIsNotBlocked`, `GrantsAreAnnounced`, `ImplementsGate`). `MutexInv` ties the phases
  to the mutex, `PhaseInv` the phases to pending entries and results, `ShownInv` says
  that a request is in one place on its way to the user (event, dialog or call) and
  once only, `AnswerInv` what a filled channel means, `OutcomeInv` what a result
  means. ShownInv is what makes the UI's send safe: nobody answers twice.
  `ImplementsGate` maps every step to a step of `PermissionGate` or a stutter.
* **SessionStore** (`TypeCorrect`, `LossesHaveACulprit`, `StepsSurviveTheirTurn`,
  `SummariesResolve`). The lag of the row behind `truth` is explained only together with
  the lag of every copy that is still to be saved (`CopyLag`), and a step is safe
  because no tool or step holds a copy older than it (`StepAlone`, `StepsNotLapped`).

* **FileEdit** (`TypeCorrect`, `UnseenLossIsARace`, `WritesCountAsReads`,
  `HistoryIsComplete`). `IInv == Typed /\ RowInv /\ CallInv`: every modification time
  that was given is no later than the clock; a session's rows have a latest one, and a
  call about to store has a number above them; until the call writes, a content that
  was there at its check is no later than the read that was compared with it (`AskInv`).
* **Lifecycle** (`ChannelsAreClosedOnce`, `OnlyTimeoutsMiss`, `DeliveryIsInOrder`). Three
  invariants that need nothing of each other. `SubInv`: a listed subscription is not
  closed, and one whose goroutine still waits is listed until Shutdown. `WaitInv`: the
  database is open until CancelAll has returned, and afterwards the turn has ended or was
  left behind. `OrderInv`: what was delivered, what is in the channels and what a
  goroutine holds between them make one sequence in order, none beyond what was
  published.
* **BackgroundShells** (`TypeCorrect`, `CommandsAreReachable`, `OutputsAreKept`,
  `ResultsAreGenuine`). A job that is old has ended, and one that was interrupted was
  cancelled; until KillAll begins, a running command is in the map, cancelled or being
  killed, and a command that was cancelled is that of a call that kills it itself or of one
  whose shell a job_kill names: so a cancelled call does not complete, and one that completes
  has its command's own result but in the second case.
* **Multiplex** (`TypeCorrect`, `ResultsAreWhole`, `IntentsAreRunOnce`, `StopIsQuiet`). `ChanInv`: the channel
  holds the last of the dispatched intents in order. `WorkInv`: workers are at different
  intents. `FrameInv`: a busy session has a worker with a frame, and a worker does not rest
  while a deferred Del is due, which is all that is left of the busy gate when frames remove
  each other's entries, and enough for the session to be free after Stop. `ResultsInv`:
  the results collected and in the channel are of different intents, none of which a
  worker still has. That as many different intents as there are intents are all of them
  is the pigeonhole lemma `DistinctAreAll`. `RunsUnclobbered`: until the queue is written
  from a stale read, an intent waits in the channel, waits in the queue or is one worker's
  (`PlaceInv`), and where a turn for it is still to come it had no more turns than
  recoveries (`CountInv`). It does not need the gate: two turns may overlap, and still no
  prompt is in two places.

* **LanguageServers** (`ServersInvariant`, `ServersCanBeReached`, `OpenDocumentsAgree`, in
  `ApplicationProofs`). The properties name how goroutines may meet, and so does the
  invariant: `CrowdInv` says who may be at work beside whom, and each of the other parts
  what is true as long as nobody met, or no manager met another. A process that runs
  belongs to the client of the map or to one in somebody's hands (`ReachInv`), a client
  that a goroutine has made and not yet stored is nobody else's (`UnsharedInv`), the
  process of a client is its own (`DistinctInv`), whoever has ended a client's process is
  about to take it out of the map (`EntryInv`, `DownInv`, `SoleInv`). `OpenInv` and
  `OnceInv` follow a document between the client's note and the server. Most steps are
  summarised by their effect (`Quiet`, or one of about fifteen named changes of a client,
  a process or the map), so that there is one lemma per part and effect and not one per
  part and action.
* **Dialogs** (`RequestsAreShown`, `VerificationsAreAnswered`, `EscapesAreForgotten`,
  `ModelsCanBeChosen`, in `TerminalProofs`). The stack has no dialog twice, so that it can be
  seen as a set: opening adds a member, closing removes one (lemmas about `CloseDialog` and
  `OpenDialog`). `LastInv` says that the request that waits is the newest one; without it
  the dialog of an earlier one could hide that the event of the last is gone. `KindsInv`
  ties a dialog to what it may be about, `OnboardingInv` keeps one of three dialogs on the
  stack while there is no model. Steps that neither open nor close the dialog of a request,
  nor verify, are `Calm` and need one lemma together.
* **ChatList** (`EndIsFollowed`). The invariant `Shape` says only that the list's record is
  one. Each handler that may add rows or change the window ends, when the chat follows, with
  `ScrollToBottom`; the proof computes the offset it leaves from sums of lines. That the sums
  exist is shown once, by the least counterexample.
* **ChatView** (`ChatIsTheSession`, `PromptsStay`). The chat that events build is the one a
  load builds, for every script of writes. One law carries it (`SetStep`): a load of `n`
  writes, followed by the event of the next, is a load of `n + 1`. It is shown by kinds of
  writes: a result or a message of a sub-agent changes links, a creation appends, an update
  changes the items of the last message, which are the last of the chat.

  The hard case is a load that has read writes whose events still come: the chat goes back
  to an older version of a message, and forward again. `Like(X, s, v, j)` says what `X` is
  when the load read `v` writes and the events of the first `j` are handled: every item is
  the loaded one, or as write `j` left it; and a message that the `v`-th version hides may be
  back, at the end. It holds after the load, each old event keeps it, and for `j = v` the chat
  is the loaded one. `QueueInv` ties this to the channel: while no event was dropped, it has
  the writes of each session from some `j` on, in their order, and the chat in view is like a
  load, of `j` writes or more, that has seen the first `j`. A load that finds the channel empty
  starts afresh. `ChatTypes` says that the chat has items of its session and none twice, which
  needs no queue: it holds when events are lost, too. Both are inductive together.

  A command keeps the session for which it was made (`CommandsInv`).
* **Algorithms** (`LoopsAreSeen`, `PartitionsAreWhole`, `RecentMessagesAreSent`,
  `EditsComeAtOnce`, in
  `MultiplexProofs`: the partition is what the supervisor begins with). They hold for every
  sequence of inputs and every value of the limits. A window of the steps with a signature
  too often is the last one when its last step arrives. A fold over a sequence is a
  function of its prefixes, whose existence is the lemma `Recursion`; the result then is the
  last state of a *run* of the fold, about which an invariant is shown by the least prefix
  that breaks it: for the partition, that intents and pending resources are together the
  resources so far, and that a total over the target has one resource (`PartInv`), or that
  the map has of every module the resources so far (`MapInv`); for the compaction, that the pass has gathered the protected messages, whole and in order, and
  goes on behind them (`Gathered`, `Continues`).

  That edits come to what they are when all are made at once (`EditsComeAtOnce`) holds for any
  file of one line ending, any texts without a carriage return and any number of edits; the
  hypothesis is `OneEnding` in the property itself, and that the lines are all of the file
  (`SplitDocument`) needs none. `EditsInv` says that the edits refer to positions of
  the document. The lines of such a file have no character of an ending, so that its text
  may be thought of with LF and rendered with the file's ending at the end. The proof works on the flat text: `Made(p, D)` is what the text becomes when
  the edits of `D` are made at once, a sequence of *cells*, one for each place, with the new
  texts of the place and its character unless that is removed. When all edits of `D` start
  behind the end of edit `i` (`AllAfter`; the order of the sort and that none overlap give it,
  `LastFirst`, `DoneAre`), then `Made(p, D \cup {i})` is `Made(p, D)` with one part replaced
  (`MadeBy`). On the side of the code one edit of the lines replaces the same part of their
  text (`EditText`, over `OneLine`, `SeveralLines` and the ends of the document), provided that
  the lines up to the end of the edit are still those of the document (`Agrees`, which edits
  behind it preserve), and that the edit does not leave a line empty: such a line goes with its
  newline, which no simultaneous edit says, and so the property names it (`Empties`, equal to
  what the code sees by `EmptiedIs`). The steps of the loop are a run (`StepsGo`), and at its
  end the newline is put back (`EndsIs`, `EndedIs`). Which of the orders the unstable sort
  chose is not used, only that it sorts (`Sortings`).

Induction: the library's theorems about it take an operator as a parameter, and the
installed provers cannot instantiate them. Where a proof needs it, it takes the least
number at which a fact fails, which exists since `<` is well-founded
(`NatLessThanWellFounded`), and each fold has lemmas of its own.

Only model-checked:

* every liveness property: the prover reasons neither about fairness nor about ENABLED;
* `PruneFits` and `CompactNeverGrows`, about sums over what several folds keep;
* the other properties of the list in `Terminal_more`, each of which depends on a loop of
  its own over the lines.

## 5. Not modelled, and the plan

What is left out for good: rendering, formatting, prompts and templates, provider
options, OAuth exchanges, the shell interpreter, the LSP and MCP protocols (libraries),
reading of configuration. They are sequential or external, and make up most of the
lines: styles, tool renderers, layout, option tables, debug output.

Left out because the code makes no promise there that a model could test; the facts
follow from reading two lines that hold no lock:

* *MCP clients* (`agent/tools/mcp/init.go`): a renewal overwrites the dead session without
  closing it, two renewals leak one of theirs, a renewal undoes a `DisableSingle` that came
  during its connect, and the renewed session lives in the context of the tool call.

Parts of modelled components that are left out: Create, CreateTaskSession and Delete of
session rows; the classification of errors by their text and the circuit breaker's
counters; the estimate of a text's tokens and the truncation of tool outputs; the editor's
text and completions of the UI; `csync`'s `GetOrSet`, `LazySlice` and `VersionedMap`.

Next, in this order:

1. Proofs of the list's offset (`OffsetIsInside`) and of what a compaction keeps (`PruneFits`, `CompactNeverGrows`).
2. Recovery and restart: the classification and the strategies over `AgentTurn`'s history,
   with its closedness as the property of what a restart finds.
3. Session rows: Create and Delete in `SessionStore`.
4. `Coordinator`: the 401 refresh with its second run and the fallback after a failed
   multiplexed execution, over an abstract agent: a prompt is recorded once.
5. A *session* that executes every submitted prompt at most once and in order as an
   abstract specification (implemented by `SessionAgent` while nothing is clobbered), and a
   *job table* (implemented by `BackgroundShells` outside KillAll).

## 6. Running

    tlc -workers 2 -config Agent.cfg MCAgent
    tlc -workers 2 -config Terminal.cfg MCTerminal
    tlapm SessionAgentProofs.tla

Each run ends within four minutes on two cores. The proofs take seconds to a minute, but for
`SessionAgentProofs` and `ApplicationProofs` (about three minutes each), `MultiplexProofs`
and `TerminalProofs` (about twenty minutes each).

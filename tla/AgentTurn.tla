----------------------------- MODULE AgentTurn -----------------------------
(***************************************************************************)
(* internal/agent/agent.go: the transcript of one Run, from the first      *)
(* PrepareStep to the return.  SessionAgent has the scheduling around it.  *)
(*                                                                         *)
(* The callbacks change the assistant message of the step in memory, then  *)
(* write it with messages.Update; a write fails when its context is        *)
(* cancelled or when the database does.  When the stream ends in an error, *)
(* the code after it closes the tool calls the stream left open, because   *)
(* a provider rejects a history with a tool call that has no result.       *)
(*                                                                         *)
(* fantasy's Stream is external: it calls back in the order src relies on, *)
(* runs a tool after its OnToolCall, ends a step when every tool call has  *)
(* its input and its result, and returns after the tools it started.       *)
(***************************************************************************)
EXTENDS Naturals

CONSTANTS
    Calls,       \* tool calls the model may make in the turn
    MaxSteps,    \* bound: steps of the stream
    MaxFaults,   \* bound: database operations that fail
    CallerCancels,  \* ctx can be cancelled: it is the one SIGINT cancels (crush run),
                 \* or that of the tool call which runs a sub-agent
    RecoveryEnabled

\* What Agent assumes of them.
TurnAssumption ==
    /\ MaxSteps \in Nat \ {0}
    /\ MaxFaults \in Nat
    /\ CallerCancels \in BOOLEAN
    /\ RecoveryEnabled \in BOOLEAN

VARIABLES
    pc,          \* where Run is
    step,        \* assistant messages created; currentAssistant is the last, nil at 0
    mine,        \* the tool calls of currentAssistant
    mem,         \* each tool call in memory: none, open or finished
    db,          \* each tool call in the database
    memFinish,   \* the finish reason of currentAssistant in memory
    dbFinish,    \* the finish reason of each assistant message in the database
    results,     \* how many tool results the database has for each call
    running,     \* the calls whose tool executes
    err,         \* the error the stream ends with
    genDone,     \* genCtx is cancelled
    ctxDone,     \* ctx, the parent of genCtx, is cancelled
    faults,      \* database operations that have failed
    listed,      \* error path: the calls that had a result when it listed them
    todo,        \* error path: the calls still to close
    outcome      \* how Run returned

message  == <<step, mine, mem, db, memFinish, dbFinish>>
contexts == <<genDone, ctxDone>>
handler  == <<listed, todo>>
vars     == <<pc, step, mine, mem, db, memFinish, dbFinish, results, running, err,
              genDone, ctxDone, faults, listed, todo, outcome>>

Reasons == {"end_turn", "tool_use", "canceled", "permission_denied", "error"}

TypeOK ==
    /\ pc \in {"prepare", "stream", "failing", "decide", "error", "close", "done"}
    /\ step \in 0..MaxSteps
    /\ mine \subseteq Calls
    /\ mem \in [Calls -> {"none", "open", "finished"}]
    /\ db \in [Calls -> {"none", "open", "finished"}]
    /\ memFinish \in Reasons \cup {"none"}
    /\ dbFinish \in [1..MaxSteps -> Reasons \cup {"none"}]
    /\ results \in [Calls -> Nat]
    /\ running \subseteq Calls
    /\ err \in {"none", "canceled", "denied", "other"}
    /\ genDone \in BOOLEAN
    /\ ctxDone \in BOOLEAN
    /\ faults \in 0..MaxFaults
    /\ listed \subseteq Calls
    /\ todo \subseteq Calls
    /\ outcome \in {"none", "completed", "recovered", "closed", "abandoned"}

Init ==
    /\ pc = "prepare"
    /\ step = 0
    /\ mine = {}
    /\ mem = [c \in Calls |-> "none"]
    /\ db = [c \in Calls |-> "none"]
    /\ memFinish = "none"
    /\ dbFinish = [i \in 1..MaxSteps |-> "none"]
    /\ results = [c \in Calls |-> 0]
    /\ running = {}
    /\ err = "none"
    /\ genDone = FALSE
    /\ ctxDone = FALSE
    /\ faults = 0
    /\ listed = {}
    /\ todo = {}
    /\ outcome = "none"

-----------------------------------------------------------------------------
(* The database. *)

\* An operation under a context that is not done succeeds ...
Works(done) == ~done /\ UNCHANGED faults
\* ... unless the database fails; under a cancelled context it always fails.
Breaks(done) ==
    \/ done /\ UNCHANGED faults
    \/ faults < MaxFaults /\ faults' = faults + 1

\* messages.Update(ctx, *currentAssistant), when it works.
Update ==
    /\ db' = [c \in Calls |-> IF c \in mine' THEN mem'[c] ELSE db[c]]
    /\ dbFinish' = [dbFinish EXCEPT ![step] = memFinish']

\* The stream stops with e, unless it is stopping with an error already.
FailWith(e) ==
    /\ err' = IF err = "none" THEN e ELSE err
    /\ pc' = "failing"

\* The error of an operation under genCtx that did not work.
GenError == IF genDone THEN "canceled" ELSE "other"

-----------------------------------------------------------------------------
(* The callbacks of the stream. *)

\* Mutant of Prepare: it tries again while the message cannot be created.
PrepareRetries ==
    /\ pc = "prepare"
    /\ step < MaxSteps
    /\ \/ /\ Works(genDone)
          /\ step' = step + 1
          /\ mine' = {}
          /\ memFinish' = "none"
          /\ pc' = "stream"
       \/ Breaks(genDone) /\ UNCHANGED <<step, mine, memFinish, pc>>
    /\ UNCHANGED <<mem, db, dbFinish, results, running, err, contexts, handler, outcome>>

\* PrepareStep creates the assistant message of the step.
Prepare ==
    /\ pc = "prepare"
    /\ step < MaxSteps
    /\ \/ /\ Works(genDone)
          /\ step' = step + 1
          /\ mine' = {}
          /\ memFinish' = "none"
          /\ pc' = "stream"
          /\ UNCHANGED err
       \/ /\ Breaks(genDone)
          /\ FailWith(GenError)
          /\ UNCHANGED <<step, mine, memFinish>>
    /\ UNCHANGED <<mem, db, dbFinish, results, running, contexts, handler, outcome>>

\* A callback that changes the tool call c of currentAssistant to state s and
\* updates the message under genCtx.
WriteCall(c, s) ==
    /\ mine' = mine \cup {c}
    /\ mem' = [mem EXCEPT ![c] = s]
    /\ UNCHANGED memFinish
    /\ \/ Works(genDone) /\ Update /\ UNCHANGED <<pc, err>>
       \/ Breaks(genDone) /\ FailWith(GenError) /\ UNCHANGED <<db, dbFinish>>

\* OnToolInputStart: the tool call is added with Finished: false.
ToolInputStart(c) ==
    /\ pc = "stream"
    /\ mem[c] = "none"
    /\ WriteCall(c, "open")
    /\ UNCHANGED <<step, results, running, contexts, handler, outcome>>

\* OnToolCall: the tool call replaces it, or is added, with Finished: true; then
\* the tool runs.
ToolCall(c) ==
    /\ pc = "stream"
    /\ mem[c] = "none" \/ (c \in mine /\ mem[c] = "open")
    /\ WriteCall(c, "finished")
    /\ running' = IF pc' = "stream" THEN running \cup {c} ELSE running
    /\ UNCHANGED <<step, results, contexts, handler, outcome>>

\* OnToolResult: the tool's answer becomes a message of its own.
ToolResult(c) ==
    /\ pc \in {"stream", "failing"}
    /\ c \in running
    /\ running' = running \ {c}
    /\ \/ Works(genDone) /\ results' = [results EXCEPT ![c] = @ + 1] /\ UNCHANGED <<pc, err>>
       \/ Breaks(genDone) /\ FailWith(GenError) /\ UNCHANGED results
    /\ UNCHANGED <<message, contexts, handler, outcome>>

\* The tool returns ErrorPermissionDenied, which stops the stream.
ToolDenied(c) ==
    /\ pc \in {"stream", "failing"}
    /\ c \in running
    /\ running' = running \ {c}
    /\ FailWith("denied")
    /\ UNCHANGED <<message, results, contexts, faults, handler, outcome>>

\* The provider fails, or the stream notices that genCtx is cancelled.
StreamBreaks ==
    /\ pc = "stream"
    /\ \/ FailWith("other")
       \/ genDone /\ FailWith("canceled")
    /\ UNCHANGED <<message, results, running, contexts, faults, handler, outcome>>

\* OnStepFinish: the finish reason is set, the session's usage is saved under
\* ctx, and the message is updated under genCtx (done whenever ctx is).
StepFinish ==
    /\ pc = "stream"
    /\ running = {}
    /\ \A c \in mine : mem[c] = "finished"
    /\ memFinish' = IF mine = {} THEN "end_turn" ELSE "tool_use"
    /\ UNCHANGED <<mine, mem>>
    /\ \/ /\ Works(genDone)
          /\ Update
          /\ pc' = "decide"
          /\ UNCHANGED err
       \/ /\ Breaks(genDone)
          /\ FailWith(GenError)
          /\ UNCHANGED <<db, dbFinish>>
    /\ UNCHANGED <<step, results, running, contexts, handler, outcome>>

\* The stream goes on with the tool results, or ends: no tool was called, or a
\* StopWhen condition holds.
NextStep ==
    /\ pc = "decide"
    /\ mine # {}
    /\ step < MaxSteps
    /\ pc' = "prepare"
    /\ UNCHANGED <<message, results, running, err, contexts, faults, handler, outcome>>

Complete ==
    /\ pc = "decide"
    /\ pc' = "done"
    /\ outcome' = "completed"
    /\ UNCHANGED <<message, results, running, err, contexts, faults, handler>>

-----------------------------------------------------------------------------
(* if err != nil *)

\* Stream returns its error once its tools have returned.
StreamReturns ==
    /\ pc = "failing"
    /\ running = {}
    /\ pc' = "error"
    /\ UNCHANGED <<message, results, running, err, contexts, faults, handler, outcome>>

Return(o) == pc' = "done" /\ outcome' = o

\* AttemptRecovery succeeds and Run calls itself: the transcript stays as it is.
Recovered ==
    /\ pc = "error"
    /\ RecoveryEnabled
    /\ err # "denied"
    /\ Return("recovered")
    /\ UNCHANGED <<message, results, running, err, contexts, faults, handler>>

\* Mutant of ListMessages: only the unfinished tool calls are closed.
ListMessagesOpen ==
    /\ pc = "error"
    /\ \/ step = 0 /\ Return("closed") /\ UNCHANGED <<faults, handler>>
       \/ step > 0 /\ Breaks(ctxDone) /\ Return("abandoned") /\ UNCHANGED handler
       \/ /\ step > 0
          /\ Works(ctxDone)
          /\ listed' = {c \in Calls : results[c] > 0}
          /\ todo' = {c \in mine : mem[c] = "open"}
          /\ pc' = "close"
          /\ UNCHANGED outcome
    /\ UNCHANGED <<message, results, running, err, contexts>>

\* Mutant of ListMessages: it lists under genCtx.
ListMessagesGen ==
    /\ pc = "error"
    /\ \/ step = 0 /\ Return("closed") /\ UNCHANGED <<faults, handler>>
       \/ step > 0 /\ Breaks(genDone) /\ Return("abandoned") /\ UNCHANGED handler
       \/ /\ step > 0
          /\ Works(genDone)
          /\ listed' = {c \in Calls : results[c] > 0}
          /\ todo' = mine
          /\ pc' = "close"
          /\ UNCHANGED outcome
    /\ UNCHANGED <<message, results, running, err, contexts>>

\* messages.List(ctx, currentAssistant.SessionID); nothing to close without a
\* currentAssistant.
ListMessages ==
    /\ pc = "error"
    /\ \/ step = 0 /\ Return("closed") /\ UNCHANGED <<faults, handler>>
       \/ step > 0 /\ Breaks(ctxDone) /\ Return("abandoned") /\ UNCHANGED handler
       \/ /\ step > 0
          /\ Works(ctxDone)
          /\ listed' = {c \in Calls : results[c] > 0}
          /\ todo' = mine
          /\ pc' = "close"
          /\ UNCHANGED outcome
    /\ UNCHANGED <<message, results, running, err, contexts>>

\* if !tc.Finished: the call is finished and the message updated.
FinishCall(c) ==
    /\ pc = "close"
    /\ c \in todo
    /\ mem[c] = "open"
    /\ mem' = [mem EXCEPT ![c] = "finished"]
    /\ UNCHANGED <<mine, memFinish>>
    /\ \/ Works(ctxDone) /\ Update /\ UNCHANGED <<pc, outcome>>
       \/ Breaks(ctxDone) /\ Return("abandoned") /\ UNCHANGED <<db, dbFinish>>
    /\ UNCHANGED <<step, results, running, err, contexts, handler>>

\* Mutant of AnswerCall: it does not look for a result the tool left.
AnswerCallAlways(c) ==
    /\ pc = "close"
    /\ c \in todo
    /\ mem[c] = "finished"
    /\ \/ /\ Works(ctxDone)
          /\ results' = [results EXCEPT ![c] = @ + 1]
          /\ todo' = todo \ {c}
          /\ UNCHANGED <<pc, outcome>>
       \/ Breaks(ctxDone) /\ Return("abandoned") /\ UNCHANGED <<results, todo>>
    /\ UNCHANGED <<message, running, err, contexts, listed>>

\* if !found: a tool result that says what happened.
AnswerCall(c) ==
    /\ pc = "close"
    /\ c \in todo
    /\ mem[c] = "finished"
    /\ \/ c \in listed /\ todo' = todo \ {c} /\ UNCHANGED <<results, faults, pc, outcome>>
       \/ /\ c \notin listed
          /\ Works(ctxDone)
          /\ results' = [results EXCEPT ![c] = @ + 1]
          /\ todo' = todo \ {c}
          /\ UNCHANGED <<pc, outcome>>
       \/ /\ c \notin listed
          /\ Breaks(ctxDone)
          /\ Return("abandoned")
          /\ UNCHANGED <<results, todo>>
    /\ UNCHANGED <<message, running, err, contexts, listed>>

\* currentAssistant.AddFinish and the last update.
FinishMessage ==
    /\ pc = "close"
    /\ todo = {}
    /\ memFinish' = CASE err = "canceled" -> "canceled"
                      [] err = "denied" -> "permission_denied"
                      [] OTHER -> "error"
    /\ UNCHANGED <<mine, mem>>
    /\ \/ Works(ctxDone) /\ Update /\ Return("closed")
       \/ Breaks(ctxDone) /\ Return("abandoned") /\ UNCHANGED <<db, dbFinish>>
    /\ UNCHANGED <<step, results, running, err, contexts, handler>>

-----------------------------------------------------------------------------
\* The user cancels the session: genCtx is done.
Cancel ==
    /\ pc # "done"
    /\ ~genDone
    /\ genDone' = TRUE
    /\ UNCHANGED <<pc, message, results, running, err, ctxDone, faults, handler, outcome>>

\* Run's caller cancels: ctx is done, and genCtx, its child, with it.
CancelCaller ==
    /\ CallerCancels
    /\ pc # "done"
    /\ ~ctxDone
    /\ ctxDone' = TRUE
    /\ genDone' = TRUE
    /\ UNCHANGED <<pc, message, results, running, err, faults, handler, outcome>>

Run ==
    \/ Prepare \/ StreamBreaks \/ StepFinish \/ NextStep \/ Complete
    \/ \E c \in Calls : ToolInputStart(c) \/ ToolCall(c)
    \/ StreamReturns \/ Recovered \/ ListMessages \/ FinishMessage
    \/ \E c \in Calls : FinishCall(c) \/ AnswerCall(c)

Tool(c) == ToolResult(c) \/ ToolDenied(c)

Waiting == pc = "done" /\ UNCHANGED vars

Next == Run \/ (\E c \in Calls : Tool(c)) \/ Cancel \/ CancelCaller \/ Waiting

Spec == Init /\ [][Next]_vars

\* Run goes on, and a tool returns: its context is genCtx, and tools that wait
\* (a permission, a command, a sub-agent) watch it or have a timeout.
FairSpec == Spec /\ WF_vars(Run) /\ \A c \in Calls : WF_vars(Tool(c))

-----------------------------------------------------------------------------
(* Properties *)

\* What a provider accepts as a history: every tool call is complete and has
\* exactly one result, and every assistant message says how it ended.
WellFormed ==
    /\ \A c \in Calls : db[c] # "open"
    /\ \A c \in Calls : results[c] = IF db[c] = "finished" THEN 1 ELSE 0
    /\ \A i \in 1..step : dbFinish[i] # "none"

\* A turn that returned, and not through a recovery, has left a history the next
\* turn can use: whatever failed, in whichever callback, and in whatever order
\* the tools ended.
TurnIsClosed == outcome \in {"completed", "closed"} => WellFormed

\* No tool call is ever answered twice: neither by its tool and the error path,
\* nor by the error path of a turn whose tools had answered.
AnsweredOnce == \A c \in Calls : results[c] <= 1

\* A tool runs only for a call that is complete in the database, so that a
\* crash in between never leaves the effect of a call nobody recorded.
RunsRecorded == \A c \in running : db[c] = "finished"

\* The comment in the error path: it uses the parent context because genCtx has
\* been cancelled.  So a cancelled turn is closed like any other: only a failing
\* database keeps the error path from it.
CancelledTurnIsClosed == outcome = "abandoned" => faults > 0

\* Cancelling the session, at whatever point of the turn, leaves no history open:
\* the error path is cut short by a failing database or by its caller only.
OnlyFaultsAbandon == outcome = "abandoned" => faults > 0 \/ ctxDone

\* A cancelled turn ends.
CancelEndsTurn == genDone ~> pc = "done"
=============================================================================

---------------------------- MODULE SessionAgent ----------------------------
(***************************************************************************)
(* The scheduling core of internal/agent/agent.go: what sessionAgent does  *)
(* with its two maps, messageQueue and activeRequests, for ONE session     *)
(* (both maps are keyed by the session, so sessions do not interact here). *)
(*                                                                         *)
(* Every prompt is handed to Run by a goroutine of its own, as the UI and  *)
(* the coordinator do; a goroutine goes on with queued prompts by calling  *)
(* Run recursively, and the deferred calls of all its frames run when the  *)
(* innermost one returns.  Other goroutines call Summarize, Cancel and     *)
(* ClearQueue.  One map operation is atomic (csync.Map locks around it);   *)
(* a sequence of them is not, so each is a step of its own.                *)
(*                                                                         *)
(* The stream itself is reduced to its scheduling points: the start of a   *)
(* step, its end, success and failure.  Its messages are in AgentTurn.     *)
(***************************************************************************)
EXTENDS Naturals, Sequences, FiniteSets

CONSTANTS
    Prompts,          \* the calls submitted to the session; p's own goroutine is p
    Summarizers,      \* goroutines that call Summarize directly
    Cancellers,       \* goroutines that call Cancel once
    Clearers,         \* goroutines that call ClearQueue once
    RecoveryEnabled,  \* EnableCircuitBreaker
    MaxRecoveries,    \* maxCircuitBreakerRetries
    MaxOverflow       \* bound: how often the stream stops for the context window

ASSUME ActorsAssumption ==
    /\ Prompts \cap Summarizers = {}
    /\ Cancellers \cap Clearers = {}
    /\ (Prompts \cup Summarizers) \cap (Cancellers \cup Clearers) = {}
ASSUME BoundsAssumption ==
    /\ RecoveryEnabled \in BOOLEAN
    /\ MaxRecoveries \in Nat
    /\ MaxOverflow \in Nat

VARIABLES
    active,      \* activeRequests[session]: a context, or 0 when there is no entry
    queue,       \* messageQueue[session]; no entry and an empty slice are alike
    nextCtx,     \* the next context WithCancel will make: contexts are numbered
    cancelled,   \* the contexts of live frames whose cancel function was called
    pc,          \* where each goroutine is
    stack,       \* the contexts of each goroutine's pending frames, innermost first
    cur,         \* the call each goroutine's innermost Run was given
    local,       \* the queue a goroutine read and has not used yet
    more,        \* the last assistant message of the turn has tool calls
    target,      \* the cancel function a Canceller read
    persisted,   \* the prompts with a user message in the database
    retries,     \* circuitBreakerRetryCount[session]
    overflow,    \* how often the context window ran full
    \* what happened so far, for the properties only:
    dropped,     \* prompts removed by Cancel or ClearQueue, or lost with an error
    recovered,   \* prompts whose failure AttemptRecovery reported as recovered
    overlapped,  \* two goroutines have had frames at the same time
    clobbered    \* the queue was written from a value that was no longer in it

store   == <<persisted, retries, overflow>>
history == <<dropped, recovered, overlapped, clobbered>>
ctxVars == <<active, nextCtx, cancelled, stack>>
vars    == <<active, queue, nextCtx, cancelled, pc, stack, cur, local, more, target,
             persisted, retries, overflow, dropped, recovered, overlapped, clobbered>>

Runners == Prompts \cup Summarizers
Users   == Cancellers \cup Clearers
NoCtx   == 0
Items(s) == {s[i] : i \in DOMAIN s}
Top(r)  == Head(stack[r])

\* Inside agent.Stream or the error handling after it: the code that must be
\* cancellable and that still writes to the database.
Working == {"prepare", "drain", "persist", "stream", "fail", "sumStream"}

RunLabels == {"check", "enqueue", "enqueueSet", "load", "register", "prepare", "drain",
              "persist", "stream", "fail", "sumRelease", "sumCheck", "sumLoad",
              "sumRegister", "sumStream", "compact", "requeue", "requeueSet", "release",
              "next", "nextSet", "return", "done"}
UserLabels == {"lookup", "cancel", "count", "clear", "done"}
Labels     == RunLabels \cup UserLabels

TypeOK ==
    /\ active \in Nat
    /\ queue \in Seq(Prompts)
    /\ nextCtx \in Nat \ {0}
    /\ cancelled \in SUBSET Nat
    /\ pc \in [Runners \cup Users -> Labels]
    /\ stack \in [Runners -> Seq(Nat \ {0})]
    /\ cur \in [Prompts -> Prompts]
    /\ local \in [Prompts -> Seq(Prompts)]
    /\ more \in [Prompts -> BOOLEAN]
    /\ target \in [Cancellers -> Nat]
    /\ persisted \in SUBSET Prompts
    /\ retries \in 0..MaxRecoveries
    /\ overflow \in 0..MaxOverflow
    /\ dropped \in SUBSET Prompts
    /\ recovered \in SUBSET Prompts
    /\ overlapped \in BOOLEAN
    /\ clobbered \in BOOLEAN

Init ==
    /\ active = NoCtx
    /\ queue = <<>>
    /\ nextCtx = 1
    /\ cancelled = {}
    /\ pc = [g \in Runners \cup Users |->
                CASE g \in Prompts -> "check"
                  [] g \in Summarizers -> "sumCheck"
                  [] g \in Cancellers -> "lookup"
                  [] OTHER -> "count"]
    /\ stack = [r \in Runners |-> <<>>]
    /\ cur = [p \in Prompts |-> p]
    /\ local = [p \in Prompts |-> <<>>]
    /\ more = [p \in Prompts |-> FALSE]
    /\ target = [k \in Cancellers |-> NoCtx]
    /\ persisted = {}
    /\ retries = 0
    /\ overflow = 0
    /\ dropped = {}
    /\ recovered = {}
    /\ overlapped = FALSE
    /\ clobbered = FALSE

-----------------------------------------------------------------------------
Goto(g, l) == pc' = [pc EXCEPT ![g] = l]

\* context.WithCancel, activeRequests.Set and the deferred cancel and Del.
PushFrame(r) ==
    /\ active' = nextCtx
    /\ nextCtx' = nextCtx + 1
    /\ stack' = [stack EXCEPT ![r] = <<nextCtx>> \o @]
    /\ overlapped' = (overlapped \/ \E q \in Runners \ {r} : stack[q] # <<>>)
    /\ UNCHANGED cancelled

\* Mutant: the deferred Del is forgotten.
PopFrameKeepsEntry(r) ==
    /\ active' = active
    /\ cancelled' = cancelled \ {Top(r)}
    /\ stack' = [stack EXCEPT ![r] = Tail(@)]
    /\ UNCHANGED nextCtx

\* The deferred activeRequests.Del and cancel() of r's innermost frame.  Del
\* removes whatever entry the session has, r's or another goroutine's.
PopFrame(r) ==
    /\ active' = NoCtx
    /\ cancelled' = cancelled \ {Top(r)}
    /\ stack' = [stack EXCEPT ![r] = Tail(@)]
    /\ UNCHANGED nextCtx

\* r writes q to the queue it read into local[r].
WriteQueue(r, q) ==
    /\ queue' = q
    /\ clobbered' = (clobbered \/ queue # local[r])
    /\ local' = [local EXCEPT ![r] = <<>>]

-----------------------------------------------------------------------------
(* Run: the busy gate. *)

\* if a.IsSessionBusy(call.SessionID)
CheckBusy(p) ==
    /\ pc[p] = "check"
    /\ Goto(p, IF active # NoCtx THEN "enqueue" ELSE "load")
    /\ UNCHANGED <<ctxVars, queue, cur, local, more, target, store, history>>

\* existing, ok := a.messageQueue.Get; before an append: here, and where an
\* interrupted turn puts its own call back (requeue).
ReadToAppend(p) ==
    /\ pc[p] \in {"enqueue", "requeue"}
    /\ local' = [local EXCEPT ![p] = queue]
    /\ Goto(p, IF pc[p] = "enqueue" THEN "enqueueSet" ELSE "requeueSet")
    /\ UNCHANGED <<ctxVars, queue, cur, more, target, store, history>>

\* Mutant: the Del is deferred before the busy gate and runs for a queued call too.
EnqueueDelsEntry(p) ==
    /\ pc[p] = "enqueueSet"
    /\ WriteQueue(p, Append(local[p], cur[p]))
    /\ active' = NoCtx
    /\ Goto(p, "return")
    /\ UNCHANGED <<nextCtx, cancelled, stack, cur, more, target, store,
                   dropped, recovered, overlapped>>

\* a.messageQueue.Set(call.SessionID, append(existing, call)); return nil, nil
Enqueue(p) ==
    /\ pc[p] = "enqueueSet"
    /\ WriteQueue(p, Append(local[p], cur[p]))
    /\ Goto(p, "return")
    /\ UNCHANGED <<ctxVars, cur, more, target, store, dropped, recovered, overlapped>>

\* sessions.Get, getSessionMessages and createUserMessage succeed.
Load(p) ==
    /\ pc[p] = "load"
    /\ persisted' = persisted \cup {cur[p]}
    /\ Goto(p, "register")
    /\ UNCHANGED <<ctxVars, queue, cur, local, more, target, retries, overflow, history>>

\* One of them fails: Run returns the error before it registered anything.
LoadFails(p) ==
    /\ pc[p] = "load"
    /\ dropped' = dropped \cup {cur[p]}
    /\ Goto(p, "return")
    /\ UNCHANGED <<ctxVars, queue, cur, local, more, target, store,
                   recovered, overlapped, clobbered>>

\* genCtx, cancel := context.WithCancel(ctx); a.activeRequests.Set(...)
Register(p) ==
    /\ pc[p] = "register"
    /\ PushFrame(p)
    /\ Goto(p, "prepare")
    /\ UNCHANGED <<queue, cur, local, more, target, store, dropped, recovered, clobbered>>

-----------------------------------------------------------------------------
(* Run: the stream. *)

\* PrepareStep: queuedCalls, _ := a.messageQueue.Get
ReadToDrain(p) ==
    /\ pc[p] = "prepare"
    /\ local' = [local EXCEPT ![p] = queue]
    /\ Goto(p, "drain")
    /\ UNCHANGED <<ctxVars, queue, cur, more, target, store, history>>

\* PrepareStep: a.messageQueue.Del.  The calls read before stay in local.
Drain(p) ==
    /\ pc[p] = "drain"
    /\ queue' = <<>>
    /\ clobbered' = (clobbered \/ queue # local[p])
    /\ Goto(p, "persist")
    /\ UNCHANGED <<ctxVars, cur, local, more, target, store, dropped, recovered, overlapped>>

\* PrepareStep: a user message for each drained call, then the assistant message.
PersistDrained(p) ==
    /\ pc[p] = "persist"
    /\ Top(p) \notin cancelled
    /\ persisted' = persisted \cup Items(local[p])
    /\ local' = [local EXCEPT ![p] = <<>>]
    /\ Goto(p, "stream")
    /\ UNCHANGED <<ctxVars, queue, cur, more, target, retries, overflow, history>>

\* Mutant: a failing write is tried again, whatever the context.
PersistFailsRetries(p) ==
    /\ pc[p] = "persist"
    /\ local' = [local EXCEPT ![p] = <<>>]
    /\ dropped' = dropped \cup Items(local[p])
    /\ Goto(p, "prepare")
    /\ UNCHANGED <<ctxVars, queue, cur, more, target, store,
                   recovered, overlapped, clobbered>>

\* PrepareStep: the message of one of them cannot be created, because the context
\* is cancelled or the database fails; it and those after it are forgotten.
PersistFails(p) ==
    /\ pc[p] = "persist"
    /\ \E n \in 0..Len(local[p]) :
          /\ persisted' = persisted \cup {local[p][i] : i \in 1..n}
          /\ dropped' = dropped \cup {local[p][i] : i \in (n+1)..Len(local[p])}
    /\ local' = [local EXCEPT ![p] = <<>>]
    /\ Goto(p, "fail")
    /\ UNCHANGED <<ctxVars, queue, cur, more, target, retries, overflow,
                   recovered, overlapped, clobbered>>

\* OnStepFinish succeeds and no StopWhen condition holds: the tool results go
\* back to the model in a new step.
StepEnds(p) ==
    /\ pc[p] = "stream"
    /\ Top(p) \notin cancelled
    /\ Goto(p, "prepare")
    /\ UNCHANGED <<ctxVars, queue, cur, local, more, target, store, history>>

\* Stream returns without an error: the model ended its turn, or tool calls
\* were repeated too often.
StreamEnds(p) ==
    /\ pc[p] = "stream"
    /\ Top(p) \notin cancelled
    /\ Goto(p, "release")
    /\ UNCHANGED <<ctxVars, queue, cur, local, more, target, store, history>>

\* Stream returns without an error because the context window is nearly full:
\* shouldSummarize or shouldCompact.  The step may have ended with tool calls.
StreamOverflows(p) ==
    /\ pc[p] = "stream"
    /\ Top(p) \notin cancelled
    /\ overflow < MaxOverflow
    /\ overflow' = overflow + 1
    /\ \E calls \in BOOLEAN : more' = [more EXCEPT ![p] = calls]
    /\ \E how \in {"sumRelease", "compact"} : Goto(p, how)
    /\ UNCHANGED <<ctxVars, queue, cur, local, target, persisted, retries, history>>

\* Stream returns an error: the provider's, the database's, a tool's or the
\* cancelled context's.
StreamFails(p) ==
    /\ pc[p] = "stream"
    /\ Goto(p, "fail")
    /\ UNCHANGED <<ctxVars, queue, cur, local, more, target, store, history>>

\* AttemptRecovery reports success and Run calls itself with the same call,
\* while this frame's entry is still registered.
Recover(p) ==
    /\ pc[p] = "fail"
    /\ RecoveryEnabled
    /\ retries < MaxRecoveries
    /\ retries' = retries + 1
    /\ recovered' = recovered \cup {cur[p]}
    /\ Goto(p, "check")
    /\ UNCHANGED <<ctxVars, queue, cur, local, more, target, persisted, overflow,
                   dropped, overlapped, clobbered>>

\* CanRetry counts the attempt, but the recovery message cannot be created; the
\* error path follows and Run returns.
RecoveryFails(p) ==
    /\ pc[p] = "fail"
    /\ RecoveryEnabled
    /\ retries < MaxRecoveries
    /\ retries' = retries + 1
    /\ Goto(p, "return")
    /\ UNCHANGED <<ctxVars, queue, cur, local, more, target, persisted, overflow, history>>

\* No recovery: the turn's messages are closed and Run returns the error.  The
\* queue is left as it is.
FailTurn(p) ==
    /\ pc[p] = "fail"
    /\ Goto(p, "return")
    /\ UNCHANGED <<ctxVars, queue, cur, local, more, target, store, history>>

-----------------------------------------------------------------------------
(* Run: after the stream. *)

\* if shouldSummarize { a.activeRequests.Del; a.Summarize(genCtx, ...)
ReleaseToSummarize(p) ==
    /\ pc[p] = "sumRelease"
    /\ active' = NoCtx
    /\ Goto(p, "sumCheck")
    /\ UNCHANGED <<queue, nextCtx, cancelled, stack, cur, local, more, target, store, history>>

\* if shouldCompact { a.activeRequests.Del; a.GhostCompact(ctx, ...), whose
\* error is only logged.
ReleaseToCompact(p) ==
    /\ pc[p] = "compact"
    /\ active' = NoCtx
    /\ Goto(p, IF more[p] THEN "requeue" ELSE "release")
    /\ UNCHANGED <<queue, nextCtx, cancelled, stack, cur, local, more, target, store, history>>

\* "If the agent wasn't done...": the interrupted call is appended to the queue.
Requeue(p) ==
    /\ pc[p] = "requeueSet"
    /\ WriteQueue(p, Append(local[p], cur[p]))
    /\ Goto(p, "release")
    /\ UNCHANGED <<ctxVars, cur, more, target, store, dropped, recovered, overlapped>>

\* "Release active request before processing queued messages": Del, cancel().
Release(p) ==
    /\ pc[p] = "release"
    /\ active' = NoCtx
    /\ cancelled' = cancelled \cup {Top(p)}
    /\ more' = [more EXCEPT ![p] = FALSE]
    /\ Goto(p, "next")
    /\ UNCHANGED <<queue, nextCtx, stack, cur, local, target, store, history>>

\* queuedMessages, ok := a.messageQueue.Get; return when there are none.
ReadNext(p) ==
    /\ pc[p] = "next"
    /\ local' = [local EXCEPT ![p] = queue]
    /\ Goto(p, IF queue = <<>> THEN "return" ELSE "nextSet")
    /\ UNCHANGED <<ctxVars, queue, cur, more, target, store, history>>

\* Mutants: only the head is kept for the next Run and the tail is lost; the
\* head is not removed.
TakeNextDropsRest(p) ==
    /\ pc[p] = "nextSet"
    /\ WriteQueue(p, <<>>)
    /\ cur' = [cur EXCEPT ![p] = Head(local[p])]
    /\ Goto(p, "check")
    /\ UNCHANGED <<ctxVars, more, target, store, dropped, recovered, overlapped>>
TakeNextKeepsHead(p) ==
    /\ pc[p] = "nextSet"
    /\ WriteQueue(p, local[p])
    /\ cur' = [cur EXCEPT ![p] = Head(local[p])]
    /\ Goto(p, "check")
    /\ UNCHANGED <<ctxVars, more, target, store, dropped, recovered, overlapped>>

\* a.messageQueue.Set(..., queuedMessages[1:]); return a.Run(ctx, firstQueuedMessage)
TakeNext(p) ==
    /\ pc[p] = "nextSet"
    /\ WriteQueue(p, Tail(local[p]))
    /\ cur' = [cur EXCEPT ![p] = Head(local[p])]
    /\ Goto(p, "check")
    /\ UNCHANGED <<ctxVars, more, target, store, dropped, recovered, overlapped>>

\* Run has returned: the deferred calls of the innermost pending frame.
Unwind(p) ==
    /\ pc[p] = "return"
    /\ stack[p] # <<>>
    /\ PopFrame(p)
    /\ UNCHANGED <<queue, pc, cur, local, more, target, store, history>>

Return(p) ==
    /\ pc[p] = "return"
    /\ stack[p] = <<>>
    /\ Goto(p, "done")
    /\ UNCHANGED <<ctxVars, queue, cur, local, more, target, store, history>>

-----------------------------------------------------------------------------
(* Summarize: called by a goroutine of its own, or by Run with genCtx. *)

\* What the caller does when Summarize returned (err # nil, or nil).
Summarized(r, failed) ==
    Goto(r, IF r \notin Prompts \/ failed THEN "return"
            ELSE IF more[r] THEN "requeue" ELSE "release")

\* genCtx of the calling Run is cancelled: everything Summarize tries fails.
ParentCancelled(r) == stack[r] # <<>> /\ Top(r) \in cancelled

\* if a.IsSessionBusy(sessionID) { return ErrSessionBusy }
SummarizeCheckBusy(r) ==
    /\ pc[r] = "sumCheck"
    /\ IF active # NoCtx THEN Summarized(r, TRUE) ELSE Goto(r, "sumLoad")
    /\ UNCHANGED <<ctxVars, queue, cur, local, more, target, store, history>>

\* sessions.Get and getSessionMessages: there are messages, an error, or none.
SummarizeLoad(r) ==
    /\ pc[r] = "sumLoad"
    /\ \/ ~ParentCancelled(r) /\ Goto(r, "sumRegister")
       \/ Summarized(r, TRUE)
       \/ ~ParentCancelled(r) /\ persisted = {} /\ Summarized(r, FALSE)
    /\ UNCHANGED <<ctxVars, queue, cur, local, more, target, store, history>>

\* genCtx, cancel := context.WithCancel(ctx); a.activeRequests.Set(sessionID, cancel)
SummarizeRegister(r) ==
    /\ pc[r] = "sumRegister"
    /\ PushFrame(r)
    /\ Goto(r, "sumStream")
    /\ UNCHANGED <<queue, cur, local, more, target, store, dropped, recovered, clobbered>>

\* The summary is saved, or the user cancelled it and its message was deleted
\* (both return nil), or an error is returned; then the deferred cancel and Del.
SummarizeEnds(r) ==
    /\ pc[r] = "sumStream"
    /\ PopFrame(r)
    /\ \E failed \in BOOLEAN : Summarized(r, failed)
    /\ UNCHANGED <<queue, cur, local, more, target, store, history>>

-----------------------------------------------------------------------------
(* Cancel and ClearQueue. *)

\* cancel, ok := a.activeRequests.Get(sessionID)
CancelLookup(k) ==
    /\ pc[k] = "lookup"
    /\ target' = [target EXCEPT ![k] = active]
    /\ Goto(k, IF active # NoCtx THEN "cancel" ELSE "count")
    /\ UNCHANGED <<ctxVars, queue, cur, local, more, store, history>>

\* cancel(): without effect when the frame that made the context has returned.
CancelCall(k) ==
    /\ pc[k] = "cancel"
    /\ cancelled' = IF \E r \in Runners : target[k] \in Items(stack[r])
                    THEN cancelled \cup {target[k]} ELSE cancelled
    /\ Goto(k, "count")
    /\ UNCHANGED <<active, nextCtx, stack, queue, cur, local, more, target, store, history>>

\* if a.QueuedPrompts(sessionID) > 0
CountQueued(u) ==
    /\ pc[u] = "count"
    /\ Goto(u, IF queue # <<>> THEN "clear" ELSE "done")
    /\ UNCHANGED <<ctxVars, queue, cur, local, more, target, store, history>>

\* a.messageQueue.Del(sessionID)
ClearQueued(u) ==
    /\ pc[u] = "clear"
    /\ dropped' = dropped \cup Items(queue)
    /\ queue' = <<>>
    /\ Goto(u, "done")
    /\ UNCHANGED <<ctxVars, cur, local, more, target, store,
                   recovered, overlapped, clobbered>>

-----------------------------------------------------------------------------
SummarizeStep(r) ==
    \/ SummarizeCheckBusy(r) \/ SummarizeLoad(r)
    \/ SummarizeRegister(r)  \/ SummarizeEnds(r)

StreamStep(p) ==
    \/ ReadToDrain(p) \/ Drain(p) \/ PersistDrained(p) \/ PersistFails(p)
    \/ StepEnds(p) \/ StreamEnds(p) \/ StreamOverflows(p) \/ StreamFails(p)
    \/ Recover(p) \/ RecoveryFails(p) \/ FailTurn(p)

RunStep(p) ==
    \/ CheckBusy(p) \/ ReadToAppend(p) \/ Enqueue(p)
    \/ Load(p) \/ LoadFails(p) \/ Register(p)
    \/ StreamStep(p)
    \/ ReleaseToSummarize(p) \/ ReleaseToCompact(p) \/ Requeue(p)
    \/ Release(p) \/ ReadNext(p) \/ TakeNext(p)

Ending(r) == Unwind(r) \/ Return(r)

UserStep(u) == CountQueued(u) \/ ClearQueued(u)
CancelStep(k) == CancelLookup(k) \/ CancelCall(k)

\* Every goroutine has returned; the session waits for the next prompt.
Quiescent == \A g \in Runners \cup Users : pc[g] = "done"
Waiting == Quiescent /\ UNCHANGED vars

Next ==
    \/ \E p \in Prompts : RunStep(p)
    \/ \E r \in Runners : SummarizeStep(r) \/ Ending(r)
    \/ \E k \in Cancellers : CancelStep(k)
    \/ \E u \in Users : UserStep(u)
    \/ Waiting

Spec == Init /\ [][Next]_vars

\* The Go scheduler runs every goroutine that can go on.
Fairness ==
    /\ \A p \in Prompts : WF_vars(RunStep(p))
    /\ \A r \in Runners : WF_vars(SummarizeStep(r) \/ Ending(r))
    /\ \A k \in Cancellers : WF_vars(CancelStep(k))
    /\ \A u \in Users : WF_vars(UserStep(u))
FairSpec == Spec /\ Fairness

-----------------------------------------------------------------------------
(* Properties *)

\* The session is marked busy only by a frame whose deferred Del is still to
\* come, whatever the goroutines interleave: no path through Run or Summarize
\* leaves an entry behind that would queue every later prompt for ever.
BusyEntryLive ==
    active # NoCtx => \E r \in Runners : active \in Items(stack[r])

\* As long as no two goroutines have had frames at once, the entry of a working
\* goroutine is its own innermost context, so that Cancel reaches the stream
\* that runs, and a new prompt is queued rather than run beside it.
SoleRunReachable ==
    ~overlapped => \A r \in Runners : pc[r] \in Working => active = Top(r)

\* c is on its way into a Run, or was drained and is on its way to the database.
InHands(c) ==
    \E p \in Prompts :
        \/ pc[p] \in {"check", "enqueue", "enqueueSet", "load"} /\ cur[p] = c
        \/ pc[p] = "persist" /\ c \in Items(local[p])

\* A submitted prompt is queued, in the hands of a goroutine, in the database,
\* or was dropped by Cancel, ClearQueue or an error; only a write to the queue
\* that is based on a stale read can make one vanish.
PromptsConserved ==
    ~clobbered => \A c \in Prompts :
        c \in persisted \cup dropped \cup Items(queue) \/ InHands(c)

\* Where a prompt waits or runs: its positions in the queue, and the goroutines
\* that are running it or about to.
Places(c) ==
    {<<"queue", i>> : i \in {j \in DOMAIN queue : queue[j] = c}} \cup
    {<<"run", p>> : p \in {q \in Prompts :
        cur[q] = c /\ pc[q] \in Working \cup {"check", "enqueue", "enqueueSet", "load", "register"}}}

\* Without a stale write to the queue no prompt is in two places, so none is
\* executed twice: the model would repeat its edits and commands.
NoPromptTwice ==
    ~clobbered => \A c \in Prompts : Cardinality(Places(c)) <= 1

\* r streams under a context the user has cancelled.
Doomed(r) == pc[r] \in Working /\ Top(r) \in cancelled

\* A cancelled stream stops, in every step of the turn and in Summarize.
CancelStops == \A r \in Runners : Doomed(r) ~> ~Doomed(r)

\* The comment after AttemptRecovery, "Recovery succeeded - retry the operation":
\* when all goroutines have returned, no recovered call is left waiting.
RecoveredIsRetried == Quiescent => recovered \cap Items(queue) = {}
=============================================================================

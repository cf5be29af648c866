------------------------------ MODULE Multiplex -------------------------------
(***************************************************************************)
(* One call of coordinator.runWithMultiplex: a Supervisor of                *)
(* internal/agent/multiplex partitions the prompt into intents, a pool of   *)
(* workers runs every intent as a prompt of the SAME session agent and      *)
(* session, an aggregator counts the results and a goroutine of its own     *)
(* hands the combination to Execute.  The channels hold PoolSize elements.  *)
(*                                                                         *)
(* The session agent is reduced to its busy gate, every operation on its    *)
(* two maps a step of its own: a Run of a busy session queues the prompt    *)
(* and returns neither result nor error, a turn absorbs the queue between   *)
(* its steps, and a Run that finds a queue when its turn ends runs the next *)
(* prompt and returns that Run's result instead of its own; its deferred    *)
(* Del follows when that has returned.                                     *)
(*                                                                         *)
(* Abstracted: an intent is its number, of a text it is known whether there *)
(* is any, the five minutes of Execute may pass at any time, and no turn    *)
(* fills its context window: the summary that releases the session and the  *)
(* prompt that is put back are in SessionAgent.                            *)
(***************************************************************************)
EXTENDS Naturals, Sequences, FiniteSets, SequencesExt

CONSTANTS Workers,      \* the workers of the pool
          IntentBound,  \* bound: how many intents the partitioner makes of the prompt
          MaxRetries,   \* maxCircuitBreakerRetries; 0: no recovery manager
          MaxCancelled, \* bound: calls with more intents than that are not cancelled
          None          \* no intent, no result

ASSUME IntentBoundIsPositive == IntentBound \in Nat \ {0}
ASSUME MaxRetriesIsNatural == MaxRetries \in Nat
ASSUME MaxCancelledIsNatural == MaxCancelled \in Nat
ASSUME WorkersAreFinite == IsFiniteSet(Workers) /\ Workers # {}

Intents == 1..IntentBound
PoolSize == Cardinality(Workers)

VARIABLES exec,       \* phase of Execute and of the deferred Stop
          expected,   \* the intents of the call: Aggregator.expectedCount of the task
          sent,       \* intents dispatched
          outcome,    \* the result Execute returned, None for an error
          intentChan, \* Supervisor.intentChan
          resultChan, \* Supervisor.resultChan
          wpc,        \* [Workers -> phases]
          job,        \* [Workers -> Intents]: the intent the worker is at
          call,       \* [Workers -> Intents]: the prompt its innermost Run is for
          res,        \* [Workers -> results]: what ProcessFunc returned
          frames,     \* [Workers -> Nat]: its Runs whose deferred Del is due
          local,      \* [Workers -> queues]: the queue its Run has read
          busy,       \* the session has an entry in activeRequests
          queue,      \* the session's queued prompts
          got,        \* Aggregator.results of the task
          agg,        \* "collecting", "notifying" (its goroutine is due), "notified"
          collecting, \* the aggregator's goroutine runs
          box,        \* Execute's resultCh
          ctxDone,    \* the caller's context is cancelled
          supDone,    \* the supervisor's context is cancelled
          retried,    \* the prompts recovered so far, circuitBreakerRetryCount of them
          \* history, for the properties only:
          runs,       \* [Intents -> number of turns that took the prompt]
          clobbered   \* the queue was written from a value that was no longer in it

gate == <<busy, queue, retried, clobbered>>
workers == <<wpc, job, call, res, frames, local, runs>>
aggregator == <<got, agg, collecting, box>>
supervisor == <<exec, expected, sent, outcome, supDone>>
vars == <<supervisor, intentChan, resultChan, workers, gate, aggregator, ctxDone>>

Results == [intent : Intents, failed : BOOLEAN, text : BOOLEAN]
Combined == [failed : BOOLEAN, text : BOOLEAN]

Phases == {"idle", "run", "enqueue", "append", "register", "turn", "drain", "next", "take",
           "send", "stopped"}

TypeOK ==
  /\ exec \in {"dispatching", "waiting", "stopping", "stopped"}
  /\ expected \in Intents /\ sent \in 0..expected
  /\ outcome \in Combined \union {None}
  /\ intentChan \in Seq(Intents) /\ Len(intentChan) <= PoolSize
  /\ resultChan \in Seq(Results) /\ Len(resultChan) <= PoolSize
  /\ wpc \in [Workers -> Phases]
  /\ job \in [Workers -> Intents \union {None}] /\ call \in [Workers -> Intents \union {None}]
  /\ res \in [Workers -> Results \union {None}]
  /\ frames \in [Workers -> Nat] /\ local \in [Workers -> Seq(Intents)]
  /\ busy \in BOOLEAN /\ queue \in Seq(Intents) /\ clobbered \in BOOLEAN
  /\ got \in Seq(Results) /\ Len(got) <= expected
  /\ agg \in {"collecting", "notifying", "notified"}
  /\ collecting \in BOOLEAN
  /\ box \in Combined \union {None}
  /\ ctxDone \in BOOLEAN /\ supDone \in BOOLEAN
  /\ retried \in Seq(Intents) /\ Len(retried) <= MaxRetries
  /\ runs \in [Intents -> Nat]

\* NewSupervisor and Start; the partition is made and the count is set.
Init ==
  /\ expected \in Intents
  /\ exec = "dispatching" /\ sent = 0 /\ outcome = None
  /\ intentChan = <<>> /\ resultChan = <<>>
  /\ wpc = [w \in Workers |-> "idle"]
  /\ job = [w \in Workers |-> None] /\ call = [w \in Workers |-> None]
  /\ res = [w \in Workers |-> None]
  /\ frames = [w \in Workers |-> 0] /\ local = [w \in Workers |-> <<>>]
  /\ busy = FALSE /\ queue = <<>> /\ clobbered = FALSE
  /\ got = <<>> /\ agg = "collecting" /\ collecting = TRUE /\ box = None
  /\ ctxDone = FALSE /\ supDone = FALSE
  /\ retried = <<>> /\ runs = [i \in Intents |-> 0]

\* The contexts of the pool, the workers and the aggregator derive from the caller's.
Cancelled == ctxDone \/ supDone

-----------------------------------------------------------------------------
(* Supervisor.Execute, and Stop, which runWithMultiplex defers.             *)

\* The loop that hands the intents to the pool; it blocks on a full channel.
Dispatch ==
  /\ exec = "dispatching"
  /\ Len(intentChan) < PoolSize
  /\ intentChan' = Append(intentChan, sent + 1)
  /\ sent' = sent + 1
  /\ exec' = IF sent + 1 = expected THEN "waiting" ELSE exec
  /\ UNCHANGED <<expected, outcome, supDone, resultChan, workers, gate, aggregator, ctxDone>>

\* Execute returns o; Stop cancels the supervisor's context.
Return(o) ==
  /\ exec' = "stopping"
  /\ outcome' = o
  /\ supDone' = TRUE
  /\ UNCHANGED <<expected, sent, intentChan, resultChan, workers, gate, aggregator, ctxDone>>

Receive == exec = "waiting" /\ box # None /\ Return(box)

GiveUp == exec \in {"dispatching", "waiting"} /\ ctxDone /\ Return(None)

Timeout == exec = "waiting" /\ Return(None)

\* Pool.Stop waits for every worker.
StopReturns ==
  /\ exec = "stopping"
  /\ \A w \in Workers : wpc[w] = "stopped"
  /\ exec' = "stopped"
  /\ UNCHANGED <<expected, sent, outcome, supDone, intentChan, resultChan, workers, gate, aggregator,
                 ctxDone>>

-----------------------------------------------------------------------------
(* Worker.run.                                                             *)

\* The select takes an intent, cancelled or not ...
Take(w) ==
  /\ wpc[w] = "idle"
  /\ intentChan # <<>>
  /\ intentChan' = Tail(intentChan)
  /\ wpc' = [wpc EXCEPT ![w] = "run"]
  /\ job' = [job EXCEPT ![w] = Head(intentChan)]
  /\ call' = [call EXCEPT ![w] = Head(intentChan)]
  /\ UNCHANGED <<supervisor, resultChan, res, frames, local, runs, gate, aggregator, ctxDone>>

\* ... or returns.
WorkerStops(w) ==
  /\ wpc[w] = "idle"
  /\ Cancelled
  /\ wpc' = [wpc EXCEPT ![w] = "stopped"]
  /\ UNCHANGED <<supervisor, intentChan, resultChan, job, call, res, frames, local, runs, gate,
                 aggregator, ctxDone>>

\* ProcessFunc has returned, and processIntent hands the result over ...
SendResult(w) ==
  /\ wpc[w] = "send" /\ frames[w] = 0
  /\ Len(resultChan) < PoolSize
  /\ resultChan' = Append(resultChan, res[w])
  /\ wpc' = [wpc EXCEPT ![w] = "idle"]
  /\ job' = [job EXCEPT ![w] = None]
  /\ res' = [res EXCEPT ![w] = None]
  /\ UNCHANGED <<supervisor, intentChan, call, frames, local, runs, gate, aggregator, ctxDone>>

\* Mutation of DropResult: a worker insists on handing its result over.
DropResultNever(w) == FALSE /\ UNCHANGED vars

\* ... or drops it when the supervisor has stopped.
DropResult(w) ==
  /\ wpc[w] = "send" /\ frames[w] = 0
  /\ Cancelled
  /\ wpc' = [wpc EXCEPT ![w] = "idle"]
  /\ job' = [job EXCEPT ![w] = None]
  /\ res' = [res EXCEPT ![w] = None]
  /\ UNCHANGED <<supervisor, intentChan, resultChan, call, frames, local, runs, gate,
                 aggregator, ctxDone>>

-----------------------------------------------------------------------------
(* ProcessFunc: sessionAgent.Run of the one session.                        *)

\* w's Run, and those it was called by, return a result or an error: ProcessFunc
\* will make of it a result that names the worker's intent.
Finish(w, failed, text) ==
  /\ wpc' = [wpc EXCEPT ![w] = "send"]
  /\ res' = [res EXCEPT ![w] = [intent |-> job[w], failed |-> failed, text |-> text]]
  /\ call' = [call EXCEPT ![w] = None]
  /\ UNCHANGED <<supervisor, intentChan, resultChan, job, aggregator, ctxDone>>

\* The deferred Del of the innermost Run that has not returned yet removes the
\* session's entry, whoever made it.
Unwind(w) ==
  /\ wpc[w] = "send" /\ frames[w] > 0
  /\ frames' = [frames EXCEPT ![w] = @ - 1]
  /\ busy' = FALSE
  /\ UNCHANGED <<supervisor, intentChan, resultChan, wpc, job, call, res, local, runs,
                 queue, retried, clobbered, aggregator, ctxDone>>

\* w's Run moves on within itself.
Goto(w, l) ==
  /\ wpc' = [wpc EXCEPT ![w] = l]
  /\ UNCHANGED <<supervisor, intentChan, resultChan, job, res, aggregator, ctxDone>>

\* messageQueue.Get, and a Set or Del that relies on what was read.
ReadQueue(w) == local' = [local EXCEPT ![w] = queue]
WriteQueue(w, q) ==
  /\ queue' = q
  /\ clobbered' = (clobbered \/ queue # local[w])
  /\ local' = [local EXCEPT ![w] = <<>>]

\* if a.IsSessionBusy(call.SessionID)
CheckBusy(w) ==
  /\ wpc[w] = "run"
  /\ Goto(w, IF busy THEN "enqueue" ELSE "register")
  /\ UNCHANGED <<call, frames, local, runs, gate>>

\* A busy session: existing, ok := a.messageQueue.Get ...
ReadToAppend(w) ==
  /\ wpc[w] = "enqueue"
  /\ ReadQueue(w)
  /\ Goto(w, "append")
  /\ UNCHANGED <<call, frames, runs, gate>>

\* ... the prompt is appended and set, and no error means success.
Enqueue(w) ==
  /\ wpc[w] = "append"
  /\ WriteQueue(w, Append(local[w], call[w]))
  /\ Finish(w, FALSE, FALSE)
  /\ UNCHANGED <<busy, retried, frames, runs>>

\* The session and its messages are loaded, the prompt's message is created and
\* a.activeRequests.Set, whose Del is deferred ...
Register(w) ==
  /\ wpc[w] = "register"
  /\ busy' = TRUE
  /\ frames' = [frames EXCEPT ![w] = @ + 1]
  /\ runs' = [runs EXCEPT ![call[w]] = @ + 1]
  /\ Goto(w, "turn")
  /\ UNCHANGED <<call, local, queue, retried, clobbered>>

\* ... or one of them fails.
LoadFails(w) ==
  /\ wpc[w] = "register"
  /\ Finish(w, TRUE, FALSE)
  /\ UNCHANGED <<gate, frames, local, runs>>

\* PrepareStep: queuedCalls, _ := a.messageQueue.Get, empty or not ...
ReadToDrain(w) ==
  /\ wpc[w] = "turn"
  /\ ReadQueue(w)
  /\ Goto(w, "drain")
  /\ UNCHANGED <<call, frames, runs, gate>>

\* ... a.messageQueue.Del, and the turn takes what was read.
Drain(w) ==
  /\ wpc[w] = "drain"
  /\ WriteQueue(w, <<>>)
  /\ runs' = [i \in Intents |-> IF i \in ToSet(local[w]) THEN runs[i] + 1 ELSE runs[i]]
  /\ Goto(w, "turn")
  /\ UNCHANGED <<call, frames, busy, retried>>

\* The stream ends and Run gives the session up ...
TurnEnds(w) ==
  /\ wpc[w] = "turn"
  /\ busy' = FALSE
  /\ Goto(w, "next")
  /\ UNCHANGED <<call, frames, local, runs, queue, retried, clobbered>>

\* ... or fails, cancelled or not, and leaves the queue alone.
TurnFails(w) ==
  /\ wpc[w] = "turn"
  /\ Finish(w, TRUE, FALSE)
  /\ UNCHANGED <<gate, frames, local, runs>>

\* ... or fails and is recovered: Run calls itself, its own entry in place.
TurnRecovers(w) ==
  /\ wpc[w] = "turn"
  /\ Len(retried) < MaxRetries
  /\ retried' = Append(retried, call[w])
  /\ Goto(w, "run")
  /\ UNCHANGED <<call, frames, local, runs, busy, queue, clobbered>>

\* Run finds queued prompts ...
ReadNext(w) ==
  /\ wpc[w] = "next"
  /\ queue # <<>>
  /\ ReadQueue(w)
  /\ Goto(w, "take")
  /\ UNCHANGED <<call, frames, runs, gate>>

\* Mutation of TakeNext: the prompt stays in the queue.
TakeNextKeeps(w) ==
  /\ wpc[w] = "take"
  /\ \A i \in Intents : runs[i] < 3
  /\ WriteQueue(w, local[w])
  /\ call' = [call EXCEPT ![w] = Head(local[w])]
  /\ Goto(w, "run")
  /\ UNCHANGED <<frames, runs, busy, retried>>

\* ... leaves the others and returns the Run of the first one ...
TakeNext(w) ==
  /\ wpc[w] = "take"
  /\ WriteQueue(w, Tail(local[w]))
  /\ call' = [call EXCEPT ![w] = Head(local[w])]
  /\ Goto(w, "run")
  /\ UNCHANGED <<frames, runs, busy, retried>>

\* ... or finds none and returns its own result.
Answer(w) ==
  /\ wpc[w] = "next"
  /\ queue = <<>>
  /\ Finish(w, FALSE, TRUE)
  /\ UNCHANGED <<gate, frames, local, runs>>

\* The user cancels the session: the queue goes; TurnFails is what becomes of
\* the turn.
CancelSession ==
  /\ expected <= MaxCancelled
  /\ queue # <<>>
  /\ queue' = <<>>
  /\ UNCHANGED <<supervisor, intentChan, resultChan, workers, busy, retried, clobbered,
                 aggregator, ctxDone>>

CancelContext ==
  /\ expected <= MaxCancelled
  /\ ~ctxDone
  /\ exec # "stopped"
  /\ ctxDone' = TRUE
  /\ UNCHANGED <<supervisor, intentChan, resultChan, workers, gate, aggregator>>

-----------------------------------------------------------------------------
(* The aggregator.                                                         *)

\* Mutation of Collect: complete when one result is missing.
CollectShort ==
  /\ collecting
  /\ resultChan # <<>>
  /\ resultChan' = Tail(resultChan)
  /\ got' = Append(got, Head(resultChan))
  /\ agg' = IF Len(got) + 2 >= expected /\ agg = "collecting" THEN "notifying" ELSE agg
  /\ UNCHANGED <<supervisor, intentChan, workers, gate, collecting, box, ctxDone>>

\* addResult: the result that completes the task starts notifyComplete.
Collect ==
  /\ collecting
  /\ resultChan # <<>>
  /\ resultChan' = Tail(resultChan)
  /\ got' = Append(got, Head(resultChan))
  /\ agg' = IF Len(got) + 1 >= expected /\ agg = "collecting" THEN "notifying" ELSE agg
  /\ UNCHANGED <<supervisor, intentChan, workers, gate, collecting, box, ctxDone>>

AggregatorStops ==
  /\ collecting
  /\ Cancelled
  /\ collecting' = FALSE
  /\ UNCHANGED <<supervisor, intentChan, resultChan, workers, gate, got, agg, box, ctxDone>>

\* AggregateResult: whether any intent failed, and whether all have a text.
Aggregate(rs) == [failed |-> \E i \in DOMAIN rs : rs[i].failed,
                  text |-> \A i \in DOMAIN rs : rs[i].text]

\* notifyComplete reads the results and runs Execute's callback.
Notify ==
  /\ agg = "notifying"
  /\ agg' = "notified"
  /\ box' = Aggregate(got)
  /\ UNCHANGED <<supervisor, intentChan, resultChan, workers, gate, got, collecting, ctxDone>>

WorkerStep(w) ==
  \/ Take(w) \/ WorkerStops(w) \/ SendResult(w) \/ DropResult(w)
  \/ CheckBusy(w) \/ ReadToAppend(w) \/ Enqueue(w) \/ Register(w) \/ LoadFails(w)
  \/ Drain(w) \/ TurnEnds(w) \/ TurnFails(w) \/ TurnRecovers(w)
  \/ ReadNext(w) \/ TakeNext(w) \/ Answer(w) \/ Unwind(w)

Next ==
  \/ Dispatch \/ Receive \/ GiveUp \/ Timeout \/ StopReturns
  \/ \E w \in Workers : WorkerStep(w) \/ ReadToDrain(w)
  \/ Collect \/ AggregatorStops \/ Notify
  \/ CancelSession \/ CancelContext

Spec == Init /\ [][Next]_vars

\* Goroutines run on, and a turn ends or fails however many steps it takes;
\* nobody has to cancel and the five minutes never pass.
FairSpec ==
  /\ Spec
  /\ WF_vars(Dispatch) /\ WF_vars(Receive) /\ WF_vars(GiveUp) /\ WF_vars(StopReturns)
  /\ \A w \in Workers : WF_vars(WorkerStep(w)) /\ SF_vars(TurnEnds(w) \/ TurnFails(w))
  /\ WF_vars(Collect) /\ WF_vars(Notify)

-----------------------------------------------------------------------------
(* Properties.                                                             *)

HasResult == outcome # None

\* Execute returns a result only when every intent has been reported, each
\* exactly once, whichever workers reported them and in whatever order.
ResultIsWhole ==
  HasResult => /\ Len(got) = expected
               /\ {got[i].intent : i \in DOMAIN got} = 1..expected

\* No prompt is run twice but for its recoveries, whether a worker runs it, a
\* turn absorbs it or a Run takes it from the queue, and although frames delete
\* each other's entries so that turns overlap: as long as no goroutine writes
\* the queue from a stale read, which can put back what another has taken.
NoIntentTwice ==
  ~clobbered =>
    \A i \in Intents : runs[i] <= 1 + Cardinality({k \in DOMAIN retried : retried[k] = i})

\* When Stop has returned no worker runs a turn: the session is free and stays
\* free for the caller.
QuietAfterStop == exec = "stopped" => ~busy /\ \A w \in Workers : wpc[w] = "stopped"

\* runWithMultiplex returns: a result, an error or a cancellation, with no need
\* of the five minutes.
MultiplexReturns == <>(exec = "stopped")

\* "Outputs de todos los workers se combinan -> usuario ve todo": a result
\* without failures has the text of every intent.
OutputsCombined == HasResult /\ ~outcome.failed => outcome.text
=============================================================================

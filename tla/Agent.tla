------------------------------- MODULE Agent -------------------------------
(***************************************************************************)
(* A session agent (internal/agent/agent.go): its scheduling, which         *)
(* SessionAgent describes, and the transcript of the turn that a Run makes  *)
(* of a prompt.  The turn reads neither the queue nor the entry of the      *)
(* session; what they do to it, a cancellation at any time, is an action    *)
(* of AgentTurn.  So AgentInit chooses which of the two moves.              *)
(***************************************************************************)
EXTENDS SessionAgent

CONSTANTS Calls, MaxSteps, MaxFaults, CallerCancels  \* of AgentTurn

VARIABLES part, at, step, mine, mem, db, memFinish, dbFinish, results, running, err,
          genDone, ctxDone, faults, listed, todo, outcome

transcript == <<at, step, mine, mem, db, memFinish, dbFinish, results, running, err,
                genDone, ctxDone, faults, listed, todo, outcome>>

\* Where a turn is, pc in AgentTurn, has a name of its own here.
Turn == INSTANCE AgentTurn WITH pc <- at

ASSUME AgentAssumption == Turn!TurnAssumption

AgentInit ==
  /\ part \in {"session", "turn"}
  /\ Init /\ Turn!Init

Schedule == part = "session" /\ Next /\ UNCHANGED <<part, transcript>>

Converse == part = "turn" /\ Turn!Next /\ UNCHANGED <<part, vars>>

AgentNext == Schedule \/ Converse

AgentSpec == AgentInit /\ [][AgentNext]_<<part, vars, transcript>>

\* The fairness of SessionAgent, and that of AgentTurn.
AgentFairness ==
  /\ \A p \in Prompts : WF_vars(part = "session" /\ RunStep(p))
  /\ \A r \in Runners : WF_vars(part = "session" /\ (SummarizeStep(r) \/ Ending(r)))
  /\ \A k \in Cancellers : WF_vars(part = "session" /\ CancelStep(k))
  /\ \A u \in Users : WF_vars(part = "session" /\ UserStep(u))
  /\ WF_transcript(part = "turn" /\ Turn!Run)
  /\ \A c \in Calls : WF_transcript(part = "turn" /\ Turn!Tool(c))

AgentFairSpec == AgentSpec /\ AgentFairness

-----------------------------------------------------------------------------
(* Properties of the turn, stated where its actions are. *)

\* What a turn leaves is a history a provider accepts (agent.go:567).
TurnIsClosed == Turn!TurnIsClosed

\* No tool call has two results (agent.go:589).
AnsweredOnce == Turn!AnsweredOnce

\* Only a failing database or Run's caller cuts the error path short (agent.go:575).
OnlyFaultsAbandon == Turn!OnlyFaultsAbandon

\* The comment at agent.go:573: the error path outlives every cancellation.
CancelledTurnIsClosed == Turn!CancelledTurnIsClosed

\* A cancelled turn ends (agent.go:288).
CancelEndsTurn == Turn!CancelEndsTurn
=============================================================================

---------------------------- MODULE Application ----------------------------
(***************************************************************************)
(* The App (internal/app/app.go): its own life, which Lifecycle describes,  *)
(* and the language servers that it owns.  Shutdown kills the servers in a  *)
(* clean-up task of its own, which touches neither a broker nor the         *)
(* database; and what the servers report goes through a broker connected    *)
(* like that of the messages.  No part reads the state of the other, so     *)
(* that AppInit chooses which one moves.                                    *)
(***************************************************************************)
EXTENDS Lifecycle

CONSTANTS Tools, UserConfigured, MaxActors, MaxFaults  \* of LanguageServers

VARIABLES part, entry, clients, servers, unavailable, pc, hand, seen, over, told,
          restarted, faults, overlapped, lost

languageServers == <<entry, clients, servers, unavailable, pc, hand, seen, over, told,
                     restarted, faults, overlapped, lost>>

\* What the UI was told of the servers has a name of its own here.
LSP == INSTANCE LanguageServers WITH shown <- told

ASSUME ApplicationAssumption == LSP!LanguageServersAssumption

\* The part that does not move begins in one state.
AppInit ==
  /\ part \in {"life", "servers"}
  /\ Init /\ LSP!Init
  /\ part = "servers" => mode = "ui"

Live == part = "life" /\ Next /\ UNCHANGED <<part, languageServers>>

Serve == part = "servers" /\ LSP!Next /\ UNCHANGED <<part, vars>>

AppNext == Live \/ Serve

\* The fairness of Lifecycle.
AppFairness ==
  /\ WF_vars(part = "life" /\ main # "ended" /\ FanStep)
  /\ WF_vars(part = "life" /\ main # "ended" /\ TuiStep)
  /\ WF_vars(part = "life" /\ ShutdownStep)

AppSpec == AppInit /\ [][AppNext]_<<part, vars, languageServers>> /\ AppFairness

\* The fairness of LanguageServers.
ServersFairness ==
  /\ \A g \in Tools :
       WF_languageServers(part = "servers" /\ pc[g] # "idle" /\ (LSP!Start(g) \/ LSP!Notify(g)))
  /\ \A g \in LSP!Actors : WF_languageServers(part = "servers" /\ LSP!Close(g))
  /\ WF_languageServers(
       part = "servers" /\ (LSP!Recreate \/ LSP!Reinitialize \/ LSP!BecomeReadyAgain))

LiveSpec == AppSpec /\ ServersFairness

-----------------------------------------------------------------------------
(* Properties of the language servers, stated where their actions are. *)

\* A process that runs can be reached by KillAll, unless it was lost in one of
\* four ways (manager.go:328).
ServersAreReachable == LSP!ServersAreReachable

\* A document that a client has as open is open in its server (client.go:360).
DocumentsAgree == LSP!DocumentsAgree

\* A tool call ends, unless a server stops reading (client.go:303).
CallsEnd == LSP!CallsEnd

\* What the UI shows as ready is ready (app.go:132).
ShownAsReadyIsReady == LSP!ShownAsReadyIsReady
=============================================================================

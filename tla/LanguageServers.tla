--------------------------- MODULE LanguageServers ---------------------------
(***************************************************************************)
(* The clients of one language server (internal/lsp/manager.go, client.go): *)
(* the tools that start it and tell it of a file (agent/tools), the         *)
(* lsp_restart tool, StopAll of a new session and KillAll of App.Shutdown.  *)
(*                                                                         *)
(* The manager runs a goroutine per server name and its map has a key per   *)
(* name, so that one name is enough.  A client holds a connection to a      *)
(* process, another one after a restart; both are numbers in the order they *)
(* were made.  Of the documents one is looked at, which is no root marker:  *)
(* it is open in a client when its version is not zero.                     *)
(***************************************************************************)
EXTENDS Integers, Sequences, FiniteSets

CONSTANTS Tools,          \* tool calls that tell the server of a change, once each
          UserConfigured, \* the user's configuration names the server
          MaxActors,      \* bound: goroutines that come to work
          MaxFaults       \* bound: crashes, hangs, failures of the server

Managers == {"restarter", "stopper", "killer"}

Actors == Tools \cup Managers

LanguageServersAssumption ==
  /\ UserConfigured \in BOOLEAN /\ {MaxActors, MaxFaults} \subseteq Nat
  /\ Tools \cap Managers = {}

VARIABLES entry,       \* the client in the manager's map, 0 for none
          clients,     \* sequence of clients: state, server, open, ctx
          servers,     \* sequence of processes: up, hung, opens, version
          unavailable, \* the command was looked for and not found
          pc,          \* [Actors -> where the goroutine is]
          hand,        \* [Actors -> the client it handles]
          seen,        \* [Actors -> the client it found, or the version it sends]
          over,        \* tool calls whose context has ended
          shown,       \* the state the UI was told
          restarted,   \* outcome of lsp_restart: "none", "running", "ok", "failed"
          faults,      \* how many there were
          overlapped,  \* history: "tools" or "managers", which were at work at once
          lost         \* history: how a server may have been lost

vars == <<entry, clients, servers, unavailable, pc, hand, seen, over, shown, restarted,
          faults, overlapped, lost>>

States == {"stopped", "starting", "ready", "error"}

TypeOK ==
  /\ entry \in 0..Len(clients)
  /\ \A c \in DOMAIN clients :
       /\ clients[c].state \in States /\ clients[c].server \in DOMAIN servers
       /\ clients[c].open \in Nat /\ clients[c].ctx \in Tools
  /\ \A p \in DOMAIN servers :
       /\ {servers[p].up, servers[p].hung} \subseteq BOOLEAN
       /\ {servers[p].opens, servers[p].version} \subseteq Nat
  /\ hand \in [Actors -> 0..Len(clients)] /\ seen \in [Actors -> Nat]
  /\ over \subseteq Tools /\ shown \in States \cup {"unstarted"}
  /\ restarted \in {"none", "running", "ok", "failed"}
  /\ faults \in 0..MaxFaults
  /\ unavailable \in BOOLEAN
  /\ overlapped \subseteq {"tools", "managers"}
  /\ lost \subseteq {"errored", "overwritten", "deleted", "revived"}

Init ==
  /\ entry = 0 /\ clients = <<>> /\ servers = <<>>
  /\ unavailable = FALSE
  /\ pc = [g \in Actors |-> "idle"]
  /\ hand = [g \in Actors |-> 0] /\ seen = [g \in Actors |-> 0]
  /\ over = {} /\ shown = "unstarted" /\ restarted = "none"
  /\ faults = 0 /\ overlapped = {} /\ lost = {}

-----------------------------------------------------------------------------
(* Steps *)

Comes(g) == pc[g] = "idle" /\ Cardinality({h \in Actors : pc[h] # "idle"}) < MaxActors

\* Goroutine g goes on at l.
Goto(g, l) ==
  /\ pc' = [pc EXCEPT ![g] = l]
  /\ LET together == {h \in Actors : pc'[h] \notin {"idle", "done"}}
     IN  overlapped' = IF \A h, i \in together : h = i THEN overlapped
                       ELSE overlapped \cup IF together \subseteq Tools THEN {"tools"}
                                            ELSE {"managers"}

documents == <<clients, servers>>
map == <<entry, unavailable, lost>>
local == <<hand, seen>>
others == <<over, shown, restarted, faults>>

Fault == faults < MaxFaults /\ faults' = faults + 1

\* GetServerState of a client that needs no other.
Usable(c) == c # 0 /\ clients[c].state \in {"ready", "starting"}

Server(c) == servers[clients[c].server]

SetState(c, s) == clients' = [clients EXCEPT ![c].state = s]

\* The callback of the manager: the UI is told the state the client has.
Callback(c) == shown' = clients[c].state

\* createPowernapClient: a new process.
NewServer == Append(servers, [up |-> TRUE, hung |-> FALSE, opens |-> 0, version |-> 0])

\* The process ends.
EndServer(p) ==
  servers' = [servers EXCEPT ![p] = [up |-> FALSE, hung |-> FALSE, opens |-> 0, version |-> 0]]

-----------------------------------------------------------------------------
(* startServer *)

\* The first look: not again when the command was not found; nothing to do
\* when there is a client.
StartServer(g) ==
  /\ Comes(g)
  /\ IF unavailable THEN Goto(g, "use") /\ UNCHANGED shown
     ELSE IF Usable(entry) THEN Goto(g, "use") /\ Callback(entry)
     ELSE Goto(g, "find") /\ UNCHANGED shown
  /\ UNCHANGED <<documents, map, local, over, restarted, faults>>

\* LookPath, the commands too generic to be started and handles, then the
\* second look, after the slow part.
CheckAgain(g) ==
  /\ pc[g] = "find"
  /\ \/ /\ ~UserConfigured
        /\ unavailable' \in {TRUE, unavailable}
        /\ Goto(g, "use")
        /\ UNCHANGED shown
     \/ /\ UNCHANGED unavailable
        /\ IF Usable(entry) THEN Goto(g, "use") /\ Callback(entry)
           ELSE Goto(g, "new") /\ UNCHANGED shown
  /\ UNCHANGED <<documents, entry, lost, local, over, restarted, faults>>

New(g) ==
  /\ pc[g] = "new"
  /\ \/ /\ clients' = Append(clients, [state |-> "stopped", server |-> Len(servers) + 1,
                                       open |-> 0, ctx |-> g])
        /\ servers' = NewServer
        /\ hand' = [hand EXCEPT ![g] = Len(clients) + 1]
        /\ Goto(g, "compare")
        /\ UNCHANGED faults
     \/ /\ Fault
        /\ Goto(g, "use")
        /\ UNCHANGED <<documents, hand>>
  /\ UNCHANGED <<map, seen, over, shown, restarted>>

\* The third look: another goroutine's client is preferred.
Compare(g) ==
  /\ pc[g] = "compare"
  /\ seen' = [seen EXCEPT ![g] = IF Usable(entry) THEN entry ELSE 0]
  /\ Goto(g, IF Usable(entry) THEN "close" ELSE "store")
  /\ UNCHANGED <<documents, map, hand, others>>

Store(g) ==
  /\ pc[g] = "store"
  /\ entry' = hand[g]
  /\ lost' = IF entry = 0 \/ ~Server(entry).up THEN lost
             ELSE lost \cup {IF clients[entry].state = "error" THEN "errored" ELSE "overwritten"}
  /\ Goto(g, "mark")
  /\ UNCHANGED <<documents, unavailable, local, others>>

MarkStarting(g) ==
  /\ pc[g] = "mark"
  /\ SetState(hand[g], "starting")
  /\ Goto(g, "init")
  /\ UNCHANGED <<servers, map, local, others>>

\* What becomes of a request with a deadline and the context of client c.
Answers(c) == Server(c).up /\ ~Server(c).hung /\ clients[c].ctx \notin over
Fails(c)   == \/ ~Answers(c) /\ UNCHANGED faults
              \/ Fault

\* WaitForServerReady marks the client again.
Initialize(g) ==
  /\ pc[g] = "init"
  /\ \/ /\ Answers(hand[g])
        /\ SetState(hand[g], "starting") /\ Goto(g, "ready") /\ UNCHANGED faults
     \/ Fails(hand[g]) /\ Goto(g, "close") /\ UNCHANGED clients
  /\ UNCHANGED <<servers, map, local, over, shown, restarted>>

\* Mutant: the wait knows no deadline.
BecomeReadyPatiently(g) ==
  /\ pc[g] = "ready"
  /\ Server(hand[g]).up /\ SetState(hand[g], "ready")
  /\ Goto(g, "tell")
  /\ UNCHANGED <<servers, map, local, others>>

\* WaitForServerReady asks whether the process runs, until its context ends.
\* The state is set before the deferred callback.
BecomeReady(g) ==
  /\ pc[g] = "ready"
  /\ \/ Server(hand[g]).up /\ SetState(hand[g], "ready")
     \/ (~Server(hand[g]).up \/ clients[hand[g]].ctx \in over) /\ SetState(hand[g], "error")
  /\ Goto(g, "tell")
  /\ UNCHANGED <<servers, map, local, others>>

Tell(g) ==
  /\ pc[g] = "tell"
  /\ Callback(IF seen[g] # 0 THEN seen[g] ELSE hand[g])
  /\ Goto(g, IF g \in Tools THEN "use" ELSE "done")
  /\ UNCHANGED <<documents, map, local, over, restarted, faults>>

-----------------------------------------------------------------------------
(* Close, KillAll, StopAll *)

\* Mutant: the server is told, the client keeps the document.
CloseWithoutNote(g) ==
  LET c == hand[g] IN
  /\ pc[g] = "close"
  /\ Server(c).up => ~Server(c).hung
  /\ IF clients[c].open # 0 /\ Server(c).up
     THEN servers' = [servers EXCEPT ![clients[c].server] = [@ EXCEPT !.opens = 0, !.version = 0]]
     ELSE UNCHANGED servers
  /\ Goto(g, "shutdown")
  /\ UNCHANGED <<clients, map, local, others>>

\* CloseAllFiles.  A document the server cannot be told of stays open; a
\* server that reads nothing keeps the sender, whatever its context.
CloseAllFiles(g) ==
  LET c == hand[g] IN
  /\ pc[g] = "close"
  /\ Server(c).up => ~Server(c).hung
  /\ IF clients[c].open # 0 /\ Server(c).up
     THEN /\ clients' = [clients EXCEPT ![c].open = 0]
          /\ servers' = [servers EXCEPT ![clients[c].server] =
                           [@ EXCEPT !.opens = 0, !.version = 0]]
     ELSE UNCHANGED documents
  /\ Goto(g, "shutdown")
  /\ UNCHANGED <<map, local, others>>

AfterShutdown(g) ==
  IF g \notin Tools THEN "stopped" ELSE IF seen[g] # 0 THEN "tell" ELSE "delete"

\* Mutant: a client that could not be initialized is forgotten, not closed.
ForgetServer(g) ==
  /\ pc[g] = "shutdown"
  /\ IF AfterShutdown(g) = "delete" THEN UNCHANGED servers
     ELSE EndServer(clients[hand[g]].server)
  /\ Goto(g, AfterShutdown(g))
  /\ UNCHANGED <<clients, map, local, others>>

\* Shutdown and Exit, or Kill when the time is over.
Shutdown(g) ==
  /\ pc[g] = "shutdown"
  /\ EndServer(clients[hand[g]].server)
  /\ Goto(g, AfterShutdown(g))
  /\ UNCHANGED <<clients, map, local, others>>

MarkStopped(g) ==
  /\ pc[g] = "stopped"
  /\ SetState(hand[g], "stopped")
  /\ Goto(g, IF g = "restarter" THEN "recreate" ELSE "delete")
  /\ UNCHANGED <<servers, map, local, others>>

\* Mutant: those that were stopped are not reported.
DeleteSilently(g) ==
  /\ pc[g] = "delete"
  /\ entry' = 0
  /\ lost' = IF entry \in {0, hand[g]} THEN lost ELSE lost \cup {"deleted"}
  /\ Goto(g, IF g \in Tools THEN "tell" ELSE "done")
  /\ UNCHANGED <<documents, unavailable, local, others>>

\* Del takes whatever is in the map under the name.
Delete(g) ==
  /\ pc[g] = "delete"
  /\ entry' = 0
  /\ lost' = IF entry \in {0, hand[g]} THEN lost ELSE lost \cup {"deleted"}
  /\ Goto(g, "tell")
  /\ UNCHANGED <<documents, unavailable, local, others>>

\* StopAll closes the clients of a copy of the map, KillAll kills them.
StopAll ==
  /\ Comes("stopper") /\ entry # 0
  /\ hand' = [hand EXCEPT !["stopper"] = entry]
  /\ Goto("stopper", "close")
  /\ UNCHANGED <<documents, map, seen, others>>

KillAll ==
  /\ Comes("killer") /\ entry # 0
  /\ hand' = [hand EXCEPT !["killer"] = entry]
  /\ Goto("killer", "shutdown")
  /\ UNCHANGED <<documents, map, seen, others>>

-----------------------------------------------------------------------------
(* Restart *)

Restart ==
  /\ Comes("restarter") /\ entry # 0
  /\ hand' = [hand EXCEPT !["restarter"] = entry]
  /\ restarted' = "running"
  /\ Goto("restarter", "close")
  /\ UNCHANGED <<documents, map, seen, over, shown, faults>>

\* Goroutine g has ended the process of client c, or is about to.
Ends(g, c) == hand[g] = c /\ pc[g] \in {"close", "shutdown", "stopped", "delete"}

Recreate ==
  LET c == hand["restarter"] IN
  /\ pc["restarter"] = "recreate"
  /\ \/ /\ servers' = NewServer
        /\ clients' = [clients EXCEPT ![c] =
                          [@ EXCEPT !.server = Len(servers) + 1, !.state = "starting"]]
        /\ lost' = IF entry = c /\ ~\E g \in Actors \ {"restarter"} : Ends(g, c)
                   THEN lost ELSE lost \cup {"revived"}
        /\ Goto("restarter", "reinit")
        /\ UNCHANGED <<restarted, faults>>
     \/ /\ Fault
        /\ restarted' = "failed"
        /\ Goto("restarter", "done")
        /\ UNCHANGED <<documents, lost>>
  /\ UNCHANGED <<entry, unavailable, local, over, shown>>

Reinitialize ==
  LET c == hand["restarter"] IN
  /\ pc["restarter"] = "reinit"
  /\ \/ /\ Answers(c)
        /\ SetState(c, "starting")
        /\ Goto("restarter", "await")
        /\ UNCHANGED <<restarted, faults>>
     \/ /\ Fails(c)
        /\ SetState(c, "error")
        /\ restarted' = "failed"
        /\ Goto("restarter", "done")
  /\ UNCHANGED <<servers, map, local, over, shown>>

\* The documents that were open are given to OpenFile by their URIs, none of
\* which is a path below the working directory: OpenFile does nothing.
BecomeReadyAgain ==
  LET c == hand["restarter"] IN
  /\ pc["restarter"] = "await"
  /\ \/ Server(c).up /\ SetState(c, "ready") /\ restarted' = "ok"
     \/ /\ ~Server(c).up \/ clients[c].ctx \in over
        /\ SetState(c, "error") /\ restarted' = "failed"
  /\ Goto("restarter", "done")
  /\ UNCHANGED <<servers, map, local, over, shown, faults>>

-----------------------------------------------------------------------------
(* notifyLSPs, after Start: the document *)

\* A notification reaches the server, or fails; it waits for one that hangs.
Reaches(c) == Server(c).up /\ ~Server(c).hung
Misses(c)  == ~Server(c).up

Use(g) ==
  /\ pc[g] = "use"
  /\ hand' = [hand EXCEPT ![g] = entry]
  /\ Goto(g, IF entry = 0 THEN "done" ELSE "ondemand")
  /\ UNCHANGED <<documents, map, seen, others>>

\* OpenFileOnDemand: the document is not opened again.
OpenFileOnDemand(g) ==
  /\ pc[g] = "ondemand"
  /\ Goto(g, IF clients[hand[g]].open # 0 THEN "change" ELSE "open")
  /\ UNCHANGED <<documents, map, local, others>>

DidOpen(g) ==
  LET p == clients[hand[g]].server IN
  /\ pc[g] = "open"
  /\ \/ /\ Reaches(hand[g])
        /\ servers' = [servers EXCEPT ![p] = [@ EXCEPT !.opens = servers[p].opens + 1,
                                                      !.version = 1]]
        /\ Goto(g, "noteopen")
     \/ Misses(hand[g]) /\ Goto(g, "change") /\ UNCHANGED servers
  /\ UNCHANGED <<clients, map, local, others>>

NoteOpen(g) ==
  /\ pc[g] = "noteopen"
  /\ clients' = [clients EXCEPT ![hand[g]].open = 1]
  /\ Goto(g, "change")
  /\ UNCHANGED <<servers, map, local, others>>

\* NotifyChange numbers the change and sends it; not that of a closed document.
NextVersion(g) ==
  LET c == hand[g] IN
  /\ pc[g] = "change"
  /\ IF clients[c].open = 0 THEN Goto(g, "wait") /\ UNCHANGED <<clients, seen>>
     ELSE /\ clients' = [clients EXCEPT ![c].open = @ + 1]
          /\ seen' = [seen EXCEPT ![g] = clients[c].open + 1]
          /\ Goto(g, "didchange")
  /\ UNCHANGED <<servers, map, hand, others>>

DidChange(g) ==
  /\ pc[g] = "didchange"
  /\ \/ /\ Reaches(hand[g])
        /\ servers' = [servers EXCEPT ![clients[hand[g]].server].version = seen[g]]
     \/ Misses(hand[g]) /\ UNCHANGED servers
  /\ Goto(g, "wait")
  /\ UNCHANGED <<clients, map, local, others>>

\* WaitForDiagnostics ends after five seconds.
WaitForDiagnostics(g) ==
  /\ pc[g] = "wait"
  /\ Goto(g, "done")
  /\ hand' = [hand EXCEPT ![g] = 0] /\ seen' = [seen EXCEPT ![g] = 0]
  /\ UNCHANGED <<documents, map, others>>

-----------------------------------------------------------------------------
(* The server, and the turns *)

Crash(p) ==
  /\ servers[p].up /\ Fault
  /\ EndServer(p)
  /\ UNCHANGED <<clients, map, pc, overlapped, local, over, shown, restarted>>

Hang(p) ==
  /\ servers[p].up /\ ~servers[p].hung /\ Fault
  /\ servers' = [servers EXCEPT ![p].hung = TRUE]
  /\ UNCHANGED <<clients, map, pc, overlapped, local, over, shown, restarted>>

\* The turn of a tool call ends, or is cancelled, and its context with it.
\* Before New no step asks for the context.
EndContext(g) ==
  /\ g \notin over /\ \E c \in DOMAIN clients : clients[c].ctx = g
  /\ over' = over \cup {g}
  /\ UNCHANGED <<documents, map, pc, overlapped, local, shown, restarted, faults>>

Start(g) ==
  \/ StartServer(g) \/ CheckAgain(g) \/ New(g) \/ Compare(g) \/ Store(g)
  \/ MarkStarting(g) \/ Initialize(g) \/ BecomeReady(g)

Close(g) == CloseAllFiles(g) \/ Shutdown(g) \/ MarkStopped(g) \/ Delete(g) \/ Tell(g)

Notify(g) ==
  \/ Use(g) \/ OpenFileOnDemand(g) \/ DidOpen(g) \/ NoteOpen(g) \/ NextVersion(g)
  \/ DidChange(g) \/ WaitForDiagnostics(g)

Next ==
  \/ \E g \in Tools : Start(g) \/ Notify(g) \/ EndContext(g)
  \/ \E g \in Actors : Close(g)
  \/ StopAll \/ KillAll \/ Restart \/ Recreate \/ Reinitialize \/ BecomeReadyAgain
  \/ \E p \in DOMAIN servers : Crash(p) \/ Hang(p)

\* Every goroutine that can go on does; a tool call, a restart, StopAll and
\* KillAll need not happen, servers need not fail, turns need not end.
Fairness ==
  /\ \A g \in Tools : WF_vars(pc[g] # "idle" /\ (Start(g) \/ Notify(g)))
  /\ \A g \in Actors : WF_vars(Close(g))
  /\ WF_vars(Recreate \/ Reinitialize \/ BecomeReadyAgain)

Spec == Init /\ [][Next]_vars /\ Fairness

-----------------------------------------------------------------------------
(* Properties *)

\* The client has a goroutine that is about to store or to close it.
Held(c) == \E g \in Actors : hand[g] = c /\ pc[g] \in
             {"compare", "store", "close", "shutdown", "stopped", "recreate"}

\* Every process that runs can be reached through the map, or a goroutine is
\* about to store or to close it, so that KillAll kills all (manager.go:328).
\* A process is lost in no more than four ways.  One takes a single goroutine:
\* a client in the error state is overwritten by the next, whose process may
\* well run.  Three take two at once: a client in use is overwritten, a
\* failed start or a stop deletes the client of another goroutine, a client
\* is restarted that is being stopped.
ServersAreReachable ==
  /\ lost \subseteq {"errored"} \/ overlapped # {}
  /\ lost = {} =>
       \A p \in DOMAIN servers :
         servers[p].up =>
           \/ entry # 0 /\ clients[entry].server = p
           \/ \E c \in DOMAIN clients : clients[c].server = p /\ Held(c)

\* A document that the client has as open is open in the server, once and at
\* no later version when the calls come one after the other, and at least
\* once when they do not (client.go:360), as long as the server does not fail:
\* CloseAllFiles keeps what it cannot close (client.go:428).
DocumentsAgree ==
  \A c \in DOMAIN clients :
    clients[c].open # 0 /\ Server(c).up /\ faults = 0 /\ ~Held(c) =>
      /\ "managers" \notin overlapped => Server(c).opens >= 1
      /\ overlapped = {} => Server(c).opens = 1 /\ Server(c).version <= clients[c].open

AtRest == \A g \in Actors : pc[g] \in {"idle", "done"}

\* What the UI shows as ready is in the map and ready (app.go:132): unless two
\* were at work at once, or Restart, which tells nobody, has changed it.
ShownAsReadyIsReady ==
  AtRest /\ shown = "ready" =>
    \/ overlapped # {} \/ restarted # "none"
    \/ entry # 0 /\ clients[entry].state = "ready"

\* A tool call ends, whatever fails, as long as no server stops reading
\* (client.go:303, 528).
CallsEnd ==
  \A g \in Tools :
    pc[g] # "idle" ~> pc[g] = "done" \/ \E p \in DOMAIN servers : servers[p].hung

\* "If another goroutine raced us, prefer the already-stored client."
\* (manager.go:203).  The code does not have this: the look at 205 and the
\* Set at 213 are two operations.
FirstClientIsKept == [][Usable(entry) => entry' \in {entry, 0}]_vars

\* "OpenFileOnDemand opens a file only if it's not already open."
\* (client.go:487).  The code does not have this: two calls look before
\* either has opened it.
OpenedOnce == \A p \in DOMAIN servers : servers[p].opens <= 1

\* "Restart closes the current LSP client and creates a new one with the same
\* configuration." (client.go:210).  The code does not have this: the new one
\* lives in the context of the tool call that once started the server.
RestartFailsOnFaults == restarted = "failed" => faults > 0

\* "If shutdown takes longer than closeTimeout, it falls back to Kill()."
\* (client.go:135).  The code does not have this: CloseAllFiles comes before
\* the timer, and waits for a server that reads nothing.
CloseEnds == \A g \in Actors : pc[g] = "close" ~> pc[g] # "close"

\* The versions a server is told only grow.  The code does not have this: a
\* change is numbered before it is sent, and by whoever comes first.
VersionsGrow ==
  [][\A p \in DOMAIN servers :
       servers'[p].version >= servers[p].version \/ servers'[p].version = 0]_vars
=============================================================================

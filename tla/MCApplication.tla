--------------------------- MODULE MCApplication ---------------------------
(* Small instances of Application for TLC. *)
EXTENDS Application

CONSTANTS t1, t2

TwoTools == {t1, t2}

(* What LanguageServers states and the code does not have, by a name that a
   configuration can give. *)

\* The client that is stored first stays (manager.go:203).
FirstClientIsKept == LSP!FirstClientIsKept

\* A process is told once that a document is open (client.go:487).
OpenedOnce == LSP!OpenedOnce

\* Without a fault lsp_restart succeeds (client.go:210).
RestartFailsOnFaults == LSP!RestartFailsOnFaults

\* Closing a client ends (client.go:135).
CloseEnds == LSP!CloseEnds

\* The versions a process is told grow (client.go:360).
VersionsGrow == LSP!VersionsGrow
=============================================================================

-------------------------- MODULE BackgroundShells --------------------------
(***************************************************************************)
(* internal/shell/background.go, the manager of the shells that run        *)
(* commands, and its users: the bash tool (a call starts one shell and     *)
(* waits for it, or leaves it in the background), the job_kill and         *)
(* job_output tools, and KillAll at the end of the program.                *)
(*                                                                         *)
(* A shell's ID is the call that started it: idCounter never repeats one.  *)
(* The command itself, run by mvdan/sh in ExecStream, is external: it ends *)
(* by itself or, if it is not one that ignores signals, when cancelled.    *)
(***************************************************************************)
EXTENDS Naturals, FiniteSets

CONSTANTS
    Calls,     \* calls of the bash tool
    Killers,   \* calls of job_kill
    Readers,   \* calls of job_output with Wait
    MaxJobs,   \* MaxBackgroundJobs
    Stubborn,  \* the calls whose command ignores its cancellation
    None       \* no shell

ASSUME ShellsAssumption ==
    /\ IsFiniteSet(Calls)
    /\ Calls \cap (Killers \cup Readers) = {}
    /\ Killers \cap Readers = {}
    /\ MaxJobs \in Nat
    /\ Stubborn \subseteq Calls
    /\ None \notin Calls

VARIABLES
    shells,     \* the manager's map
    started,    \* shells whose goroutine was started
    exit,       \* exitErr of each shell: its command's own, or interrupted
    cancelled,  \* shells whose context is cancelled
    aged,       \* shells in the map whose retention period is over
    pc,         \* where each tool call is
    ctxDone,    \* tool calls whose context is done
    target,     \* the shell job_kill or job_output was called for
    stale,      \* the jobs a call's Cleanup has listed and not removed yet
    killAll,    \* where KillAll is
    victims     \* the shells KillAll has collected

shellVars   == <<started, exit, cancelled, aged>>
killAllVars == <<killAll, victims>>
vars == <<shells, started, exit, cancelled, aged, pc, ctxDone, target, stale,
          killAll, victims>>

Tools == Calls \cup Killers \cup Readers

TypeOK ==
    /\ shells \subseteq Calls
    /\ started \subseteq Calls
    /\ exit \in [Calls -> {"none", "own", "interrupted"}]
    /\ cancelled \subseteq started
    /\ aged \subseteq started
    /\ pc \in [Tools -> {"start", "cleanup", "register", "peek", "wait", "take", "kill",
                         "await", "block", "failed", "completed", "background",
                         "cancelled", "killed", "notFound", "status"}]
    /\ ctxDone \subseteq Tools
    /\ target \in [Killers \cup Readers -> Calls \cup {None}]
    /\ stale \in [Calls -> SUBSET Calls]
    /\ killAll \in {"idle", "reset", "cancel", "clean", "timedOut"}
    /\ victims \subseteq started

Init ==
    /\ shells = {}
    /\ started = {}
    /\ exit = [c \in Calls |-> "none"]
    /\ cancelled = {}
    /\ aged = {}
    /\ pc = [t \in Tools |-> "start"]
    /\ ctxDone = {}
    /\ target = [t \in Killers \cup Readers |-> None]
    /\ stale = [c \in Calls |-> {}]
    /\ killAll = "idle"
    /\ victims = {}

Goto(t, l) == pc' = [pc EXCEPT ![t] = l]

\* The done channel is closed: exitErr and completedAt are set just before.
Done(s)    == exit[s] # "none"
Running(s) == s \in started /\ ~Done(s)

-----------------------------------------------------------------------------
(* The bash tool. *)

\* Mutant: every completed job counts as old.
ListStaleCompleted(c) ==
    /\ pc[c] = "start"
    /\ stale' = [stale EXCEPT ![c] = {s \in shells : Done(s)}]
    /\ Goto(c, "cleanup")
    /\ UNCHANGED <<shells, shellVars, ctxDone, target, killAllVars>>

\* bgManager.Cleanup(): the jobs that completed too long ago are listed ...
ListStale(c) ==
    /\ pc[c] = "start"
    /\ stale' = [stale EXCEPT ![c] = shells \cap aged]
    /\ Goto(c, "cleanup")
    /\ UNCHANGED <<shells, shellVars, ctxDone, target, killAllVars>>

\* ... and removed one after the other.
RemoveStale(c) ==
    /\ pc[c] = "cleanup"
    /\ \E s \in stale[c] :
          /\ shells' = shells \ {s}
          /\ stale' = [stale EXCEPT ![c] = @ \ {s}]
    /\ UNCHANGED <<shellVars, pc, ctxDone, target, killAllVars>>

\* Start: if m.shells.Len() >= MaxBackgroundJobs
CheckLimit(c) ==
    /\ pc[c] = "cleanup"
    /\ stale[c] = {}
    /\ Goto(c, IF Cardinality(shells) >= MaxJobs THEN "failed" ELSE "register")
    /\ UNCHANGED <<shells, shellVars, ctxDone, target, stale, killAllVars>>

\* Start: m.shells.Set(id, bgShell), and the goroutine that runs the command.
\* The call asked for the background, or waits.
Start(c) ==
    /\ pc[c] = "register"
    /\ shells' = shells \cup {c}
    /\ started' = started \cup {c}
    /\ \E l \in {"peek", "wait"} : Goto(c, l)
    /\ UNCHANGED <<exit, cancelled, aged, ctxDone, target, stale, killAllVars>>

\* GetOutput says done, at a tick, at the timeout, or a second after a start in
\* the background: bgManager.Remove(bgShell.ID), and the command's result.
Complete(c) ==
    /\ pc[c] \in {"peek", "wait"}
    /\ Done(c)
    /\ shells' = shells \ {c}
    /\ Goto(c, "completed")
    /\ UNCHANGED <<shellVars, ctxDone, target, stale, killAllVars>>

\* Mutants: the timeout cancels the command and its result is awaited; the job
\* that goes on is removed like one that is done.
TimeoutCancels(c) ==
    /\ pc[c] \in {"peek", "wait"}
    /\ ~Done(c)
    /\ cancelled' = cancelled \cup {c}
    /\ UNCHANGED <<shells, started, exit, aged, pc, ctxDone, target, stale, killAllVars>>
TimeoutRemoves(c) ==
    /\ pc[c] \in {"peek", "wait"}
    /\ ~Done(c)
    /\ shells' = shells \ {c}
    /\ Goto(c, "background")
    /\ UNCHANGED <<shellVars, ctxDone, target, stale, killAllVars>>

\* GetOutput says not done, at the timeout or a second after a start in the
\* background: the model is told the ID of the job.
MoveToBackground(c) ==
    /\ pc[c] \in {"peek", "wait"}
    /\ ~Done(c)
    /\ Goto(c, "background")
    /\ UNCHANGED <<shells, shellVars, ctxDone, target, stale, killAllVars>>

\* case <-ctx.Done(): the call kills its shell.
Interrupted(c) ==
    /\ pc[c] = "wait"
    /\ c \in ctxDone
    /\ Goto(c, "take")
    /\ UNCHANGED <<shells, shellVars, ctxDone, target, stale, killAllVars>>

-----------------------------------------------------------------------------
(* Kill, for job_kill and for a cancelled call of the bash tool. *)

\* The shells whose ID a call has returned to the model.
Told == {c \in Calls : pc[c] = "background"}

\* job_kill and job_output: bgManager.Get(params.ShellID), with any ID the model
\* gives: IDs are counted through by the process for all sessions, and a resumed
\* session remembers those of an earlier process, so the shell may be one whose
\* call still waits for it.
Find(t) ==
    /\ pc[t] = "start"
    /\ \E s \in Calls :
          /\ target' = [target EXCEPT ![t] = s]
          /\ Goto(t, IF s \notin shells THEN "notFound"
                     ELSE IF t \in Killers THEN "take" ELSE "block")
    /\ UNCHANGED <<shells, shellVars, ctxDone, stale, killAllVars>>

Victim(t) == IF t \in Calls THEN t ELSE target[t]

\* Kill: shell, ok := m.shells.Take(id).  The bash tool ignores an error.
Take(t) ==
    /\ pc[t] = "take"
    /\ IF Victim(t) \in shells
       THEN shells' = shells \ {Victim(t)} /\ Goto(t, "kill")
       ELSE Goto(t, IF t \in Calls THEN "cancelled" ELSE "notFound") /\ UNCHANGED shells
    /\ UNCHANGED <<shellVars, ctxDone, target, stale, killAllVars>>

\* Mutant: the shell is forgotten, not cancelled.
CancelShellNot(t) ==
    /\ pc[t] = "kill"
    /\ Goto(t, "await")
    /\ UNCHANGED <<shells, shellVars, ctxDone, target, stale, killAllVars>>

\* Kill: shell.cancel()
CancelShell(t) ==
    /\ pc[t] = "kill"
    /\ cancelled' = cancelled \cup {Victim(t)}
    /\ Goto(t, "await")
    /\ UNCHANGED <<shells, started, exit, aged, ctxDone, target, stale, killAllVars>>

\* Kill: <-shell.done
Killed(t) ==
    /\ pc[t] = "await"
    /\ Done(Victim(t))
    /\ Goto(t, IF t \in Calls THEN "cancelled" ELSE "killed")
    /\ UNCHANGED <<shells, shellVars, ctxDone, target, stale, killAllVars>>

\* job_output: WaitContext returns, GetOutput and the status follow.
Read(t) ==
    /\ pc[t] = "block"
    /\ Done(target[t]) \/ t \in ctxDone
    /\ Goto(t, "status")
    /\ UNCHANGED <<shells, shellVars, ctxDone, target, stale, killAllVars>>

-----------------------------------------------------------------------------
(* KillAll. *)

\* shells := slices.Collect(m.shells.Seq())
Collect ==
    /\ killAll = "idle"
    /\ victims' = shells
    /\ killAll' = "reset"
    /\ UNCHANGED <<shells, shellVars, pc, ctxDone, target, stale>>

\* m.shells.Reset(map[string]*BackgroundShell{})
Reset ==
    /\ killAll = "reset"
    /\ shells' = {}
    /\ killAll' = "cancel"
    /\ UNCHANGED <<shellVars, pc, ctxDone, target, stale, victims>>

\* The goroutine of s: shell.cancel()
CancelVictim(s) ==
    /\ killAll = "cancel"
    /\ s \in victims \ cancelled
    /\ cancelled' = cancelled \cup {s}
    /\ UNCHANGED <<shells, started, exit, aged, pc, ctxDone, target, stale, killAllVars>>

\* Mutant: KillAll waits for every shell, however long it takes.
KillAllReturnsLate ==
    /\ killAll = "cancel"
    /\ victims \subseteq cancelled
    /\ \A s \in victims : Done(s)
    /\ killAll' = "clean"
    /\ UNCHANGED <<shells, shellVars, pc, ctxDone, target, stale, victims>>

\* Every goroutine has seen its shell done, or the context's timeout.
KillAllReturns ==
    /\ killAll = "cancel"
    /\ victims \subseteq cancelled
    /\ killAll' = IF \A s \in victims : Done(s) THEN "clean" ELSE "timedOut"
    /\ UNCHANGED <<shells, shellVars, pc, ctxDone, target, stale, victims>>

-----------------------------------------------------------------------------
(* The command and the environment. *)

\* ExecStream returns; exitErr and completedAt are set and done is closed.
Exit(s) ==
    /\ Running(s)
    /\ \E e \in {"own"} \cup (IF s \in cancelled \ Stubborn THEN {"interrupted"} ELSE {}) :
          exit' = [exit EXCEPT ![s] = e]
    /\ UNCHANGED <<shells, started, cancelled, aged, pc, ctxDone, target, stale, killAllVars>>

\* CompletedJobRetentionMinutes pass.
Age(s) ==
    /\ s \in shells
    /\ pc[s] = "background"
    /\ Done(s)
    /\ s \notin aged
    /\ aged' = aged \cup {s}
    /\ UNCHANGED <<shells, started, exit, cancelled, pc, ctxDone, target, stale, killAllVars>>

\* The run that the tool call belongs to is cancelled.
CancelContext(t) ==
    /\ pc[t] \in {"wait", "block"}
    /\ t \notin ctxDone
    /\ ctxDone' = ctxDone \cup {t}
    /\ UNCHANGED <<shells, shellVars, pc, target, stale, killAllVars>>

-----------------------------------------------------------------------------
BashStep(c) ==
    \/ ListStale(c) \/ RemoveStale(c) \/ CheckLimit(c) \/ Start(c)
    \/ Complete(c) \/ Interrupted(c)
KillStep(t) == Take(t) \/ CancelShell(t) \/ Killed(t)
KillAll == Reset \/ (\E s \in Calls : CancelVictim(s)) \/ KillAllReturns

Next ==
    \/ \E c \in Calls : BashStep(c) \/ MoveToBackground(c)
    \/ \E t \in Killers \cup Readers : Find(t)
    \/ \E t \in Calls \cup Killers : KillStep(t)
    \/ \E t \in Readers : Read(t)
    \/ Collect \/ KillAll
    \/ \E s \in Calls : Exit(s) \/ Age(s)
    \/ \E t \in Calls \cup Readers : CancelContext(t)

Spec == Init /\ [][Next]_vars

\* Goroutines that can go on do, and a command that is cancelled and does not
\* ignore it ends: the interpreter kills it.  No other command has to end.
Fairness ==
    /\ \A c \in Calls : WF_vars(BashStep(c))
    /\ \A t \in Calls \cup Killers : WF_vars(KillStep(t))
    /\ \A t \in Readers : WF_vars(Read(t))
    /\ WF_vars(KillAll)
    /\ \A c \in Calls \ Stubborn : WF_vars(c \in cancelled /\ Exit(c))
FairSpec == Spec /\ Fairness

-----------------------------------------------------------------------------
(* Properties *)

\* Someone is about to cancel s: it was taken out of the map for that.
BeingKilled(s) == \E t \in Calls \cup Killers : pc[t] = "kill" /\ Victim(t) = s

\* A command that runs can always be found: it is in the map, or was cancelled,
\* or is about to be.  No path of the bash tool forgets a command that still runs.
RunningIsReachable ==
    killAll = "idle" =>
        \A s \in Calls : Running(s) => s \in shells \cup cancelled \/ BeingKilled(s)

\* A job whose ID the model was given keeps its output until it was killed, or
\* the retention period is over; cleanups by other calls do not take it away.
OutputIsKept ==
    killAll = "idle" =>
        \A s \in Told : s \in shells \cup aged \cup cancelled \/ BeingKilled(s)

\* A job_kill was called for s, and has cancelled it.
KilledByJob(s) == \E t \in Killers : target[t] = s /\ pc[t] \in {"await", "killed"}

\* A call that returns a result returns the command's own, unless a job_kill
\* named its very shell: no timeout, no cancellation of its own or of another
\* call, no cleanup and no kill of another shell interrupts a command whose
\* result is then returned as if it were complete.
ResultIsGenuine ==
    killAll = "idle" =>
        \A c \in Calls : pc[c] = "completed" => exit[c] = "own" \/ KilledByJob(c)

\* A cancelled call returns, unless its own command ignores the cancellation;
\* other calls' stubborn commands do not hold it up.
CancelledCallReturns ==
    \A c \in Calls \ Stubborn :
        pc[c] = "wait" /\ c \in ctxDone ~> pc[c] \in {"cancelled", "completed", "background"}

\* Whoever waits for the output of a job that is killed, and ends, is woken,
\* although the job has left the map.
ReaderWakes ==
    \A t \in Readers :
        pc[t] = "block" /\ target[t] \in cancelled \ Stubborn ~> pc[t] = "status"

\* The end of the program is not held up by commands that ignore cancellation.
KillAllEnds == killAll = "reset" ~> killAll \in {"clean", "timedOut"}
=============================================================================

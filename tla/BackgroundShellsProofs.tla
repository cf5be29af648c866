----------------------- MODULE BackgroundShellsProofs -----------------------
(***************************************************************************)
(* Proofs about BackgroundShells: until the program ends, no command that   *)
(* runs is forgotten, no job loses its output, and no result is what a      *)
(* cancellation made of it unless job_kill named the command's own shell,   *)
(* for any number of calls and any limit of jobs.                           *)
(***************************************************************************)
EXTENDS BackgroundShells, TLAPS

-----------------------------------------------------------------------------
(* Types.                                                                  *)

Phases == {"start", "cleanup", "register", "peek", "wait", "take", "kill", "await", "block",
           "failed", "completed", "background", "cancelled", "killed", "notFound", "status"}

\* Where a call is that has started its shell and not yet returned a result.
Begun == {"peek", "wait", "take", "kill", "await", "background"}

\* A call's shell was started before it is waited for, killed or told of, and
\* whoever kills or reads a shell has found one that was started.
Typed ==
  /\ TypeOK
  /\ shells \subseteq started
  /\ \A c \in Calls : pc[c] \in Begun => c \in started
  /\ \A t \in Killers \cup Readers : pc[t] \notin {"start", "notFound"} => target[t] \in started

\* Nobody kills or reads two things at once: the tools are told apart.
LEMMA ToolsDiffer ==
  /\ Calls \subseteq Tools /\ Killers \subseteq Tools /\ Readers \subseteq Tools
  /\ \A t \in Killers \cup Readers : t \notin Calls
  /\ \A t \in Killers : t \notin Readers
  /\ None \notin Calls
BY ShellsAssumption DEF Tools

\* The types hold initially.
LEMMA TypedInit == Init => Typed
BY ToolsDiffer DEF Init, Typed, TypeOK, Begun

\* What a call may do to the phases: it begins with a shell of its own.
CallMoves ==
  /\ pc' \in [Tools -> Phases]
  /\ \A c \in Calls : pc'[c] \in Begun => pc[c] \in Begun \/ c \in started'
  /\ started \subseteq started' /\ started' \subseteq Calls

\* A step that keeps the targets, but for a tool's that finds a started shell,
\* keeps the types of the phases.
LEMMA PhasesKept ==
  ASSUME Typed, CallMoves, shells' \subseteq started',
         target' \in [Killers \cup Readers -> Calls \cup {None}],
         \A t \in Killers \cup Readers : pc'[t] \notin {"start", "notFound"} =>
           \/ target'[t] \in started
           \/ target'[t] = target[t] /\ pc[t] \notin {"start", "notFound"}
  PROVE  /\ shells' \subseteq started'
         /\ \A c \in Calls : pc'[c] \in Begun => c \in started'
         /\ \A t \in Killers \cup Readers :
              pc'[t] \notin {"start", "notFound"} => target'[t] \in started'
BY DEF Typed, CallMoves

\* The types are kept by every step.
LEMMA TypedStep == Typed /\ [Next]_vars => Typed'
<1> SUFFICES ASSUME Typed, [Next]_vars PROVE Typed'
  OBVIOUS
<1>0. /\ pc \in [Tools -> Phases] /\ started \subseteq Calls
      /\ target \in [Killers \cup Readers -> Calls \cup {None}]
  BY DEF Typed, TypeOK, Phases
<1>1. CASE UNCHANGED vars
  BY <1>1 DEF vars, shellVars, killAllVars, Typed, TypeOK
<1>2. ASSUME NEW c \in Calls, BashStep(c) \/ MoveToBackground(c) PROVE Typed'
  <2>1. /\ \A u \in Tools \ {c} : pc'[u] = pc[u]
        /\ pc'[c] \in Phases /\ pc' \in [Tools -> Phases]
        /\ pc'[c] \in Begun => pc[c] \in Begun \/ c \in started'
    BY <1>0, <1>2, ToolsDiffer
       DEF BashStep, ListStale, RemoveStale, CheckLimit, Start, Complete, Interrupted,
           MoveToBackground, Goto, Phases, Begun
  <2>2. /\ started' \in {started, started \cup {c}} /\ shells' \subseteq shells \cup {c}
        /\ shells' \subseteq started' /\ stale' \in [Calls -> SUBSET Calls]
        /\ UNCHANGED <<exit, cancelled, aged, ctxDone, target, killAll, victims>>
    BY <1>2 DEF BashStep, ListStale, RemoveStale, CheckLimit, Start, Complete, Interrupted,
                MoveToBackground, shellVars, killAllVars, Typed, TypeOK
  <2>3. CallMoves
    BY <1>0, <2>1, <2>2, ToolsDiffer DEF CallMoves
  <2>4. \A t \in Killers \cup Readers : pc'[t] = pc[t]
    BY <2>1, ToolsDiffer
  <2>5. /\ \A d \in Calls : pc'[d] \in Begun => d \in started'
        /\ \A t \in Killers \cup Readers :
             pc'[t] \notin {"start", "notFound"} => target'[t] \in started'
    BY <1>0, <2>2, <2>3, <2>4, PhasesKept DEF Typed
  <2> QED
    BY <1>0, <2>1, <2>2, <2>5 DEF Typed, TypeOK, Phases
<1>3. ASSUME NEW t \in Killers \cup Readers, Find(t) PROVE Typed'
  <2>1. PICK s \in Calls : /\ target' = [target EXCEPT ![t] = s]
                           /\ Goto(t, IF s \notin shells THEN "notFound"
                                      ELSE IF t \in Killers THEN "take" ELSE "block")
    BY <1>3 DEF Find
  <2>2. UNCHANGED <<shells, started, exit, cancelled, aged, ctxDone, stale, killAll, victims>>
    BY <1>3 DEF Find, shellVars, killAllVars
  <2>3. target' \in [Killers \cup Readers -> Calls \cup {None}]
    BY <1>0, <2>1
  <2>4. pc' \in [Tools -> Phases] /\ \A u \in Tools \ {t} : pc'[u] = pc[u]
    BY <1>0, <2>1, ToolsDiffer DEF Goto, Phases
  <2>5. CallMoves /\ shells' \subseteq started'
    BY <1>0, <2>2, <2>4, ToolsDiffer DEF CallMoves, Typed
  <2>6. \A u \in Killers \cup Readers : pc'[u] \notin {"start", "notFound"} =>
           \/ target'[u] \in started
           \/ target'[u] = target[u] /\ pc[u] \notin {"start", "notFound"}
    <3>1. s \notin shells => pc'[t] = "notFound"
      BY <1>0, <2>1, ToolsDiffer DEF Goto
    <3>2. ASSUME NEW u \in (Killers \cup Readers) \ {t}
          PROVE  target'[u] = target[u] /\ pc'[u] = pc[u]
      BY <1>0, <2>1, <2>4, ToolsDiffer
    <3>3. target'[t] = s
      BY <1>0, <2>1
    <3> QED
      BY <3>1, <3>2, <3>3 DEF Typed
  <2>7. /\ \A d \in Calls : pc'[d] \in Begun => d \in started'
        /\ \A u \in Killers \cup Readers :
             pc'[u] \notin {"start", "notFound"} => target'[u] \in started'
    BY <2>3, <2>5, <2>6, PhasesKept
  <2> QED
    BY <2>2, <2>3, <2>4, <2>5, <2>7 DEF Typed, TypeOK, Phases
<1>4. ASSUME NEW t \in Tools, pc[t] \notin {"start", "notFound"},
             pc' \in [Tools -> Phases], \A u \in Tools \ {t} : pc'[u] = pc[u],
             pc'[t] \in Begun => pc[t] \in Begun,
             shells' \subseteq shells, cancelled' \subseteq started,
             started' = started, exit' = exit, aged' = aged, ctxDone' = ctxDone,
             target' = target, stale' = stale, killAll' = killAll, victims' = victims
      PROVE  Typed'
  <2>1. CallMoves /\ shells' \subseteq started'
    BY <1>0, <1>4, ToolsDiffer DEF CallMoves, Typed
  <2>2. \A u \in Killers \cup Readers :
          pc'[u] \notin {"start", "notFound"} =>
            target'[u] = target[u] /\ pc[u] \notin {"start", "notFound"}
    BY <1>4, ToolsDiffer
  <2>3. /\ \A d \in Calls : pc'[d] \in Begun => d \in started'
        /\ \A u \in Killers \cup Readers :
             pc'[u] \notin {"start", "notFound"} => target'[u] \in started'
    BY <1>0, <1>4, <2>1, <2>2, PhasesKept
  <2> QED
    BY <1>4, <2>1, <2>3 DEF Typed, TypeOK, Phases
<1>5. ASSUME NEW t \in Calls \cup Killers, KillStep(t) PROVE Typed'
  <2>1. /\ t \in Tools /\ pc[t] \in {"take", "kill", "await"}
        /\ pc' \in [Tools -> Phases] /\ \A u \in Tools \ {t} : pc'[u] = pc[u]
    BY <1>0, <1>5, ToolsDiffer DEF KillStep, Take, CancelShell, Killed, Phases, Goto
  <2>2. /\ started' = started /\ exit' = exit /\ aged' = aged /\ ctxDone' = ctxDone
        /\ target' = target /\ stale' = stale /\ killAll' = killAll /\ victims' = victims
        /\ shells' \subseteq shells
        /\ cancelled' = cancelled \/ (cancelled' = cancelled \cup {Victim(t)} /\ pc[t] = "kill")
    BY <1>5 DEF KillStep, Take, CancelShell, Killed, shellVars, killAllVars
  <2>3. pc[t] = "kill" => Victim(t) \in started
    BY <1>5 DEF Victim, Typed, Begun
  <2>4. cancelled' \subseteq started
    BY <2>2, <2>3 DEF Typed, TypeOK
  <2>5. pc[t] \in Begun /\ pc[t] \notin {"start", "notFound"}
    BY <2>1 DEF Begun
  <2> QED
    BY <1>4, <2>1, <2>2, <2>4, <2>5
<1>6. ASSUME NEW t \in Readers, Read(t) PROVE Typed'
  <2>1. /\ t \in Tools /\ pc[t] = "block" /\ pc'[t] = "status"
        /\ pc' \in [Tools -> Phases] /\ \A u \in Tools \ {t} : pc'[u] = pc[u]
    BY <1>0, <1>6, ToolsDiffer DEF Read, Phases, Goto
  <2>2. /\ started' = started /\ exit' = exit /\ aged' = aged /\ ctxDone' = ctxDone
        /\ target' = target /\ stale' = stale /\ killAll' = killAll /\ victims' = victims
        /\ shells' = shells /\ cancelled' = cancelled
    BY <1>6 DEF Read, shellVars, killAllVars
  <2>3. pc'[t] \notin Begun /\ pc[t] \notin {"start", "notFound"} /\ cancelled' \subseteq started
    BY <2>1, <2>2 DEF Begun, Typed, TypeOK
  <2> QED
    BY <1>4, <2>1, <2>2, <2>3
<1>7. ASSUME pc' = pc, target' = target, started' = started, shells' \subseteq shells,
             stale' = stale,
             cancelled' \subseteq started, aged' \subseteq started, victims' \subseteq started,
             exit' \in [Calls -> {"none", "own", "interrupted"}], ctxDone' \subseteq Tools,
             killAll' \in {"idle", "reset", "cancel", "clean", "timedOut"}
      PROVE  Typed'
  BY <1>7 DEF Typed, TypeOK
<1>8. CASE Collect \/ KillAll
  BY <1>7, <1>8 DEF Collect, KillAll, Reset, CancelVictim, KillAllReturns, shellVars, killAllVars,
                    Typed, TypeOK
<1>9. ASSUME NEW s \in Calls, Exit(s) \/ Age(s) PROVE Typed'
  BY <1>7, <1>9 DEF Exit, Age, Running, shellVars, killAllVars, Typed, TypeOK
<1>10. ASSUME NEW t \in Calls \cup Readers, CancelContext(t) PROVE Typed'
  BY <1>7, <1>10, ToolsDiffer DEF CancelContext, shellVars, killAllVars, Typed, TypeOK
<1> QED
  BY <1>1, <1>2, <1>3, <1>5, <1>6, <1>8, <1>9, <1>10 DEF Next
-----------------------------------------------------------------------------
(* What is true until the program ends.                                    *)

\* A job is old, or about to be removed as old, only when its command has ended;
\* what interrupted a command is its cancellation.
EndsAreKnown ==
  /\ \A s \in aged : Done(s)
  /\ \A c \in Calls : stale[c] \subseteq aged
  /\ \A c \in Calls : exit[c] = "interrupted" => c \in cancelled

Reachable(s) == s \in shells \cup cancelled \/ BeingKilled(s)

\* Nobody but a job_kill that names it cancels a command whose call may still
\* return its result.
Found ==
  /\ \A s \in Calls : Running(s) => Reachable(s)
  /\ \A s \in Told : Reachable(s) \/ s \in aged
  /\ \A s \in cancelled : pc[s] \in {"await", "cancelled"} \/ KilledByJob(s)
  /\ \A c \in Calls : pc[c] = "completed" => exit[c] = "own" \/ KilledByJob(c)

IInv == Typed /\ EndsAreKnown /\ (killAll = "idle" => Found)

\* The invariant holds initially.
LEMMA InvInit == Init => IInv
BY TypedInit, ToolsDiffer DEF Init, IInv, EndsAreKnown, Found, Running, Told

\* A command's end is final.
LEMMA EndsAreFinal ==
  ASSUME Typed, [Next]_vars
  PROVE  /\ exit' \in [Calls -> {"none", "own", "interrupted"}]
         /\ \A s \in Calls : \/ exit'[s] = exit[s]
                             \/ /\ Running(s) /\ exit'[s] \in {"own", "interrupted"}
                                /\ exit'[s] = "interrupted" => s \in cancelled
         /\ cancelled \subseteq cancelled' /\ aged \subseteq aged'
         /\ \A s \in aged' : s \in aged \/ Done(s)
         /\ \A c \in Calls : stale'[c] \subseteq stale[c] \cup aged
BY DEF Next, vars, shellVars, killAllVars, BashStep, ListStale, RemoveStale, CheckLimit, Start,
       Complete, Interrupted, MoveToBackground, Find, KillStep, Take, CancelShell, Killed, Read,
       Collect, KillAll, Reset, CancelVictim, KillAllReturns, Exit, Age, CancelContext, Typed, TypeOK

\* What is known of the ends is kept by every step.
LEMMA EndsStep == Typed /\ EndsAreKnown /\ [Next]_vars => EndsAreKnown'
<1> SUFFICES ASSUME Typed, EndsAreKnown, [Next]_vars PROVE EndsAreKnown'
  OBVIOUS
<1>1. \A s \in Calls : Done(s) => Done(s)'
  BY EndsAreFinal DEF Done, Running
<1>2. aged \subseteq Calls /\ aged' \subseteq Calls
  BY TypedStep DEF Typed, TypeOK
<1>3. \A s \in aged' : Done(s)'
  BY <1>1, <1>2, EndsAreFinal DEF EndsAreKnown
<1>4. \A c \in Calls : stale'[c] \subseteq aged'
  BY EndsAreFinal DEF EndsAreKnown
<1>5. \A c \in Calls : exit'[c] = "interrupted" => c \in cancelled'
  BY EndsAreFinal DEF EndsAreKnown
<1> QED
  BY <1>3, <1>4, <1>5 DEF EndsAreKnown

\* Who is about to cancel a shell stays so while the others go on.
LEMMA KillsGoOn ==
  ASSUME NEW s, BeingKilled(s),
         \A t \in Calls \cup Killers : pc[t] = "kill" => pc'[t] = "kill" /\ Victim(t)' = Victim(t)
  PROVE  BeingKilled(s)'
BY DEF BeingKilled

\* A job_kill that has cancelled a shell has done so for good.
LEMMA KillsAreFinal ==
  ASSUME NEW s,
         \A t \in Killers : pc[t] \in {"await", "killed"} =>
           pc'[t] \in {"await", "killed"} /\ target'[t] = target[t],
         KilledByJob(s)
  PROVE  KilledByJob(s)'
BY DEF KilledByJob

\* A step of a call before it returns, kills or is interrupted keeps what is
\* found, when it removes nothing that runs or that the model was told of.
LEMMA CallKeepsFound ==
  ASSUME Typed, EndsAreKnown, Found, NEW c \in Calls,
         pc[c] \in {"start", "cleanup", "register", "peek", "wait"}, pc' \in [Tools -> Phases],
         \A u \in Tools \ {c} : pc'[u] = pc[u],
         target' = target, exit' = exit, aged' = aged, cancelled' = cancelled,
         \A s \in shells \ shells' : Done(s) /\ (s \in aged \/ s = c),
         started' \subseteq started \cup shells',
         pc'[c] = "completed" => exit[c] = "own" \/ KilledByJob(c),
         pc'[c] = "background" => Running(c) /\ shells' = shells,
         pc'[c] # "kill"
  PROVE  Found'
<1>1. \A s : BeingKilled(s) => BeingKilled(s)'
  <2>1. \A t \in Calls \cup Killers : pc[t] = "kill" => pc'[t] = "kill" /\ Victim(t)' = Victim(t)
    BY ToolsDiffer DEF Victim
  <2> QED
    BY <2>1, KillsGoOn
<1>2. \A s \in Calls : Running(s)' => Reachable(s)'
  BY <1>1 DEF Found, Running, Reachable, Done
<1>3. \A s \in Told' : Reachable(s)' \/ s \in aged'
  BY <1>1, ToolsDiffer DEF Found, Told, Reachable, Running
<1>6. \A s : KilledByJob(s) => KilledByJob(s)'
  <2>1. \A t \in Killers : pc[t] \in {"await", "killed"} =>
          pc'[t] \in {"await", "killed"} /\ target'[t] = target[t]
    BY ToolsDiffer
  <2> QED
    BY <2>1, KillsAreFinal
<1>4. \A s \in cancelled' : pc'[s] \in {"await", "cancelled"} \/ KilledByJob(s)'
  BY <1>6, ToolsDiffer DEF Found, Typed, TypeOK
<1>5. \A d \in Calls : pc'[d] = "completed" => exit'[d] = "own" \/ KilledByJob(d)'
  BY <1>6, ToolsDiffer DEF Found
<1> QED
  BY <1>2, <1>3, <1>4, <1>5 DEF Found

\* What is found is found after every step, until KillAll begins.
LEMMA FoundStep ==
  ASSUME Typed, EndsAreKnown, Found, Next, killAll' = "idle"
  PROVE  Found'
<1>0. /\ pc \in [Tools -> Phases] /\ started \subseteq Calls /\ shells \subseteq Calls
      /\ cancelled \subseteq Calls /\ aged \subseteq Calls
  BY DEF Typed, TypeOK, Phases
<1>1. ASSUME NEW c \in Calls, BashStep(c) \/ MoveToBackground(c) PROVE Found'
  <2>1. /\ pc[c] \in {"start", "cleanup", "register", "peek", "wait"} /\ pc' \in [Tools -> Phases]
        /\ \A u \in Tools \ {c} : pc'[u] = pc[u]
        /\ pc'[c] # "kill"
        /\ pc'[c] = "completed" => Complete(c)
        /\ pc'[c] = "background" => MoveToBackground(c)
    BY <1>0, <1>1, ToolsDiffer
       DEF BashStep, ListStale, RemoveStale, CheckLimit, Start, Complete, Interrupted,
           MoveToBackground, Goto, Phases
  <2>2. /\ target' = target /\ exit' = exit /\ aged' = aged /\ cancelled' = cancelled
    BY <1>1 DEF BashStep, ListStale, RemoveStale, CheckLimit, Start, Complete, Interrupted,
                MoveToBackground, shellVars
  <2>3. /\ \A s \in shells \ shells' : Done(s) /\ (s \in aged \/ s = c)
        /\ started' \subseteq started \cup shells'
    BY <1>1 DEF BashStep, ListStale, RemoveStale, CheckLimit, Start, Complete, Interrupted,
                MoveToBackground, shellVars, EndsAreKnown
  <2>4. pc'[c] = "completed" => exit[c] = "own" \/ KilledByJob(c)
    <3>1. (c \in cancelled => KilledByJob(c)) /\ exit[c] \in {"none", "own", "interrupted"}
      BY <2>1 DEF Found, Typed, TypeOK
    <3> QED
      BY <2>1, <3>1 DEF Complete, Done, EndsAreKnown
  <2>5. pc'[c] = "background" => Running(c) /\ shells' = shells
    BY <2>1 DEF MoveToBackground, Running, Typed, Begun
  <2> QED
    BY <2>1, <2>2, <2>3, <2>4, <2>5, CallKeepsFound
<1>2. ASSUME NEW t \in Calls \cup Killers, KillStep(t) PROVE Found'
  <2>1. /\ t \in Tools /\ pc' \in [Tools -> Phases] /\ \A u \in Tools \ {t} : pc'[u] = pc[u]
        /\ started' = started /\ exit' = exit /\ aged' = aged /\ target' = target
        /\ pc'[t] \notin {"completed", "background"}
    BY <1>0, <1>2, ToolsDiffer DEF KillStep, Take, CancelShell, Killed, Phases, Goto, shellVars
  <2>2. /\ pc[t] \in {"take", "kill", "await"} /\ Victim(t)' = Victim(t)
        /\ t \in Calls => Victim(t) = t
        /\ t \notin Calls => Victim(t) = target[t] /\ t \in Killers
    BY <1>2, <2>1 DEF KillStep, Take, CancelShell, Killed, Victim
  <2>3. \/ /\ pc[t] = "take" /\ shells' = shells \ {Victim(t)} /\ pc'[t] = "kill"
           /\ cancelled' = cancelled
        \/ /\ pc[t] = "kill" /\ pc'[t] = "await" /\ shells' = shells
           /\ cancelled' = cancelled \cup {Victim(t)}
        \/ /\ pc[t] # "kill" /\ pc'[t] # "kill" /\ shells' = shells /\ cancelled' = cancelled
           /\ pc[t] = "await" => pc'[t] = IF t \in Calls THEN "cancelled" ELSE "killed"
    BY <1>0, <1>2, <2>1 DEF KillStep, Take, CancelShell, Killed, Goto, shellVars
  <2>4. \A s : Reachable(s) => Reachable(s)'
    <3>1. ASSUME NEW s, BeingKilled(s) PROVE BeingKilled(s)' \/ s \in cancelled'
      <4>1. PICK u \in Calls \cup Killers : pc[u] = "kill" /\ Victim(u) = s
        BY <3>1 DEF BeingKilled
      <4>2. CASE u = t
        BY <2>2, <2>3, <4>1, <4>2
      <4>3. CASE u # t
        BY <2>1, <4>1, <4>3, ToolsDiffer DEF BeingKilled, Victim
      <4> QED
        BY <4>2, <4>3
    <3>2. ASSUME NEW s \in shells, s \notin shells' PROVE BeingKilled(s)'
      BY <2>2, <2>3, <3>2 DEF BeingKilled
    <3> QED
      BY <2>3, <3>1, <3>2 DEF Reachable
  <2>5. Told' = Told
    BY <2>1, <2>2, ToolsDiffer DEF Told
  <2>6. \A s : KilledByJob(s) => KilledByJob(s)'
    <3>1. ASSUME NEW u \in Killers, pc[u] \in {"await", "killed"}
          PROVE  pc'[u] \in {"await", "killed"} /\ target'[u] = target[u]
      <4>1. CASE u = t
        BY <2>1, <2>2, <2>3, <3>1, <4>1, ToolsDiffer
      <4>2. CASE u # t
        BY <2>1, <3>1, <4>2, ToolsDiffer
      <4> QED
        BY <4>1, <4>2
    <3> QED
      BY <3>1, KillsAreFinal
  <2>7. \A s \in cancelled' : pc'[s] \in {"await", "cancelled"} \/ KilledByJob(s)'
    <3>1. ASSUME NEW s \in cancelled
          PROVE  pc'[s] \in {"await", "cancelled"} \/ KilledByJob(s)'
      BY <1>0, <2>1, <2>2, <2>3, <2>6, <3>1, ToolsDiffer DEF Found
    <3>2. ASSUME t \notin Calls, pc'[t] = "await" PROVE KilledByJob(Victim(t))'
      BY <2>1, <2>2, <3>2 DEF KilledByJob
    <3> QED
      BY <2>2, <2>3, <3>1, <3>2
  <2>9. \A d \in Calls : pc'[d] = "completed" => exit'[d] = "own" \/ KilledByJob(d)'
    BY <2>1, <2>6, ToolsDiffer DEF Found
  <2>8. \A s : Running(s)' = Running(s)
    BY <2>1 DEF Running, Done
  <2> QED
    BY <2>1, <2>4, <2>5, <2>7, <2>8, <2>9 DEF Found
<1>3. ASSUME \/ pc' = pc
             \/ \E t \in Killers \cup Readers :
                  /\ pc[t] \notin {"kill", "await", "killed"} /\ pc' \in [Tools -> Phases]
                  /\ \A u \in Tools \ {t} : pc'[u] = pc[u]
                  /\ \A u \in (Killers \cup Readers) \ {t} : target'[u] = target[u],
             pc' = pc => target' = target,
             shells' = shells, started' = started, cancelled' = cancelled
      PROVE  Found'
  <2>1. \A t \in Calls \cup Killers : pc[t] = "kill" => pc'[t] = "kill" /\ Victim(t)' = Victim(t)
    BY <1>3, ToolsDiffer DEF Victim
  <2>2. \A s : Reachable(s) => Reachable(s)'
    BY <1>3, <2>1, KillsGoOn DEF Reachable
  <2>3. \A c \in Calls : pc'[c] = pc[c]
    BY <1>3, ToolsDiffer
  <2>4. Told' = Told
    BY <2>3 DEF Told
  <2>5. \A s \in Calls : (Running(s)' => Running(s)) /\ (exit[s] = "own" => exit'[s] = "own")
    BY <1>3, EndsAreFinal DEF Running, Done
  <2>6. aged \subseteq aged'
    BY EndsAreFinal
  <2>7. \A s : KilledByJob(s) => KilledByJob(s)'
    <3>1. \A t \in Killers : pc[t] \in {"await", "killed"} =>
            pc'[t] \in {"await", "killed"} /\ target'[t] = target[t]
      BY <1>3, ToolsDiffer
    <3> QED
      BY <3>1, KillsAreFinal
  <2>8. \A s \in cancelled' : pc'[s] \in {"await", "cancelled"} \/ KilledByJob(s)'
    BY <1>0, <1>3, <2>3, <2>7 DEF Found
  <2> QED
    BY <1>3, <2>2, <2>3, <2>4, <2>5, <2>6, <2>7, <2>8 DEF Found
<1>4. ASSUME NEW t \in Killers \cup Readers, Find(t) \/ (t \in Readers /\ Read(t)) PROVE Found'
  <2>1. /\ pc[t] \notin {"kill", "await", "killed"}
        /\ pc' \in [Tools -> Phases] /\ \A u \in Tools \ {t} : pc'[u] = pc[u]
        /\ \A u \in (Killers \cup Readers) \ {t} : target'[u] = target[u]
        /\ pc'[t] # pc[t]
        /\ shells' = shells /\ started' = started /\ cancelled' = cancelled
    BY <1>0, <1>4, ToolsDiffer DEF Find, Read, Goto, Phases, shellVars, Typed, TypeOK
  <2> QED
    BY <1>3, <2>1
<1>5. ASSUME NEW s \in Calls, Exit(s) \/ Age(s) PROVE Found'
  BY <1>3, <1>5 DEF Exit, Age
<1>6. ASSUME NEW t \in Calls \cup Readers, CancelContext(t) PROVE Found'
  BY <1>3, <1>6 DEF CancelContext, shellVars
<1>7. ~Collect /\ ~KillAll
  BY DEF Collect, KillAll, Reset, CancelVictim, KillAllReturns, killAllVars
<1> QED
  BY <1>1, <1>2, <1>4, <1>5, <1>6, <1>7 DEF Next

\* The invariant holds in every state.
THEOREM InvHolds == Spec => []IInv
<1>1. IInv /\ [Next]_vars => IInv'
  <2> SUFFICES ASSUME IInv, [Next]_vars PROVE IInv'
    OBVIOUS
  <2>1. Typed' /\ EndsAreKnown'
    BY TypedStep, EndsStep DEF IInv
  <2>2. killAll' = "idle" => killAll = "idle"
    BY DEF Next, vars, killAllVars, shellVars, BashStep, ListStale, RemoveStale, CheckLimit, Start,
           Complete, Interrupted, MoveToBackground, Find, KillStep, Take, CancelShell, Killed, Read,
           Collect, KillAll, Reset, CancelVictim, KillAllReturns, Exit, Age, CancelContext
  <2>3. ASSUME killAll' = "idle" PROVE Found'
    <3>1. CASE UNCHANGED vars
      BY <2>2, <2>3, <3>1 DEF IInv, vars, shellVars, killAllVars, Found, Running, Done, Reachable,
                              BeingKilled, Victim, Told, KilledByJob
    <3>2. CASE Next
      BY <2>2, <2>3, <3>2, FoundStep DEF IInv
    <3> QED
      BY <3>1, <3>2
  <2> QED
    BY <2>1, <2>3 DEF IInv
<1> QED
  BY <1>1, InvInit, PTL DEF Spec

-----------------------------------------------------------------------------

\* The variables of BackgroundShells keep their types: in particular no shell
\* that was not started is killed, aged or collected.
THEOREM TypeCorrect == Spec => []TypeOK
<1>1. IInv => TypeOK
  BY DEF IInv, Typed
<1> QED
  BY <1>1, InvHolds, PTL

\* No path of the bash tool, of job_kill or of Cleanup forgets a command that
\* still runs (Start, Remove, Kill and Cleanup, background.go:117-192).
THEOREM CommandsAreReachable == Spec => []RunningIsReachable
<1>1. IInv => RunningIsReachable
  BY DEF IInv, Found, RunningIsReachable, Reachable
<1> QED
  BY <1>1, InvHolds, PTL

\* A job the model was told of keeps its output until it is killed or old.
THEOREM OutputsAreKept == Spec => []OutputIsKept
<1>1. IInv => OutputIsKept
  BY DEF IInv, Found, OutputIsKept, Reachable
<1> QED
  BY <1>1, InvHolds, PTL

\* The result a call returns is the command's own unless a job_kill named the
\* call's shell: what the bash tool does at a timeout, at its own cancellation or
\* for the background never makes one (bash.go:206-331, background.go:142-152).
THEOREM ResultsAreGenuine == Spec => []ResultIsGenuine
<1>1. IInv => ResultIsGenuine
  BY DEF IInv, Found, ResultIsGenuine
<1> QED
  BY <1>1, InvHolds, PTL
=============================================================================

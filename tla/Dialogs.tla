------------------------------ MODULE Dialogs ------------------------------
(***************************************************************************)
(* The keyboard of the user interface (ui/model/ui.go and ui/dialog/): the *)
(* view, the stack of dialogs, and the two Escapes that cancel an agent.   *)
(* A key and a result go to the dialog in front, whichever it is when they *)
(* come, and the commands that answer run on goroutines of their own: a    *)
(* dialog may have been opened, closed or covered in between.              *)
(*                                                                         *)
(* inbox holds the commands that run and the messages that wait, in no     *)
(* order: a command is taken out of it when its result is handled.  Which  *)
(* of editor and chat has the focus is left out: tab moves it and changes  *)
(* nothing else, and both open the same dialogs.                           *)
(***************************************************************************)
EXTENDS Integers, Sequences, FiniteSets, Bags, SequencesExt

CONSTANTS
  Sessions, None,
  KeyProviders, OAuthProviders, \* how a provider authenticates
  MaxDialogs,                   \* bound: dialogs on the stack
  MaxMessages,                  \* bound: commands and messages on their way
  MaxQueued,                    \* bound: prompts queued behind a run
  MaxRequests                   \* bound: permission requests

Providers == KeyProviders \cup OAuthProviders

DialogAssumption ==
  /\ {MaxDialogs, MaxMessages, MaxRequests} \subseteq Nat \ {0} /\ MaxQueued \in Nat
  /\ KeyProviders \cap OAuthProviders = {}

VARIABLES
  state,       \* m.state: "onboarding", "initialize", "landing" or "chat"
  session,     \* m.session
  stack,       \* m.dialog.dialogs, the front one last
  isCanceling, \* m.isCanceling
  inbox,       \* commands and messages on their way
  listed,      \* sessions in the database
  busy,        \* sessions with a run
  queued,      \* prompts queued behind the run of a session
  asked,       \* permission requests so far
  request,     \* the one that waits for an answer, or None
  read,        \* what the goroutine of the file picker read of the stack, or None
  tokens,      \* provider -> the provider that issued its credentials, or None
  swept,       \* requests whose dialog was closed by closeDialogMsg
  unheard,     \* a result for the key dialog went to another dialog
  torn         \* the file picker wrote a stack that had changed

ui == <<state, session, stack, isCanceling>>
agent == <<listed, busy, queued, asked, request>>
ghosts == <<swept, unheard, torn>>
vars == <<ui, inbox, agent, tokens, read, ghosts>>

-----------------------------------------------------------------------------
(* Messages *)

Msg(kind, of) == [kind |-> kind, of |-> of]

Waits(kind, of) == BagIn(Msg(kind, of), inbox)

\* Takes messages out, puts new ones in.
Exchange(out, new) ==
  /\ inbox' = (inbox (-) SetToBag(out)) (+) SetToBag(new)
  /\ BagCardinality(inbox') <= MaxMessages

Put(new) == Exchange({}, new)

Take(m) == BagIn(m, inbox) /\ Exchange({m}, {})

-----------------------------------------------------------------------------
(* The stack *)

\* mode is the dialog's own state, of what it is about, token what it was given.
Dialog(id, mode, of) == [id |-> id, mode |-> mode, of |-> of, token |-> None]

DialogLast == Last(stack)

InFront(id, modes) == stack # <<>> /\ DialogLast.id = id /\ DialogLast.mode \in modes

ContainsDialog(ds, id) == \E i \in DOMAIN ds : ds[i].id = id

CloseDialog(ds, id) == RemoveFirstMatch(ds, LAMBDA d : d.id = id)

CloseFrontDialog(ds) == IF ds = <<>> THEN ds ELSE Front(ds)

BringToFront(ds, id) ==
  Append(CloseDialog(ds, id), ds[SelectInSeq(ds, LAMBDA d : d.id = id)])

\* The open functions: a dialog that is there comes to the front as it is.
OpenDialog(ds, d) == IF ContainsDialog(ds, d.id) THEN BringToFront(ds, d.id) ELSE Append(ds, d)

Plain(id) == Dialog(id, "plain", None)

Show(ds) == stack' = ds /\ Len(ds) <= MaxDialogs

ChangeFront(d) == stack' = [stack EXCEPT ![Len(stack)] = d]

-----------------------------------------------------------------------------
(* Sessions and runs, as far as the keyboard goes *)

isAgentBusy == busy # {}

Configured == {p \in Providers : tokens[p] # None}

newSession ==
  IF session = None THEN UNCHANGED <<session, state>>
  ELSE session' = None /\ state' = "landing"

\* The prompt runs in the session in view, created when there is none.  rest is
\* what is taken out of the inbox, new what else is put in.
sendMessage(rest, new) ==
  IF session = None
  THEN \E s \in Sessions \ listed :
         /\ listed' = listed \cup {s} /\ session' = s /\ state' = "chat"
         /\ Exchange(rest, new \cup {Msg("load", s), Msg("run", s)})
  ELSE Exchange(rest, new \cup {Msg("run", session)}) /\ UNCHANGED <<listed, session, state>>

Init ==
  /\ tokens \in [Providers -> Providers \cup {None}]
  /\ \A p \in Providers : tokens[p] \in {p, None}
  /\ state \in (IF Configured = {} THEN {"onboarding"} ELSE {"initialize", "landing"})
  /\ stack = IF state = "onboarding" THEN <<Plain("models")>> ELSE <<>>
  /\ listed \in SUBSET Sessions
  /\ inbox \in {EmptyBag} \cup {SetToBag({Msg("load", s)}) : s \in
                 {t \in listed : state = "landing"}}
  /\ session = None /\ isCanceling = FALSE
  /\ busy = {} /\ queued = [s \in Sessions |-> 0] /\ asked = 0 /\ request = None
  /\ read = None /\ swept = {} /\ unheard = FALSE /\ torn = FALSE

-----------------------------------------------------------------------------
(* Keys that every dialog has *)

\* ctrl+c opens the dialog to quit over whatever is open, and so do "exit" and
\* the command.  Its "yes" ends the program.
OpenQuit ==
  /\ ~ContainsDialog(stack, "quit")
  /\ Show(Append(stack, Plain("quit")))
  /\ UNCHANGED <<state, session, isCanceling, inbox, agent, tokens, read, ghosts>>

\* Escape, or "no": a permission request is denied by it, a key that is being
\* verified is not interrupted, and the modes of the sessions dialog end first.
Closes ==
  {"quit", "models", "commands", "reasoning", "files"} \X {"plain"}
  \cup {"arguments"} \X {"custom", "prompt"}
  \cup {"apikey"} \X {"initial", "error"}
  \cup {"oauth"} \X {"initializing", "display", "error"}
  \cup {"sessions"} \X {"plain"}

\* Without a model to go on with, the dialog of the models is opened again.
Close ==
  /\ stack # <<>> /\ <<DialogLast.id, DialogLast.mode>> \in Closes
  /\ ~(state = "onboarding" /\ ContainsDialog(stack, "models"))
  /\ LET rest == CloseFrontDialog(stack)
     IN  Show(IF state = "onboarding" THEN OpenDialog(rest, Plain("models")) ELSE rest)
  /\ UNCHANGED <<state, session, isCanceling, inbox, agent, tokens, read, ghosts>>

-----------------------------------------------------------------------------
(* Models and their providers *)

\* Opens the dialog that asks for the credentials of p over ds; a dialog of the
\* same kind that is there comes to the front instead, whatever its provider.
openAuthenticationDialog(p, ds) ==
  LET d == IF p \in KeyProviders THEN Dialog("apikey", "initial", p)
           ELSE Dialog("oauth", "initializing", p)
  IN  /\ Show(OpenDialog(ds, d))
      /\ IF d.id = "oauth" /\ ~ContainsDialog(ds, "oauth") THEN Put({Msg("initiate", p)})
         ELSE UNCHANGED inbox

\* A model of p is chosen, and p has its credentials.
UseModel ==
  /\ stack' = CloseDialog(CloseDialog(CloseDialog(stack, "apikey"), "oauth"), "models")
  /\ state' = IF state = "onboarding" THEN "landing" ELSE state

\* The tokens of an editor may be there to be imported.
ImportCopilot(p) ==
  /\ InFront("models", {"plain"}) /\ ~isAgentBusy
  /\ p \in OAuthProviders \ Configured
  /\ tokens' = [tokens EXCEPT ![p] = p] /\ UseModel
  /\ UNCHANGED <<session, isCanceling, inbox, agent, read, ghosts>>

SelectModel(p, reAuthenticate) ==
  /\ InFront("models", {"plain"}) /\ ~isAgentBusy
  /\ IF p \notin Configured \/ reAuthenticate
     THEN openAuthenticationDialog(p, CloseDialog(stack, "models")) /\ UNCHANGED state
     ELSE UseModel /\ UNCHANGED inbox
  /\ UNCHANGED <<session, isCanceling, agent, tokens, read, ghosts>>

\* Enter asks for the verification; Verify starts it.
SubmitKey ==
  /\ InFront("apikey", {"initial", "error"})
  /\ Put({Msg("verifying", None)})
  /\ UNCHANGED <<ui, agent, tokens, read, ghosts>>

Verify ==
  /\ IF InFront("apikey", {"initial", "error", "verifying", "verified"})
     THEN /\ ChangeFront([DialogLast EXCEPT !.mode = "verifying"])
          /\ Waits("verifying", None)
          /\ Exchange({Msg("verifying", None)}, {Msg("verified", DialogLast.of)})
     ELSE Take(Msg("verifying", None)) /\ UNCHANGED stack
  /\ UNCHANGED <<state, session, isCanceling, agent, tokens, read, ghosts>>

\* Mutant: a key that is refused is not answered.
VerifiedOrNot(p) ==
  /\ Take(Msg("verified", p))
  /\ IF InFront("apikey", {"initial", "error", "verifying", "verified"})
     THEN /\ \/ ChangeFront([DialogLast EXCEPT !.mode = "verified"])
             \/ UNCHANGED stack
          /\ UNCHANGED unheard
     ELSE unheard' = TRUE /\ UNCHANGED stack
  /\ UNCHANGED <<state, session, isCanceling, agent, tokens, read, swept, torn>>

\* The provider accepts the key or not; the answer goes to the front.
Verified(p) ==
  /\ Take(Msg("verified", p))
  /\ IF InFront("apikey", {"initial", "error", "verifying", "verified"})
     THEN /\ \E mode \in {"verified", "error"} : ChangeFront([DialogLast EXCEPT !.mode = mode])
          /\ UNCHANGED unheard
     ELSE unheard' = TRUE /\ UNCHANGED stack
  /\ UNCHANGED <<state, session, isCanceling, agent, tokens, read, swept, torn>>

\* saveKeyAndContinue: the credentials are saved for the provider of the dialog,
\* and its model is chosen unless an agent is busy.
SaveKey ==
  /\ InFront("apikey", {"verified"}) \/ InFront("oauth", {"success"})
  /\ tokens' = [tokens EXCEPT ![DialogLast.of] =
                  IF DialogLast.id = "oauth" THEN DialogLast.token ELSE DialogLast.of]
  /\ IF isAgentBusy THEN UNCHANGED <<stack, state>> ELSE UseModel
  /\ UNCHANGED <<session, isCanceling, inbox, agent, read, ghosts>>

\* The device flow has its code, and polls for the token.
InitiateOAuth(p) ==
  /\ Waits("initiate", p)
  /\ IF stack # <<>> /\ DialogLast.id = "oauth"
     THEN \/ /\ ChangeFront([DialogLast EXCEPT !.mode = "display"])
             /\ Exchange({Msg("initiate", p)}, {Msg("poll", DialogLast.of)})
          \/ /\ ChangeFront([DialogLast EXCEPT !.mode = "error"])
             /\ Exchange({Msg("initiate", p)}, {})
     ELSE Exchange({Msg("initiate", p)}, {}) /\ UNCHANGED stack
  /\ UNCHANGED <<state, session, isCanceling, agent, tokens, read, ghosts>>

\* stopPolling ends a poll of the dialog's own provider that has no result yet.
Polled(m) ==
  \E stopped \in SUBSET {Msg("poll", DialogLast.of)} : Exchange({m} \cup stopped, {})

\* The token of p, or an error, goes to the front.
CompleteOAuth(p) ==
  /\ Waits("poll", p)
  /\ IF stack # <<>> /\ DialogLast.id = "oauth"
     THEN /\ \/ ChangeFront([DialogLast EXCEPT !.mode = "success", !.token = p])
             \/ ChangeFront([DialogLast EXCEPT !.mode = "error"])
          /\ Polled(Msg("poll", p))
     ELSE Exchange({Msg("poll", p)}, {}) /\ UNCHANGED stack
  /\ UNCHANGED <<state, session, isCanceling, agent, tokens, read, ghosts>>

\* Enter opens a browser on the code; when it does not open, that is an error of
\* the dialog in front as well.
OpenURL ==
  /\ InFront("oauth", {"display"})
  /\ Put({Msg("noBrowser", None)})
  /\ UNCHANGED <<ui, agent, tokens, read, ghosts>>

OAuthErrored ==
  /\ Waits("noBrowser", None)
  /\ IF stack # <<>> /\ DialogLast.id = "oauth"
     THEN ChangeFront([DialogLast EXCEPT !.mode = "error"]) /\ Polled(Msg("noBrowser", None))
     ELSE Exchange({Msg("noBrowser", None)}, {}) /\ UNCHANGED stack
  /\ UNCHANGED <<state, session, isCanceling, agent, tokens, read, ghosts>>

-----------------------------------------------------------------------------
(* Opening dialogs, and the commands *)

Ready == state \in {"landing", "chat"} /\ stack = <<>>

\* ctrl+p, ctrl+l, ctrl+s and ctrl+f in the editor.
OpenKey(id) ==
  /\ Ready /\ Show(OpenDialog(stack, Plain(id)))
  /\ UNCHANGED <<state, session, isCanceling, inbox, agent, tokens, read, ghosts>>

\* A command that opens another dialog, or only changes an option.
OpenCommand(id) ==
  /\ InFront("commands", {"plain"})
  /\ Show(OpenDialog(CloseDialog(stack, "commands"), Plain(id)))
  /\ UNCHANGED <<state, session, isCanceling, inbox, agent, tokens, read, ghosts>>

OptionCommand ==
  /\ InFront("commands", {"plain"})
  /\ stack' = CloseDialog(stack, "commands")
  /\ UNCHANGED <<state, session, isCanceling, inbox, agent, tokens, read, ghosts>>

NewSessionCommand ==
  /\ InFront("commands", {"plain"}) /\ ~isAgentBusy
  /\ newSession /\ stack' = CloseDialog(stack, "commands")
  /\ UNCHANGED <<isCanceling, inbox, agent, tokens, read, ghosts>>

SummarizeCommand ==
  /\ InFront("commands", {"plain"}) /\ ~isAgentBusy /\ session # None
  /\ stack' = CloseDialog(stack, "commands") /\ Put({Msg("summarize", session)})
  /\ UNCHANGED <<state, session, isCanceling, agent, tokens, read, ghosts>>

InitializeCommand ==
  /\ InFront("commands", {"plain"}) /\ ~isAgentBusy
  /\ newSession /\ Put({Msg("initialize", None)})
  /\ stack' = CloseDialog(stack, "commands")
  /\ UNCHANGED <<isCanceling, agent, tokens, read, ghosts>>

\* A custom command or an MCP prompt asks for its arguments in a dialog of its
\* own, without a look at whether there is one.
AskArguments ==
  /\ InFront("commands", {"plain"})
  /\ \E kind \in {"custom", "prompt"} :
       Show(Append(CloseFrontDialog(stack), Dialog("arguments", kind, None)))
  /\ UNCHANGED <<state, session, isCanceling, inbox, agent, tokens, read, ghosts>>

\* A custom command is sent, and the dialog in front, its own, is closed.
RunCustomCommand ==
  /\ InFront("commands", {"plain"}) \/ InFront("arguments", {"custom"})
  /\ sendMessage({}, {}) /\ stack' = CloseFrontDialog(stack)
  /\ UNCHANGED <<isCanceling, busy, queued, asked, request, tokens, read, ghosts>>

\* An MCP prompt is fetched while its dialog shows that it loads; the message
\* that closes the dialog comes after the one with the prompt.
RunMCPPrompt ==
  /\ InFront("commands", {"plain"}) \/ InFront("arguments", {"prompt"})
  /\ Put({Msg("prompt", None)})
  /\ UNCHANGED <<ui, agent, tokens, read, ghosts>>

\* The prompt that was fetched, or that initializes the project, is sent; or
\* there is none.
FetchedPrompt(kind) ==
  /\ Waits(kind, None)
  /\ LET close == IF kind = "prompt" THEN {Msg("closeDialog", None)} ELSE {}
     IN  \/ sendMessage({Msg(kind, None)}, close)
         \/ Exchange({Msg(kind, None)}, close) /\ UNCHANGED <<listed, session, state>>
  /\ UNCHANGED <<stack, isCanceling, busy, queued, asked, request, tokens, read, ghosts>>

\* closeDialogMsg closes what is in front by now.
CloseLoading ==
  /\ Take(Msg("closeDialog", None))
  /\ stack' = CloseFrontDialog(stack)
  /\ swept' = swept \cup (IF InFront("permissions", {"plain"}) THEN {DialogLast.of} ELSE {})
  /\ UNCHANGED <<state, session, isCanceling, agent, tokens, read, unheard, torn>>

SelectEffort ==
  /\ InFront("reasoning", {"plain"}) /\ ~isAgentBusy
  /\ stack' = CloseDialog(stack, "reasoning")
  /\ UNCHANGED <<state, session, isCanceling, inbox, agent, tokens, read, ghosts>>

-----------------------------------------------------------------------------
(* The file picker *)

\* The picker stays open until the file is read, and a file may be picked again.
PickFile ==
  /\ InFront("files", {"plain"})
  /\ Put({Msg("pickFile", None)})
  /\ UNCHANGED <<ui, agent, tokens, read, ghosts>>

\* The command itself closes the dialog, on its own goroutine: it reads the
\* stack, and writes what it read without the picker.  Bound: one at a time.
ReadStack ==
  /\ read = None /\ Take(Msg("pickFile", None))
  /\ read' = stack
  /\ UNCHANGED <<ui, agent, tokens, ghosts>>

WriteStack ==
  /\ read # None
  /\ stack' = CloseDialog(read, "files") /\ read' = None
  /\ torn' = (read # stack)
  /\ UNCHANGED <<state, session, isCanceling, inbox, agent, tokens, swept, unheard>>

-----------------------------------------------------------------------------
(* Sessions *)

SelectSession(s) ==
  /\ InFront("sessions", {"plain"}) /\ s \in listed
  /\ stack' = CloseDialog(stack, "sessions") /\ Put({Msg("load", s)})
  /\ UNCHANGED <<state, session, isCanceling, agent, tokens, read, ghosts>>

\* A session that was deleted meanwhile is not found; one that is deleted
\* between the two is shown nevertheless.
loadSession(s) ==
  /\ Waits("load", s)
  /\ Exchange({Msg("load", s)}, IF s \in listed THEN {Msg("loaded", s)} ELSE {})
  /\ UNCHANGED <<ui, agent, tokens, read, ghosts>>

SessionLoaded(s) ==
  /\ Take(Msg("loaded", s))
  /\ state' = "chat" /\ session' = s
  /\ UNCHANGED <<stack, isCanceling, agent, tokens, read, ghosts>>

\* ctrl+r and ctrl+x, and Escape out of either; ctrl+x asks before it deletes,
\* unless the session is busy.
ChangeMode ==
  \/ /\ InFront("sessions", {"plain"}) /\ listed # {}
     /\ \/ ChangeFront([DialogLast EXCEPT !.mode = "renaming"])
        \/ \E s \in listed \ busy : ChangeFront([DialogLast EXCEPT !.mode = "deleting", !.of = s])
  \/ /\ InFront("sessions", {"renaming", "deleting"})
     /\ ChangeFront([DialogLast EXCEPT !.mode = "plain", !.of = None])

EditSessions ==
  /\ ChangeMode
  /\ UNCHANGED <<state, session, isCanceling, inbox, agent, tokens, read, ghosts>>

ConfirmDelete ==
  /\ InFront("sessions", {"deleting"})
  /\ ChangeFront([DialogLast EXCEPT !.mode = "plain", !.of = None])
  /\ Put({Msg("delete", DialogLast.of)})
  /\ UNCHANGED <<state, session, isCanceling, agent, tokens, read, ghosts>>

DeleteSession(s) ==
  /\ Waits("delete", s)
  /\ Exchange({Msg("delete", s)}, IF s \in listed THEN {Msg("deleted", s)} ELSE {})
  /\ listed' = listed \ {s}
  /\ UNCHANGED <<ui, busy, queued, asked, request, tokens, read, ghosts>>

SessionDeleted(s) ==
  /\ Take(Msg("deleted", s))
  /\ IF s = session THEN newSession ELSE UNCHANGED <<session, state>>
  /\ UNCHANGED <<stack, isCanceling, agent, tokens, read, ghosts>>

-----------------------------------------------------------------------------
(* The editor *)

SendKey ==
  /\ Ready /\ sendMessage({}, {})
  /\ UNCHANGED <<stack, isCanceling, busy, queued, asked, request, tokens, read, ghosts>>

NewSessionKey ==
  /\ Ready /\ session # None /\ ~isAgentBusy
  /\ newSession
  /\ UNCHANGED <<stack, isCanceling, inbox, agent, tokens, read, ghosts>>

\* "Yes" stays in the view until its prompt is sent; "no" goes to the editor.
InitializeKey ==
  /\ state = "initialize" /\ stack = <<>>
  /\ \/ newSession /\ Put({Msg("initialize", None)})
     \/ state' = "landing" /\ UNCHANGED <<session, inbox>>
  /\ UNCHANGED <<stack, isCanceling, agent, tokens, read, ghosts>>

\* Escape, an agent being busy: the first one arms, or clears the queue, and the
\* second one within two seconds cancels.  "timer" is the timer of the Escape
\* that armed, "oldTimer" one of an earlier Escape; the code does not tell them
\* apart.
Forget(new) ==
  IF Waits("timer", None) THEN Exchange({Msg("timer", None)}, new \cup {Msg("oldTimer", None)})
  ELSE Put(new)

\* Mutant: without a timer.
ArmCancelForEver ==
  /\ isCanceling' = TRUE
  /\ UNCHANGED <<inbox, queued, request>>

ArmCancel ==
  /\ isCanceling' = TRUE /\ Forget({Msg("timer", None)})
  /\ UNCHANGED <<queued, request>>

Cancel ==
  /\ isCanceling' = FALSE /\ Forget({})
  /\ queued' = [queued EXCEPT ![session] = 0]
  /\ request' = IF request # None /\ request.s = session THEN None ELSE request

ClearQueue ==
  /\ queued' = [queued EXCEPT ![session] = 0]
  /\ UNCHANGED <<isCanceling, inbox, request>>

cancelAgent ==
  /\ stack = <<>> /\ isAgentBusy /\ session # None
  /\ IF isCanceling THEN Cancel
     ELSE IF queued[session] > 0 THEN ClearQueue
     ELSE ArmCancel
  /\ UNCHANGED <<state, session, stack, listed, busy, asked, tokens, read, ghosts>>

CancelTimerExpired(kind) ==
  /\ Take(Msg(kind, None))
  /\ isCanceling' = FALSE
  /\ UNCHANGED <<state, session, stack, agent, tokens, read, ghosts>>

-----------------------------------------------------------------------------
(* The agents *)

\* A prompt starts a run, or waits behind one.
StartRun(s) ==
  /\ Take(Msg("run", s))
  /\ IF s \notin busy THEN busy' = busy \cup {s} /\ UNCHANGED queued
     ELSE queued[s] < MaxQueued /\ queued' = [queued EXCEPT ![s] = @ + 1] /\ UNCHANGED busy
  /\ UNCHANGED <<ui, listed, asked, request, tokens, read, ghosts>>

\* A summary is not queued.
StartSummary(s) ==
  /\ Take(Msg("summarize", s))
  /\ busy' = busy \cup {s}
  /\ UNCHANGED <<ui, listed, queued, asked, request, tokens, read, ghosts>>

\* A run goes on with a prompt of the queue; a failed one, and a summary, leave
\* the queue as it is.
EndRun(s) ==
  /\ s \in busy /\ ~(request # None /\ request.s = s)
  /\ \/ queued[s] > 0 /\ queued' = [queued EXCEPT ![s] = @ - 1] /\ UNCHANGED busy
     \/ busy' = busy \ {s} /\ UNCHANGED queued
  /\ UNCHANGED <<ui, inbox, listed, asked, request, tokens, read, ghosts>>

\* One request waits at a time (Permission); its event may be slow.
Ask(s) ==
  /\ s \in busy /\ request = None /\ asked < MaxRequests
  /\ asked' = asked + 1 /\ request' = [n |-> asked', s |-> s]
  /\ Put({Msg("permission", asked')})
  /\ UNCHANGED <<ui, listed, busy, queued, tokens, read, ghosts>>

\* Mutant: as the other dialogs are opened.
OpenPermissionsAgain(n) ==
  /\ \A k \in 1..(n - 1) : ~Waits("permission", k)
  /\ Take(Msg("permission", n))
  /\ Show(OpenDialog(stack, Dialog("permissions", "plain", n)))
  /\ UNCHANGED <<state, session, isCanceling, agent, tokens, read, ghosts>>

\* The dialog of an earlier request, whose caller has gone, is replaced.
openPermissionsDialog(n) ==
  /\ \A k \in 1..(n - 1) : ~Waits("permission", k)
  /\ Take(Msg("permission", n))
  /\ Show(Append(CloseDialog(stack, "permissions"), Dialog("permissions", "plain", n)))
  /\ UNCHANGED <<state, session, isCanceling, agent, tokens, read, ghosts>>

\* Allowed or denied; the answer to a request that waits no more has no effect.
PermissionResponse ==
  /\ InFront("permissions", {"plain"})
  /\ stack' = CloseDialog(stack, "permissions")
  /\ request' = IF request # None /\ request.n = DialogLast.of THEN None ELSE request
  /\ UNCHANGED <<state, session, isCanceling, inbox, listed, busy, queued, asked, tokens, read, ghosts>>

-----------------------------------------------------------------------------
Keys ==
  \/ OpenQuit \/ Close \/ SubmitKey \/ SaveKey \/ OpenURL
  \/ \E p \in Providers : ImportCopilot(p) \/ \E again \in BOOLEAN : SelectModel(p, again)
  \/ \E id \in {"commands", "models", "sessions", "files"} : OpenKey(id)
  \/ \E id \in {"models", "sessions", "reasoning", "quit"} : OpenCommand(id)
  \/ OptionCommand \/ NewSessionCommand \/ SummarizeCommand \/ InitializeCommand
  \/ AskArguments \/ RunCustomCommand \/ RunMCPPrompt \/ SelectEffort \/ PickFile
  \/ (\E s \in Sessions : SelectSession(s)) \/ EditSessions \/ ConfirmDelete
  \/ SendKey \/ NewSessionKey \/ InitializeKey \/ cancelAgent \/ PermissionResponse

Messages ==
  \/ Verify \/ OAuthErrored \/ CloseLoading \/ ReadStack
  \/ \E p \in Providers : Verified(p) \/ InitiateOAuth(p) \/ CompleteOAuth(p)
  \/ \E kind \in {"prompt", "initialize"} : FetchedPrompt(kind)
  \/ \E s \in Sessions : loadSession(s) \/ SessionLoaded(s) \/ DeleteSession(s) \/ SessionDeleted(s)
  \/ \E kind \in {"timer", "oldTimer"} : CancelTimerExpired(kind)
  \/ \E n \in 1..asked : openPermissionsDialog(n)

Agents == \E s \in Sessions : StartRun(s) \/ StartSummary(s) \/ EndRun(s) \/ Ask(s)

Next ==
  /\ ~torn /\ ~unheard /\ swept = {}
  /\ \/ read \in {None, stack} /\ (Keys \/ Messages \/ Agents)
     \/ WriteStack

Spec == Init /\ [][Next]_vars

-----------------------------------------------------------------------------
(* Properties *)

TypeOK ==
  /\ state \in {"onboarding", "initialize", "landing", "chat"}
  /\ (state = "chat" <=> session # None) /\ session \in Sessions \cup {None}
  /\ isCanceling \in BOOLEAN
  /\ tokens \in [Providers -> Providers \cup {None}] /\ swept \subseteq 1..asked
  /\ torn \/ \A i, j \in DOMAIN stack : stack[i].id = stack[j].id => i = j

\* A permission request that waits has its dialog on the stack, whatever was
\* opened, answered and withdrawn before: an agent waits for nothing the user
\* cannot see.  Only closeDialogMsg and the file picker break this.
AskedIsShown ==
  request # None /\ ~Waits("permission", request.n)
    => \/ \E i \in DOMAIN stack : stack[i].id = "permissions" /\ stack[i].of = request.n
       \/ torn \/ request.n \in swept

\* While there is no model to work with there is a dialog to get one.
OnboardingGoesOn ==
  state = "onboarding" => \E id \in {"models", "apikey", "oauth"} : ContainsDialog(stack, id)

\* A key dialog that verifies, which takes no key, has an answer coming, unless
\* another dialog was in front when it came.
VerifyingIsAnswered ==
  \A i \in DOMAIN stack :
    stack[i].id = "apikey" /\ stack[i].mode = "verifying"
      => torn \/ unheard \/ \E p \in KeyProviders : Waits("verified", p)

\* A single Escape is forgotten: isCanceling holds no longer than the two
\* seconds of the Escape that set it, in whichever view or session they pass.
EscapeIsForgotten == isCanceling => Waits("timer", None)

\* And it is remembered as long.  The code does not have this: the timer of an
\* earlier Escape ends it (ui.go:640).
EscapeIsRemembered == Waits("timer", None) => isCanceling

\* Credentials are saved for the provider that issued them.  The code does not
\* have this: the poll of a dialog that was closed goes on, and its token goes
\* to the dialog in front (oauth.go:170).
TokensAreOwn == \A p \in Providers : tokens[p] \in {p, None}

\* The question whether to quit can be answered with "no".  The code does not
\* have this while the first model is chosen (ui.go:1249).
QuitCanBeDenied ==
  InFront("quit", {"plain"}) => ~(state = "onboarding" /\ ContainsDialog(stack, "models"))

\* A project is initialized by one prompt.  The code does not have this: "yes"
\* stays in the view until the prompt is sent (onboarding.go:54).
InitializedOnce == BagIn(Msg("initialize", None), inbox) => inbox[Msg("initialize", None)] = 1

\* A session with a run is not deleted.  The code does not have this: it looks
\* when the deletion is asked for, not when it is confirmed (sessions.go:184).
BusyIsListed == busy \subseteq listed
=============================================================================

----------------------------- MODULE Permission -----------------------------
(***************************************************************************)
(* internal/permission/permission.go: the permission service, the tool     *)
(* calls that call Request, and the UI, whose one goroutine shows the      *)
(* published requests and calls Grant, GrantPersistent or Deny.            *)
(*                                                                         *)
(* A request's ID is the tool call itself: every Request makes a new uuid. *)
(* The fields compared for a persistent grant are one value, KeyOf.        *)
(***************************************************************************)
EXTENDS Naturals, Sequences

CONSTANTS
    Requesters,   \* tool calls, each calling Request once
    Sessions,
    Keys,         \* (tool name, action, session, directory)
    SessionOf,    \* the session of each tool call
    KeyOf,        \* the key of each tool call
    Allowed,      \* the tool calls on the allowlist (permissions.allowed_tools)
    MaxLost,      \* bound: published requests that never reach the UI
    None          \* no request

ASSUME RequestAssumption ==
    /\ SessionOf \in [Requesters -> Sessions]
    /\ KeyOf \in [Requesters -> Keys]
    /\ Allowed \subseteq Requesters
    /\ MaxLost \in Nat
    /\ None \notin Requesters
\* The session is one of the compared fields.
ASSUME KeyAssumption ==
    \A q, r \in Requesters : KeyOf[q] = KeyOf[r] => SessionOf[q] = SessionOf[r]

VARIABLES
    skip,                 \* skip
    autoApproveSessions,  \* the sessions whose requests are granted
    sessionPermissions,   \* the keys granted for their session
    requestMu,            \* holder of the mutex, or None
    activeRequest,        \* activeRequest, or None
    pendingRequests,      \* the requests with an entry in pendingRequests
    respCh,               \* the channel's one-place buffer of each request
    ctxDone,              \* the requests whose context is done
    pc,                   \* where each Request is
    result,               \* what each Request returned
    events,               \* published requests the UI has not seen yet
    lost,                 \* how many were dropped on the way
    dialog,               \* the request the UI shows, or None
    uiPc,                 \* where the UI is in Grant, GrantPersistent or Deny
    uiReq,                \* the request it is called with
    notified,             \* the last PermissionNotification about each call
    \* what happened so far, for the properties only:
    said,                 \* the user's answer to each request
    skipped               \* the calls that came while skip was on

policyVars == <<skip, autoApproveSessions>>
uiVars     == <<dialog, uiPc, uiReq>>
vars == <<skip, autoApproveSessions, sessionPermissions, requestMu, activeRequest,
          pendingRequests, respCh, ctxDone, pc, result, events, lost, dialog, uiPc, uiReq,
          notified, said, skipped>>

Answers   == {"allow", "session", "deny"}
Prompting == {"activate", "pend", "publish", "wait"}
Locked    == Prompting \cup {"auto", "session", "unpend", "unlock"}

TypeOK ==
    /\ skip \in BOOLEAN
    /\ autoApproveSessions \subseteq Sessions
    /\ sessionPermissions \subseteq Keys
    /\ requestMu \in Requesters \cup {None}
    /\ activeRequest \in Requesters \cup {None}
    /\ pendingRequests \subseteq Requesters
    /\ respCh \in [Requesters -> {"empty", "yes", "no"}]
    /\ ctxDone \subseteq Requesters
    /\ pc \in [Requesters -> Locked \cup {"start", "lock", "done"}]
    /\ result \in [Requesters -> {"none", "granted", "denied", "cancelled"}]
    /\ events \in Seq(Requesters)
    /\ lost \in 0..MaxLost
    /\ dialog \in Requesters \cup {None}
    /\ uiPc \in {"idle", "lookup", "send", "remember", "clear"}
    /\ uiReq \in IF uiPc = "idle" THEN {None} ELSE Requesters
    /\ notified \in [Requesters -> {"nothing", "asked", "granted", "denied"}]
    /\ said \in [Requesters -> Answers \cup {"nothing"}]
    /\ skipped \subseteq Requesters

Init ==
    /\ skip \in BOOLEAN
    /\ autoApproveSessions = {}
    /\ sessionPermissions = {}
    /\ requestMu = None
    /\ activeRequest = None
    /\ pendingRequests = {}
    /\ respCh = [r \in Requesters |-> "empty"]
    /\ ctxDone = {}
    /\ pc = [r \in Requesters |-> "start"]
    /\ result = [r \in Requesters |-> "none"]
    /\ events = <<>>
    /\ lost = 0
    /\ dialog = None
    /\ uiPc = "idle"
    /\ uiReq = None
    /\ notified = [r \in Requesters |-> "nothing"]
    /\ said = [r \in Requesters |-> "nothing"]
    /\ skipped = {}

-----------------------------------------------------------------------------
(* Request. *)

Goto(r, l)   == pc' = [pc EXCEPT ![r] = l]
Notify(r, n) == notified' = [notified EXCEPT ![r] = n]

\* if s.skip { return true, nil }, and the same for the allowlist.
Begin(r) ==
    /\ pc[r] = "start"
    /\ IF skip \/ r \in Allowed
       THEN /\ result' = [result EXCEPT ![r] = "granted"]
            /\ Goto(r, "done")
            /\ UNCHANGED notified
       ELSE /\ Notify(r, "asked")
            /\ Goto(r, "lock")
            /\ UNCHANGED result
    /\ skipped' = IF skip THEN skipped \cup {r} ELSE skipped
    /\ UNCHANGED <<policyVars, sessionPermissions, requestMu, activeRequest, pendingRequests,
                   respCh, ctxDone, events, uiVars, said, lost>>

\* s.requestMu.Lock()
Lock(r) ==
    /\ pc[r] = "lock"
    /\ requestMu = None
    /\ requestMu' = r
    /\ Goto(r, "auto")
    /\ UNCHANGED <<policyVars, sessionPermissions, activeRequest, pendingRequests, respCh,
                   ctxDone, result, events, uiVars, notified, said, skipped, lost>>

\* Mutant: it returns without unlocking.
CheckKeepsLock(r, from, granted, to) ==
    /\ pc[r] = from
    /\ IF granted
       THEN /\ Notify(r, "granted")
            /\ result' = [result EXCEPT ![r] = "granted"]
            /\ Goto(r, "done")
       ELSE /\ Goto(r, to)
            /\ UNCHANGED <<notified, result>>
    /\ UNCHANGED <<policyVars, sessionPermissions, requestMu, activeRequest, pendingRequests,
                   respCh, ctxDone, events, uiVars, said, skipped, lost>>

\* One of the two checks under the mutex: granted returns and unlocks at once.
Check(r, from, granted, to) ==
    /\ pc[r] = from
    /\ IF granted
       THEN /\ Notify(r, "granted")
            /\ result' = [result EXCEPT ![r] = "granted"]
            /\ requestMu' = None
            /\ Goto(r, "done")
       ELSE /\ Goto(r, to)
            /\ UNCHANGED <<notified, result, requestMu>>
    /\ UNCHANGED <<policyVars, sessionPermissions, activeRequest, pendingRequests, respCh,
                   ctxDone, events, uiVars, said, skipped, lost>>

\* Mutant: any auto-approved session admits the call.
CheckAutoApproveAny(r) == Check(r, "auto", autoApproveSessions # {}, "session")

\* autoApprove := s.autoApproveSessions[opts.SessionID]
CheckAutoApprove(r) == Check(r, "auto", SessionOf[r] \in autoApproveSessions, "session")

\* for _, p := range s.sessionPermissions
CheckSessionPermissions(r) == Check(r, "session", KeyOf[r] \in sessionPermissions, "activate")

\* s.activeRequest = &permission
Activate(r) ==
    /\ pc[r] = "activate"
    /\ activeRequest' = r
    /\ Goto(r, "pend")
    /\ UNCHANGED <<policyVars, sessionPermissions, requestMu, pendingRequests, respCh,
                   ctxDone, result, events, uiVars, notified, said, skipped, lost>>

\* respCh := make(chan bool, 1); s.pendingRequests.Set(permission.ID, respCh)
Pend(r) ==
    /\ pc[r] = "pend"
    /\ pendingRequests' = pendingRequests \cup {r}
    /\ Goto(r, "publish")
    /\ UNCHANGED <<policyVars, sessionPermissions, requestMu, activeRequest, respCh,
                   ctxDone, result, events, uiVars, notified, said, skipped, lost>>

\* s.Publish(pubsub.CreatedEvent, permission)
PublishRequest(r) ==
    /\ pc[r] = "publish"
    /\ events' = Append(events, r)
    /\ Goto(r, "wait")
    /\ UNCHANGED <<policyVars, sessionPermissions, requestMu, activeRequest, pendingRequests,
                   respCh, ctxDone, result, uiVars, notified, said, skipped, lost>>

\* case granted := <-respCh
Receive(r) ==
    /\ pc[r] = "wait"
    /\ respCh[r] # "empty"
    /\ result' = [result EXCEPT ![r] = IF respCh[r] = "yes" THEN "granted" ELSE "denied"]
    /\ respCh' = [respCh EXCEPT ![r] = "empty"]
    /\ Goto(r, "unpend")
    /\ UNCHANGED <<policyVars, sessionPermissions, requestMu, activeRequest, pendingRequests,
                   ctxDone, events, uiVars, notified, said, skipped, lost>>

\* case <-ctx.Done()
GiveUp(r) ==
    /\ pc[r] = "wait"
    /\ r \in ctxDone
    /\ result' = [result EXCEPT ![r] = "cancelled"]
    /\ Goto(r, "unpend")
    /\ UNCHANGED <<policyVars, sessionPermissions, requestMu, activeRequest, pendingRequests,
                   respCh, ctxDone, events, uiVars, notified, said, skipped, lost>>

\* defer s.pendingRequests.Del(permission.ID)
Unpend(r) ==
    /\ pc[r] = "unpend"
    /\ pendingRequests' = pendingRequests \ {r}
    /\ Goto(r, "unlock")
    /\ UNCHANGED <<policyVars, sessionPermissions, requestMu, activeRequest, respCh,
                   ctxDone, result, events, uiVars, notified, said, skipped, lost>>

\* defer s.requestMu.Unlock()
Unlock(r) ==
    /\ pc[r] = "unlock"
    /\ requestMu' = None
    /\ Goto(r, "done")
    /\ UNCHANGED <<policyVars, sessionPermissions, activeRequest, pendingRequests, respCh,
                   ctxDone, result, events, uiVars, notified, said, skipped, lost>>

-----------------------------------------------------------------------------
(* The UI goroutine. *)

\* A published request reaches the UI, which replaces the dialog it shows.
Show ==
    /\ uiPc = "idle"
    /\ events # <<>>
    /\ dialog' = Head(events)
    /\ events' = Tail(events)
    /\ UNCHANGED <<policyVars, sessionPermissions, requestMu, activeRequest, pendingRequests,
                   respCh, ctxDone, pc, result, uiPc, uiReq, notified, said, skipped, lost>>

\* The request is dropped on the way: the UI goroutine did not take it from
\* app.events for subscriberSendTimeout, or the broker's buffer was full.
LoseEvent ==
    /\ events # <<>>
    /\ lost < MaxLost
    /\ lost' = lost + 1
    /\ events' = Tail(events)
    /\ UNCHANGED <<policyVars, sessionPermissions, requestMu, activeRequest, pendingRequests,
                   respCh, ctxDone, pc, result, uiVars, notified, said, skipped>>

\* The user answers: the dialog closes, and Grant, GrantPersistent or Deny
\* begins by publishing what the user said.
Answer ==
    /\ uiPc = "idle"
    /\ dialog # None
    /\ \E a \in Answers :
          /\ said' = [said EXCEPT ![dialog] = a]
          /\ Notify(dialog, IF a = "deny" THEN "denied" ELSE "granted")
    /\ uiReq' = dialog
    /\ dialog' = None
    /\ uiPc' = "lookup"
    /\ UNCHANGED <<policyVars, sessionPermissions, requestMu, activeRequest, pendingRequests,
                   respCh, ctxDone, pc, result, events, skipped, lost>>

\* What follows the answer: only GrantPersistent remembers the request.
AfterAnswer == IF said[uiReq] = "session" THEN "remember" ELSE "clear"

\* respCh, ok := s.pendingRequests.Get(permission.ID)
Lookup ==
    /\ uiPc = "lookup"
    /\ uiPc' = IF uiReq \in pendingRequests THEN "send" ELSE AfterAnswer
    /\ UNCHANGED <<policyVars, sessionPermissions, requestMu, activeRequest, pendingRequests,
                   respCh, ctxDone, pc, result, events, dialog, uiReq, notified, said, skipped, lost>>

\* Mutant: the answer goes to the active request, not to the one answered.
SendToActive ==
    /\ uiPc = "send"
    /\ respCh[uiReq] = "empty"
    /\ respCh' = [respCh EXCEPT ![activeRequest] = IF said[uiReq] = "deny" THEN "no" ELSE "yes"]
    /\ uiPc' = AfterAnswer
    /\ UNCHANGED <<policyVars, sessionPermissions, requestMu, activeRequest, pendingRequests,
                   ctxDone, pc, result, events, dialog, uiReq, notified, said, skipped, lost>>

\* respCh <- true, or false: waits while the buffer is full.
Send ==
    /\ uiPc = "send"
    /\ respCh[uiReq] = "empty"
    /\ respCh' = [respCh EXCEPT ![uiReq] = IF said[uiReq] = "deny" THEN "no" ELSE "yes"]
    /\ uiPc' = AfterAnswer
    /\ UNCHANGED <<policyVars, sessionPermissions, requestMu, activeRequest, pendingRequests,
                   ctxDone, pc, result, events, dialog, uiReq, notified, said, skipped, lost>>

\* s.sessionPermissions = append(s.sessionPermissions, permission)
Remember ==
    /\ uiPc = "remember"
    /\ sessionPermissions' = sessionPermissions \cup {KeyOf[uiReq]}
    /\ uiPc' = "clear"
    /\ UNCHANGED <<policyVars, requestMu, activeRequest, pendingRequests, respCh, ctxDone,
                   pc, result, events, dialog, uiReq, notified, said, skipped, lost>>

\* if s.activeRequest != nil && s.activeRequest.ID == permission.ID
ClearActive ==
    /\ uiPc = "clear"
    /\ activeRequest' = IF activeRequest = uiReq THEN None ELSE activeRequest
    /\ uiPc' = "idle"
    /\ uiReq' = None
    /\ UNCHANGED <<policyVars, sessionPermissions, requestMu, pendingRequests, respCh, ctxDone,
                   pc, result, events, dialog, notified, said, skipped, lost>>

-----------------------------------------------------------------------------
(* The environment. *)

\* The run that the tool call belongs to is cancelled.
CancelContext(r) ==
    /\ r \notin ctxDone
    /\ ctxDone' = ctxDone \cup {r}
    /\ UNCHANGED <<policyVars, sessionPermissions, requestMu, activeRequest, pendingRequests,
                   respCh, pc, result, events, uiVars, notified, said, skipped, lost>>

\* The UI toggles yolo mode.
SetSkipRequests ==
    /\ uiPc = "idle"
    /\ skip' = ~skip
    /\ UNCHANGED <<autoApproveSessions, sessionPermissions, requestMu, activeRequest,
                   pendingRequests, respCh, ctxDone, pc, result, events, uiVars, notified,
                   said, skipped, lost>>

AutoApproveSession(s) ==
    /\ s \notin autoApproveSessions
    /\ autoApproveSessions' = autoApproveSessions \cup {s}
    /\ UNCHANGED <<skip, sessionPermissions, requestMu, activeRequest, pendingRequests,
                   respCh, ctxDone, pc, result, events, uiVars, notified, said, skipped, lost>>

-----------------------------------------------------------------------------
RequestStep(r) ==
    \/ Begin(r) \/ CheckAutoApprove(r) \/ CheckSessionPermissions(r)
    \/ Activate(r) \/ Pend(r) \/ PublishRequest(r)
    \/ Receive(r) \/ GiveUp(r) \/ Unpend(r) \/ Unlock(r)

UiCall == Lookup \/ Send \/ Remember \/ ClearActive

Environment ==
    \/ SetSkipRequests
    \/ \E r \in Requesters : CancelContext(r)
    \/ \E s \in Sessions : AutoApproveSession(s)

Next ==
    \/ \E r \in Requesters : RequestStep(r) \/ Lock(r)
    \/ Show \/ LoseEvent \/ Answer \/ UiCall
    \/ Environment

Spec == Init /\ [][Next]_vars

\* Goroutines that can go on do; sync.Mutex hands itself to a waiter that has
\* waited long; the UI shows what was published, and the user answers the dialog.
Fairness ==
    /\ \A r \in Requesters : WF_vars(RequestStep(r)) /\ SF_vars(Lock(r))
    /\ WF_vars(UiCall) /\ SF_vars(Show) /\ SF_vars(Answer)
FairSpec == Spec /\ Fairness

-----------------------------------------------------------------------------
(* Properties *)

\* r was let through by a policy in force, or by an answer of the user.
Consented(r) ==
    \/ r \in skipped \cup Allowed
    \/ SessionOf[r] \in autoApproveSessions
    \/ said[r] \in {"allow", "session"}
    \/ \E q \in Requesters : KeyOf[q] = KeyOf[r] /\ said[q] = "session"

\* No tool call runs without consent: an answer reaches the call it was given
\* for, also when calls are cancelled and answered late, and a persistent grant
\* covers only calls of the same key.
RunsOnlyWithConsent == \A r \in Requesters : result[r] = "granted" => Consented(r)

\* A denial is never turned into anything else than a denial or a cancellation.
DenialHolds ==
    \A r \in Requesters :
        said[r] = "deny" => result[r] \in {"none", "denied", "cancelled"}

\* The UI goroutine never waits for a free place in a response channel, which
\* would freeze the whole interface.
UiNeverBlocks == uiPc = "send" => respCh[uiReq] = "empty"

\* The user is asked about one call at a time, and only that call can be answered.
OneQuestion ==
    /\ \A q, r \in Requesters : pc[q] \in Prompting /\ pc[r] \in Prompting => q = r
    /\ \A r \in pendingRequests : requestMu = r

\* The UI's view of a tool call that was let through after asking is "granted":
\* no later notification overtakes it.
GrantIsAnnounced ==
    \A r \in Requesters :
        result[r] = "granted" /\ r \notin skipped \cup Allowed => notified[r] = "granted"

\* Every call that waits for the mutex or for the user is decided, as long as
\* every published request reaches the UI.
EveryRequestReturns ==
    [](lost = 0) => \A r \in Requesters : pc[r] = "lock" ~> pc[r] = "done"

\* A cancelled run is not held up by the question of its tool call, even when
\* the question never reached the user.
CancelledCallReturns ==
    \A r \in Requesters : r \in ctxDone /\ pc[r] \in Prompting ~> pc[r] = "done"

\* permission_test.go: "Second identical request should be automatically approved
\* due to persistent permission".
PersistentGrantHolds ==
    \A q, r \in Requesters :
        (/\ q # r /\ KeyOf[q] = KeyOf[r]
         /\ pc[q] = "done" /\ result[q] = "granted" /\ said[q] = "session")
        => pc[r] \notin Prompting

\* The service implements the abstract gate.
Gate == INSTANCE PermissionGate WITH
    open     <- {r \in Requesters : skip \/ r \in Allowed \/ SessionOf[r] \in autoApproveSessions},
    asked    <- {r \in Requesters : pc[r] \in Prompting},
    decision <- result
GateSpec == Gate!Spec
=============================================================================

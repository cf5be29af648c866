--------------------------- MODULE PermissionGate ---------------------------
(***************************************************************************)
(* What permission.Service promises to the tools and to the user: a tool   *)
(* call is let through only by a policy that admits it, by the user's      *)
(* answer to a question about this very call, or by an earlier answer      *)
(* "allow for this session" to a call of the same key; the user is asked   *)
(* about one call at a time; and a decision is never revised.              *)
(***************************************************************************)
CONSTANTS
    Requesters,   \* tool calls, each asking once
    KeyOf         \* the (tool, action, session, directory) of each call

VARIABLES
    open,         \* the calls that a policy admits without asking
    asked,        \* the call the user is being asked about, if any
    said,         \* the user's answers
    decision      \* what Request returned

gateVars == <<open, asked, said, decision>>

Init ==
    /\ open \in SUBSET Requesters
    /\ asked = {}
    /\ said = [r \in Requesters |-> "nothing"]
    /\ decision = [r \in Requesters |-> "none"]

\* The configuration, the skip mode or the auto-approved sessions change.
ChangePolicy ==
    /\ open' \in SUBSET Requesters
    /\ UNCHANGED <<asked, said, decision>>

\* r's key was allowed for its session.
Standing(r) == \E q \in Requesters : KeyOf[q] = KeyOf[r] /\ said[q] = "session"

AdmitByPolicy(r) ==
    /\ decision[r] = "none"
    /\ r \notin asked
    /\ r \in open \/ Standing(r)
    /\ decision' = [decision EXCEPT ![r] = "granted"]
    /\ UNCHANGED <<open, asked, said>>

Ask(r) ==
    /\ decision[r] = "none"
    /\ asked = {}
    /\ asked' = {r}
    /\ UNCHANGED <<open, said, decision>>

\* The user answers; the call may have been given up in the meantime.
Say(r) ==
    /\ said[r] = "nothing"
    /\ r \in asked \/ decision[r] # "none"
    /\ \E answer \in {"allow", "session", "deny"} : said' = [said EXCEPT ![r] = answer]
    /\ UNCHANGED <<open, asked, decision>>

Decide(r) ==
    /\ r \in asked
    /\ said[r] # "nothing"
    /\ decision' = [decision EXCEPT ![r] = IF said[r] = "deny" THEN "denied" ELSE "granted"]
    /\ asked' = {}
    /\ UNCHANGED <<open, said>>

GiveUp(r) ==
    /\ r \in asked
    /\ decision' = [decision EXCEPT ![r] = "cancelled"]
    /\ asked' = {}
    /\ UNCHANGED <<open, said>>

Next ==
    \/ ChangePolicy
    \/ \E r \in Requesters : AdmitByPolicy(r) \/ Ask(r) \/ Say(r) \/ Decide(r) \/ GiveUp(r)

Spec == Init /\ [][Next]_gateVars
=============================================================================

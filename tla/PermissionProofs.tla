-------------------------- MODULE PermissionProofs --------------------------
(***************************************************************************)
(* Proofs about Permission, for every set of tool calls, sessions and      *)
(* keys: the type invariant, the mutual exclusion of questions, consent,   *)
(* denial and announcement, and that the service implements PermissionGate.*)
(*                                                                         *)
(* The argument: a call publishes itself at most once and while it holds   *)
(* the mutex; so it is in events or in the dialog at most once, and the    *)
(* user's one answer to it is the only thing its channel ever carries.     *)
(***************************************************************************)
EXTENDS Permission, SequenceTheorems, TLAPS

\* Where a call is before its request is published, and after it was decided.
Early == {"start", "lock", "auto", "session", "activate", "pend", "publish"}
Past  == {"unpend", "unlock", "done"}

\* The user may still be asked about r: it has not been answered.
Unanswered(r) ==
    /\ pc[r] \notin Early
    /\ said[r] = "nothing"
    /\ result[r] \in {"none", "cancelled"}

MutexInv ==
    /\ \A r \in Requesters : pc[r] \in Locked => requestMu = r
    /\ \A r \in pendingRequests : pc[r] \in {"publish", "wait", "unpend"}

PhaseInv ==
    \A r \in Requesters :
        /\ pc[r] \in Early => said[r] = "nothing"
        /\ pc[r] \in Early \cup {"wait"} => result[r] = "none"
        /\ pc[r] \in Past => result[r] # "none"

ShownInv ==
    /\ \A i \in 1..Len(events) : Unanswered(events[i])
    /\ \A i, j \in 1..Len(events) : events[i] = events[j] => i = j
    /\ dialog # None =>
          /\ Unanswered(dialog)
          /\ \A i \in 1..Len(events) : events[i] # dialog

AnswerInv ==
    /\ \A r \in Requesters :
          /\ respCh[r] = "yes" => said[r] \in {"allow", "session"}
          /\ respCh[r] = "no" => said[r] = "deny"
          /\ said[r] \in {"allow", "session"} => notified[r] = "granted"
    /\ uiPc # "idle" => said[uiReq] # "nothing"
    /\ uiPc \in {"lookup", "send"} => respCh[uiReq] = "empty"
    /\ uiPc = "remember" => said[uiReq] = "session"
    /\ \A k \in sessionPermissions :
          \E q \in Requesters : KeyOf[q] = k /\ said[q] = "session"

OutcomeInv == RunsOnlyWithConsent /\ DenialHolds /\ GrantIsAnnounced

IInv == TypeOK /\ MutexInv /\ PhaseInv /\ ShownInv /\ AnswerInv /\ OutcomeInv

-----------------------------------------------------------------------------
(* Two facts about sequences, and the initial states. *)

\* What the published requests are after another one.
LEMMA AppendedEvents ==
    ASSUME NEW s \in Seq(Requesters), NEW r \in Requesters
    PROVE  /\ Append(s, r) \in Seq(Requesters)
           /\ Len(s) \in Nat
           /\ Len(Append(s, r)) = Len(s) + 1
           /\ \A i \in 1..Len(s) : Append(s, r)[i] = s[i]
           /\ Append(s, r)[Len(s) + 1] = r
<1>1. Len(s) \in Nat
  BY LenProperties
<1> QED
  BY <1>1, AppendProperties

\* What is left of the published requests, and which was first.
LEMMA TakenEvents ==
    ASSUME NEW s \in Seq(Requesters), s # <<>>
    PROVE  /\ Tail(s) \in Seq(Requesters)
           /\ Head(s) \in Requesters
           /\ Head(s) = s[1]
           /\ Len(s) \in Nat \ {0}
           /\ Len(Tail(s)) = Len(s) - 1
           /\ \A i \in 1..Len(Tail(s)) : Tail(s)[i] = s[i + 1]
<1>1. Len(s) \in Nat \ {0}
  BY LenProperties, EmptySeq
<1> QED
  BY <1>1, HeadTailProperties

\* The invariant holds initially.
LEMMA InitIInv == Init => IInv
<1> SUFFICES ASSUME Init PROVE IInv
  OBVIOUS
<1> USE RequestAssumption
     DEF Init, Locked, Prompting, Early, Past, Answers
<1>1. TypeOK
  BY DEF TypeOK
<1>2. MutexInv /\ PhaseInv
  BY DEF MutexInv, PhaseInv
<1>3. ShownInv /\ AnswerInv
  BY DEF ShownInv, AnswerInv, Unanswered
<1>4. OutcomeInv
  BY DEF OutcomeInv, RunsOnlyWithConsent, DenialHolds, GrantIsAnnounced
<1> QED
  BY <1>1, <1>2, <1>3, <1>4 DEF IInv

-----------------------------------------------------------------------------
(* Every step preserves each part of the invariant. *)

\* The types, whatever else holds.
LEMMA TypeStep == TypeOK /\ [Next]_vars => TypeOK'
<1> SUFFICES ASSUME TypeOK, [Next]_vars PROVE TypeOK'
  OBVIOUS
<1> USE RequestAssumption DEF Goto, Notify, policyVars, uiVars, TypeOK, Locked, Prompting,
      Answers
<1>1. ASSUME NEW r \in Requesters, Begin(r) PROVE TypeOK'
  BY <1>1 DEF Begin
<1>2. ASSUME NEW r \in Requesters, Lock(r) PROVE TypeOK'
  BY <1>2 DEF Lock
<1>3. ASSUME NEW r \in Requesters, CheckAutoApprove(r) PROVE TypeOK'
  BY <1>3 DEF CheckAutoApprove, Check
<1>4. ASSUME NEW r \in Requesters, CheckSessionPermissions(r) PROVE TypeOK'
  BY <1>4 DEF CheckSessionPermissions, Check
<1>5. ASSUME NEW r \in Requesters, Activate(r) PROVE TypeOK'
  BY <1>5 DEF Activate
<1>6. ASSUME NEW r \in Requesters, Pend(r) PROVE TypeOK'
  BY <1>6 DEF Pend
<1>7. ASSUME NEW r \in Requesters, PublishRequest(r) PROVE TypeOK'
  BY <1>7, AppendedEvents DEF PublishRequest
<1>8. ASSUME NEW r \in Requesters, Receive(r) PROVE TypeOK'
  BY <1>8 DEF Receive
<1>9. ASSUME NEW r \in Requesters, GiveUp(r) PROVE TypeOK'
  BY <1>9 DEF GiveUp
<1>10. ASSUME NEW r \in Requesters, Unpend(r) PROVE TypeOK'
  BY <1>10 DEF Unpend
<1>11. ASSUME NEW r \in Requesters, Unlock(r) PROVE TypeOK'
  BY <1>11 DEF Unlock
<1>12. ASSUME NEW r \in Requesters, CancelContext(r) PROVE TypeOK'
  BY <1>12 DEF CancelContext
<1>13. ASSUME Show PROVE TypeOK'
  BY <1>13, TakenEvents DEF Show
<1>14. ASSUME LoseEvent PROVE TypeOK'
  BY <1>14, TakenEvents DEF LoseEvent
<1>15. ASSUME Answer PROVE TypeOK'
  BY <1>15 DEF Answer
<1>16. ASSUME Lookup PROVE TypeOK'
  BY <1>16 DEF Lookup, AfterAnswer
<1>17. ASSUME Send PROVE TypeOK'
  BY <1>17 DEF Send, AfterAnswer
<1>18. ASSUME Remember PROVE TypeOK'
  BY <1>18 DEF Remember
<1>19. ASSUME ClearActive PROVE TypeOK'
  BY <1>19 DEF ClearActive
<1>20. ASSUME SetSkipRequests PROVE TypeOK'
  BY <1>20 DEF SetSkipRequests
<1>21. ASSUME NEW s \in Sessions, AutoApproveSession(s) PROVE TypeOK'
  BY <1>21 DEF AutoApproveSession
<1>22. ASSUME UNCHANGED vars PROVE TypeOK'
  BY <1>22 DEF vars
<1> QED
  BY <1>1, <1>2, <1>3, <1>4, <1>5, <1>6, <1>7, <1>8, <1>9, <1>10, <1>11, <1>12, <1>13,
      <1>14, <1>15, <1>16, <1>17, <1>18, <1>19, <1>20, <1>21, <1>22 DEF Next, RequestStep,
      UiCall, Environment

\* The mutex is held from Lock to Unlock, and the map entry lives within.
LEMMA MutexStep == TypeOK /\ MutexInv /\ [Next]_vars => MutexInv'
<1> SUFFICES ASSUME TypeOK, MutexInv, [Next]_vars PROVE MutexInv'
  OBVIOUS
<1> USE RequestAssumption DEF Goto, Notify, policyVars, uiVars, TypeOK, MutexInv, Locked,
      Prompting
<1>1. ASSUME NEW r \in Requesters, Begin(r) PROVE MutexInv'
  BY <1>1 DEF Begin
<1>2. ASSUME NEW r \in Requesters, Lock(r) PROVE MutexInv'
  BY <1>2 DEF Lock
<1>3. ASSUME NEW r \in Requesters, CheckAutoApprove(r) PROVE MutexInv'
  BY <1>3 DEF CheckAutoApprove, Check
<1>4. ASSUME NEW r \in Requesters, CheckSessionPermissions(r) PROVE MutexInv'
  BY <1>4 DEF CheckSessionPermissions, Check
<1>5. ASSUME NEW r \in Requesters, Activate(r) PROVE MutexInv'
  BY <1>5 DEF Activate
<1>6. ASSUME NEW r \in Requesters, Pend(r) PROVE MutexInv'
  BY <1>6 DEF Pend
<1>7. ASSUME NEW r \in Requesters, PublishRequest(r) PROVE MutexInv'
  BY <1>7 DEF PublishRequest
<1>8. ASSUME NEW r \in Requesters, Receive(r) PROVE MutexInv'
  BY <1>8 DEF Receive
<1>9. ASSUME NEW r \in Requesters, GiveUp(r) PROVE MutexInv'
  BY <1>9 DEF GiveUp
<1>10. ASSUME NEW r \in Requesters, Unpend(r) PROVE MutexInv'
  BY <1>10 DEF Unpend
<1>11. ASSUME NEW r \in Requesters, Unlock(r) PROVE MutexInv'
  BY <1>11 DEF Unlock
<1>12. ASSUME NEW r \in Requesters, CancelContext(r) PROVE MutexInv'
  BY <1>12 DEF CancelContext
<1>13. ASSUME Show \/ LoseEvent \/ Answer \/ Lookup \/ Send \/ Remember \/ ClearActive \/
      SetSkipRequests PROVE MutexInv'
  BY <1>13 DEF Show, LoseEvent, Answer, Lookup, AfterAnswer, Send, Remember, ClearActive,
      SetSkipRequests
<1>14. ASSUME NEW s \in Sessions, AutoApproveSession(s) PROVE MutexInv'
  BY <1>14 DEF AutoApproveSession
<1>15. ASSUME UNCHANGED vars PROVE MutexInv'
  BY <1>15 DEF vars
<1> QED
  BY <1>1, <1>2, <1>3, <1>4, <1>5, <1>6, <1>7, <1>8, <1>9, <1>10, <1>11, <1>12, <1>13,
      <1>14, <1>15 DEF Next, RequestStep, UiCall, Environment

\* A call that is not published yet is not answered, because only shown calls are.
LEMMA PhaseStep == TypeOK /\ ShownInv /\ PhaseInv /\ [Next]_vars => PhaseInv'
<1> SUFFICES ASSUME TypeOK, ShownInv, PhaseInv, [Next]_vars PROVE PhaseInv'
  OBVIOUS
<1> USE RequestAssumption DEF Goto, Notify, policyVars, uiVars, TypeOK, PhaseInv,
      ShownInv, Unanswered, Locked, Prompting, Early, Past, Answers
<1>1. ASSUME NEW r \in Requesters, Begin(r) PROVE PhaseInv'
  BY <1>1 DEF Begin
<1>2. ASSUME NEW r \in Requesters, Lock(r) PROVE PhaseInv'
  BY <1>2 DEF Lock
<1>3. ASSUME NEW r \in Requesters, CheckAutoApprove(r) PROVE PhaseInv'
  BY <1>3 DEF CheckAutoApprove, Check
<1>4. ASSUME NEW r \in Requesters, CheckSessionPermissions(r) PROVE PhaseInv'
  BY <1>4 DEF CheckSessionPermissions, Check
<1>5. ASSUME NEW r \in Requesters, Activate(r) PROVE PhaseInv'
  BY <1>5 DEF Activate
<1>6. ASSUME NEW r \in Requesters, Pend(r) PROVE PhaseInv'
  BY <1>6 DEF Pend
<1>7. ASSUME NEW r \in Requesters, PublishRequest(r) PROVE PhaseInv'
  BY <1>7 DEF PublishRequest
<1>8. ASSUME NEW r \in Requesters, Receive(r) PROVE PhaseInv'
  BY <1>8 DEF Receive
<1>9. ASSUME NEW r \in Requesters, GiveUp(r) PROVE PhaseInv'
  BY <1>9 DEF GiveUp
<1>10. ASSUME NEW r \in Requesters, Unpend(r) PROVE PhaseInv'
  BY <1>10 DEF Unpend
<1>11. ASSUME NEW r \in Requesters, Unlock(r) PROVE PhaseInv'
  BY <1>11 DEF Unlock
<1>12. ASSUME NEW r \in Requesters, CancelContext(r) PROVE PhaseInv'
  BY <1>12 DEF CancelContext
<1>13. ASSUME Answer PROVE PhaseInv'
  BY <1>13 DEF Answer
<1>14. ASSUME Show \/ LoseEvent \/ Lookup \/ Send \/ Remember \/ ClearActive \/
      SetSkipRequests PROVE PhaseInv'
  BY <1>14 DEF Show, LoseEvent, Lookup, AfterAnswer, Send, Remember, ClearActive,
      SetSkipRequests
<1>15. ASSUME NEW s \in Sessions, AutoApproveSession(s) PROVE PhaseInv'
  BY <1>15 DEF AutoApproveSession
<1>16. ASSUME UNCHANGED vars PROVE PhaseInv'
  BY <1>16 DEF vars
<1> QED
  BY <1>1, <1>2, <1>3, <1>4, <1>5, <1>6, <1>7, <1>8, <1>9, <1>10, <1>11, <1>12, <1>13,
      <1>14, <1>15, <1>16 DEF Next, RequestStep, UiCall, Environment

\* A call is published once, and leaves events and the dialog when it is answered.
LEMMA ShownStep ==
    TypeOK /\ PhaseInv /\ AnswerInv /\ ShownInv /\ [Next]_vars => ShownInv'
<1> SUFFICES ASSUME TypeOK, PhaseInv, AnswerInv, ShownInv, [Next]_vars PROVE ShownInv'
  OBVIOUS
<1> USE RequestAssumption DEF Goto, Notify, policyVars, uiVars, TypeOK, PhaseInv,
      AnswerInv, ShownInv, Unanswered, Locked, Prompting, Early, Past, Answers
<1>1. ASSUME NEW r \in Requesters, Begin(r) PROVE ShownInv'
  BY <1>1 DEF Begin
<1>2. ASSUME NEW r \in Requesters, CheckAutoApprove(r) PROVE ShownInv'
  BY <1>2 DEF CheckAutoApprove, Check
<1>3. ASSUME NEW r \in Requesters, CheckSessionPermissions(r) PROVE ShownInv'
  BY <1>3 DEF CheckSessionPermissions, Check
<1>4. ASSUME NEW r \in Requesters, PublishRequest(r) PROVE ShownInv'
  BY <1>4, AppendedEvents DEF PublishRequest
<1>5. ASSUME NEW r \in Requesters, Receive(r) PROVE ShownInv'
  BY <1>5 DEF Receive
<1>6. ASSUME NEW r \in Requesters, GiveUp(r) PROVE ShownInv'
  BY <1>6 DEF GiveUp
<1>7. ASSUME NEW r \in Requesters, Lock(r) \/ Activate(r) \/ Pend(r) \/ Unpend(r) \/
      Unlock(r) \/ CancelContext(r) PROVE ShownInv'
  BY <1>7 DEF Lock, Activate, Pend, Unpend, Unlock, CancelContext
<1>8. ASSUME Show PROVE ShownInv'
  BY <1>8, TakenEvents DEF Show
<1>9. ASSUME LoseEvent PROVE ShownInv'
  BY <1>9, TakenEvents DEF LoseEvent
<1>10. ASSUME Answer PROVE ShownInv'
  BY <1>10 DEF Answer
<1>11. ASSUME Lookup \/ Send \/ Remember \/ ClearActive \/ SetSkipRequests PROVE ShownInv'
  BY <1>11 DEF Lookup, AfterAnswer, Send, Remember, ClearActive, SetSkipRequests
<1>12. ASSUME NEW s \in Sessions, AutoApproveSession(s) PROVE ShownInv'
  BY <1>12 DEF AutoApproveSession
<1>13. ASSUME UNCHANGED vars PROVE ShownInv'
  BY <1>13 DEF vars
<1> QED
  BY <1>1, <1>2, <1>3, <1>4, <1>5, <1>6, <1>7, <1>8, <1>9, <1>10, <1>11, <1>12, <1>13 DEF
      Next, RequestStep, UiCall, Environment

\* The channel carries what the user said: the answer is sent once, to a call
\* whose channel is empty because it was unanswered.
LEMMA AnswerStep ==
    TypeOK /\ PhaseInv /\ ShownInv /\ AnswerInv /\ [Next]_vars => AnswerInv'
<1> SUFFICES ASSUME TypeOK, PhaseInv, ShownInv, AnswerInv, [Next]_vars PROVE AnswerInv'
  OBVIOUS
<1> USE RequestAssumption DEF Goto, Notify, policyVars, uiVars, TypeOK, PhaseInv,
      ShownInv, AnswerInv, Unanswered, Locked, Prompting, Early, Past, Answers
<1>1. ASSUME NEW r \in Requesters, Begin(r) PROVE AnswerInv'
  BY <1>1 DEF Begin
<1>2. ASSUME NEW r \in Requesters, CheckAutoApprove(r) PROVE AnswerInv'
  BY <1>2 DEF CheckAutoApprove, Check
<1>3. ASSUME NEW r \in Requesters, CheckSessionPermissions(r) PROVE AnswerInv'
  BY <1>3 DEF CheckSessionPermissions, Check
<1>4. ASSUME NEW r \in Requesters, Receive(r) PROVE AnswerInv'
  BY <1>4 DEF Receive
<1>5. ASSUME NEW r \in Requesters, Lock(r) \/ Activate(r) \/ Pend(r) \/ PublishRequest(r)
      \/ GiveUp(r) \/ Unpend(r) \/ Unlock(r) \/ CancelContext(r) PROVE AnswerInv'
  BY <1>5 DEF Lock, Activate, Pend, PublishRequest, GiveUp, Unpend, Unlock, CancelContext
<1>6. ASSUME Show PROVE AnswerInv'
  BY <1>6 DEF Show
<1>7. ASSUME Answer PROVE AnswerInv'
  BY <1>7 DEF Answer
<1>8. ASSUME Lookup PROVE AnswerInv'
  BY <1>8 DEF Lookup, AfterAnswer
<1>9. ASSUME Send PROVE AnswerInv'
  BY <1>9 DEF Send, AfterAnswer
<1>10. ASSUME Remember PROVE AnswerInv'
  BY <1>10 DEF Remember
<1>11. ASSUME ClearActive PROVE AnswerInv'
  BY <1>11 DEF ClearActive
<1>12. ASSUME LoseEvent \/ SetSkipRequests PROVE AnswerInv'
  BY <1>12 DEF LoseEvent, SetSkipRequests
<1>13. ASSUME NEW s \in Sessions, AutoApproveSession(s) PROVE AnswerInv'
  BY <1>13 DEF AutoApproveSession
<1>14. ASSUME UNCHANGED vars PROVE AnswerInv'
  BY <1>14 DEF vars
<1> QED
  BY <1>1, <1>2, <1>3, <1>4, <1>5, <1>6, <1>7, <1>8, <1>9, <1>10, <1>11, <1>12, <1>13,
      <1>14 DEF Next, RequestStep, UiCall, Environment

\* What Request returns is covered by a policy or is what the channel carried.
LEMMA OutcomeStep ==
    TypeOK /\ PhaseInv /\ ShownInv /\ AnswerInv /\ OutcomeInv /\ [Next]_vars => OutcomeInv'
<1> SUFFICES ASSUME TypeOK, PhaseInv, ShownInv, AnswerInv, OutcomeInv, [Next]_vars PROVE
      OutcomeInv'
  OBVIOUS
<1> USE RequestAssumption DEF Goto, Notify, policyVars, uiVars, TypeOK, PhaseInv,
      ShownInv, AnswerInv, OutcomeInv,
      RunsOnlyWithConsent, DenialHolds, GrantIsAnnounced, Consented, Unanswered, Locked,
      Prompting, Early, Past, Answers
<1>1. ASSUME NEW r \in Requesters, Begin(r) PROVE OutcomeInv'
  BY <1>1 DEF Begin
<1>2. ASSUME NEW r \in Requesters, CheckAutoApprove(r) PROVE OutcomeInv'
  BY <1>2 DEF CheckAutoApprove, Check
<1>3. ASSUME NEW r \in Requesters, CheckSessionPermissions(r) PROVE OutcomeInv'
  BY <1>3 DEF CheckSessionPermissions, Check
<1>4. ASSUME NEW r \in Requesters, Receive(r) PROVE OutcomeInv'
  BY <1>4 DEF Receive
<1>5. ASSUME NEW r \in Requesters, GiveUp(r) PROVE OutcomeInv'
  BY <1>5 DEF GiveUp
<1>6. ASSUME NEW r \in Requesters, Lock(r) \/ Activate(r) \/ Pend(r) \/ PublishRequest(r)
      \/ Unpend(r) \/ Unlock(r) \/ CancelContext(r) PROVE OutcomeInv'
  BY <1>6 DEF Lock, Activate, Pend, PublishRequest, Unpend, Unlock, CancelContext
<1>7. ASSUME Answer PROVE OutcomeInv'
  BY <1>7 DEF Answer
<1>8. ASSUME Lookup \/ Show \/ LoseEvent \/ Send \/ Remember \/ ClearActive \/
      SetSkipRequests PROVE OutcomeInv'
  BY <1>8 DEF Lookup, AfterAnswer, Show, LoseEvent, Send, Remember, ClearActive,
      SetSkipRequests
<1>9. ASSUME NEW s \in Sessions, AutoApproveSession(s) PROVE OutcomeInv'
  BY <1>9 DEF AutoApproveSession
<1>10. ASSUME UNCHANGED vars PROVE OutcomeInv'
  BY <1>10 DEF vars
<1> QED
  BY <1>1, <1>2, <1>3, <1>4, <1>5, <1>6, <1>7, <1>8, <1>9, <1>10 DEF Next, RequestStep,
      UiCall, Environment

-----------------------------------------------------------------------------
(* The theorems. *)

\* The invariant is inductive.
LEMMA Invariance == Spec => []IInv
<1>1. IInv /\ [Next]_vars => IInv'
  BY TypeStep, MutexStep, PhaseStep, ShownStep, AnswerStep, OutcomeStep DEF IInv
<1> QED
  BY InitIInv, <1>1, PTL DEF Spec

\* The types of the service's and the UI's state.
THEOREM TypeCorrect == Spec => []TypeOK
<1>1. IInv => TypeOK
  BY DEF IInv
<1> QED
  BY Invariance, <1>1, PTL

\* The user is asked about one call at a time, and only the call that holds
\* requestMu can be answered.
THEOREM OneQuestionAtATime == Spec => []OneQuestion
<1>1. IInv => OneQuestion
  BY DEF IInv, MutexInv, OneQuestion, Locked, Prompting, TypeOK
<1> QED
  BY Invariance, <1>1, PTL

\* Whatever is cancelled, lost or answered late, Request lets a call through
\* only with consent.
THEOREM ConsentIsNeeded == Spec => []RunsOnlyWithConsent
<1>1. IInv => RunsOnlyWithConsent
  BY DEF IInv, OutcomeInv
<1> QED
  BY Invariance, <1>1, PTL

\* A call the user denied is never let through.
THEOREM DenialIsFinal == Spec => []DenialHolds
<1>1. IInv => DenialHolds
  BY DEF IInv, OutcomeInv
<1> QED
  BY Invariance, <1>1, PTL

\* The UI goroutine finds room in the channel of every request it answers.
THEOREM UiIsNotBlocked == Spec => []UiNeverBlocks
<1>1. IInv => UiNeverBlocks
  BY DEF IInv, AnswerInv, UiNeverBlocks
<1> QED
  BY Invariance, <1>1, PTL

\* The last notification about a call that was let through says so.
THEOREM GrantsAreAnnounced == Spec => []GrantIsAnnounced
<1>1. IInv => GrantIsAnnounced
  BY DEF IInv, OutcomeInv
<1> QED
  BY Invariance, <1>1, PTL

-----------------------------------------------------------------------------
(* The service implements PermissionGate. *)

\* A step of the service is a step of the gate, or leaves the gate alone.
LEMMA GateStep == IInv /\ [Next]_vars => [Gate!Next]_(Gate!gateVars)
<1> SUFFICES ASSUME IInv, [Next]_vars PROVE [Gate!Next]_(Gate!gateVars)
  OBVIOUS
<1> USE RequestAssumption
     DEF IInv, TypeOK, MutexInv, PhaseInv, Goto, Notify, policyVars, uiVars,
         Locked, Prompting, Early, Past, Gate!gateVars
<1> DEFINE Stutter == UNCHANGED Gate!gateVars
\* Admission by a policy.
<1>1. ASSUME NEW r \in Requesters, Begin(r) PROVE Gate!AdmitByPolicy(r) \/ Stutter
  BY <1>1 DEF Begin, Gate!AdmitByPolicy
<1>2. ASSUME NEW r \in Requesters, CheckAutoApprove(r) PROVE Gate!AdmitByPolicy(r) \/ Stutter
  BY <1>2 DEF CheckAutoApprove, Check, Gate!AdmitByPolicy
\* An earlier answer covers the call, or the question begins.
<1>3. ASSUME NEW r \in Requesters, CheckSessionPermissions(r)
      PROVE Gate!AdmitByPolicy(r) \/ Gate!Ask(r)
  <2>1. CASE KeyOf[r] \in sessionPermissions
    BY <1>3, <2>1 DEF CheckSessionPermissions, Check, Gate!AdmitByPolicy, Gate!Standing, AnswerInv
  <2>2. CASE KeyOf[r] \notin sessionPermissions
    BY <1>3, <2>2 DEF CheckSessionPermissions, Check, Gate!Ask
  <2> QED
    BY <2>1, <2>2
\* The question is answered or given up.
<1>4. ASSUME Answer PROVE Gate!Say(dialog)
  <2>1. /\ dialog \in Requesters
        /\ said[dialog] = "nothing"
        /\ pc[dialog] = "wait" \/ result[dialog] # "none"
    BY <1>4 DEF Answer, ShownInv, Unanswered
  <2>2. UNCHANGED <<skip, autoApproveSessions, pc, result>>
    BY <1>4 DEF Answer
  <2>3. \E a \in Answers : said' = [said EXCEPT ![dialog] = a]
    BY <1>4 DEF Answer
  <2> QED
    BY <2>1, <2>2, <2>3 DEF Answers, Gate!Say
<1>5. ASSUME NEW r \in Requesters, Receive(r) PROVE Gate!Decide(r)
  <2>1. /\ pc[r] = "wait"
        /\ said[r] # "nothing"
        /\ result' = [result EXCEPT ![r] = IF said[r] = "deny" THEN "denied" ELSE "granted"]
    <3>1. respCh[r] \in {"yes", "no"} /\ (respCh[r] = "yes" <=> said[r] # "deny")
      BY <1>5 DEF Receive, AnswerInv
    <3>2. said[r] # "nothing"
      BY <3>1 DEF AnswerInv
    <3> QED
      BY <1>5, <3>1, <3>2 DEF Receive
  <2>2. {q \in Requesters : pc'[q] \in Prompting} = {}
    BY <1>5 DEF Receive
  <2>3. UNCHANGED <<skip, autoApproveSessions, said>>
    BY <1>5 DEF Receive
  <2> QED
    BY <2>1, <2>2, <2>3 DEF Gate!Decide
<1>6. ASSUME NEW r \in Requesters, GiveUp(r) PROVE Gate!GiveUp(r)
  BY <1>6 DEF GiveUp, Gate!GiveUp
\* The policies change.
<1>7. ASSUME NEW s \in Sessions, AutoApproveSession(s) PROVE Gate!ChangePolicy
  BY <1>7 DEF AutoApproveSession, Gate!ChangePolicy
<1>8. ASSUME SetSkipRequests PROVE Gate!ChangePolicy
  BY <1>8 DEF SetSkipRequests, Gate!ChangePolicy
\* Everything else is invisible at the gate.
<1>9. ASSUME NEW r \in Requesters,
             \/ Lock(r) \/ Activate(r) \/ Pend(r) \/ PublishRequest(r)
             \/ Unpend(r) \/ Unlock(r) \/ CancelContext(r)
      PROVE Stutter
  BY <1>9 DEF Lock, Activate, Pend, PublishRequest, Unpend, Unlock, CancelContext
<1>10. ASSUME Show \/ LoseEvent \/ UiCall PROVE Stutter
  BY <1>10 DEF Show, LoseEvent, UiCall, Lookup, Send, Remember, ClearActive
<1>11. ASSUME UNCHANGED vars PROVE Stutter
  BY <1>11 DEF vars
<1>12. ASSUME Answer PROVE dialog \in Requesters
  BY <1>12 DEF Answer
<1> QED
  BY <1>1, <1>2, <1>3, <1>4, <1>5, <1>6, <1>7, <1>8, <1>9, <1>10, <1>11, <1>12
  DEF Next, RequestStep, Environment, Gate!Next

\* The service, its callers and the UI together behave as the gate promises.
THEOREM ImplementsGate == Spec => GateSpec
<1>1. Init => Gate!Init
  BY DEF Init, Gate!Init, Prompting
<1> QED
  BY <1>1, Invariance, GateStep, PTL DEF Spec, GateSpec, Gate!Spec
=============================================================================

------------------------- MODULE SessionAgentProofs -------------------------
(***************************************************************************)
(* Proofs about the session agent.  First about its scheduling, for any    *)
(* number of goroutines (SessionAgent); then about the transcript of a     *)
(* turn, for any set of tool calls, any number of steps, of faults, and    *)
(* whoever cancels (AgentTurn, Turn in Agent); last that Agent implements  *)
(* both.                                                                   *)
(***************************************************************************)
EXTENDS Agent, SequenceTheorems, FiniteSetTheorems, TLAPS

\* The labels at which a goroutine has a frame of its own.
Framed == Working \cup {"sumRelease", "compact", "requeue", "requeueSet",
                        "release", "next", "nextSet"}

FrameInv ==
    /\ \A r \in Runners : pc[r] \in Framed => stack[r] # <<>>
    /\ \A p \in Prompts : pc[p] \in {"sumCheck", "sumLoad", "sumRegister"} => stack[p] # <<>>
    /\ \A p \in Prompts : pc[p] = "sumStream" => Tail(stack[p]) # <<>>
    /\ \A p \in Prompts : pc[p] = "nextSet" => local[p] # <<>>

\* Without an overlap one goroutine has all the frames, and the entry is the
\* innermost of them whenever that goroutine works.
SoleInv ==
    ~overlapped =>
        /\ \A q, r \in Runners : stack[q] # <<>> /\ stack[r] # <<>> => q = r
        /\ \A r \in Runners : pc[r] \in Working => active = Top(r)

IInv == TypeOK /\ FrameInv /\ BusyEntryLive /\ SoleInv

-----------------------------------------------------------------------------
(* What the helpers of the actions do. *)

\* The items of a sequence, of its prefixes and of its rests are in its set.
LEMMA ItemsType ==
    ASSUME NEW S, NEW s \in Seq(S)
    PROVE  /\ Items(s) \subseteq S
           /\ \A n \in 0..Len(s) : {s[i] : i \in 1..n} \subseteq S
           /\ \A n \in 0..Len(s) : {s[i] : i \in (n+1)..Len(s)} \subseteq S
BY ElementOfSeq, LenProperties DEF Items

\* A sequence that is not empty has a head and a tail.
LEMMA HeadTail ==
    ASSUME NEW S, NEW s \in Seq(S), s # <<>>
    PROVE  Head(s) \in S /\ Tail(s) \in Seq(S) /\ Head(s) \in Items(s)
<1>1. Head(s) \in S /\ Tail(s) \in Seq(S) /\ Head(s) = s[1]
  BY HeadTailProperties
<1>2. 1 \in DOMAIN s
  BY EmptySeq, LenProperties
<1> QED
  BY <1>1, <1>2 DEF Items

\* What is pushed on a sequence is its head; the rest is the tail.
LEMMA PushedSeq ==
    ASSUME NEW S, NEW c \in S, NEW s \in Seq(S)
    PROVE  /\ <<c>> \o s \in Seq(S)
           /\ <<c>> \o s # <<>>
           /\ Head(<<c>> \o s) = c
           /\ Tail(<<c>> \o s) = s
           /\ c \in Items(<<c>> \o s)
<1> DEFINE t == <<c>> \o s
<1>1. <<c>> \in Seq(S) /\ Len(<<c>>) = 1 /\ <<c>>[1] = c
  OBVIOUS
<1>2. /\ t \in Seq(S) /\ Len(t) = 1 + Len(s) /\ Len(s) \in Nat
      /\ \A i \in 1..(1 + Len(s)) : t[i] = IF i <= 1 THEN <<c>>[i] ELSE s[i - 1]
  BY <1>1, ConcatProperties, LenProperties
<1>3. t # <<>> /\ t[1] = c
  BY <1>1, <1>2, EmptySeq
<1>4. /\ Head(t) = c /\ Tail(t) \in Seq(S) /\ Len(Tail(t)) = Len(s)
      /\ \A i \in 1..Len(s) : Tail(t)[i] = s[i]
  BY <1>2, <1>3, HeadTailProperties
<1>5. Tail(t) = s
  BY <1>4, SeqEqual
<1>6. 1 \in DOMAIN t
  BY <1>2, LenProperties
<1> QED
  BY <1>2, <1>3, <1>4, <1>5, <1>6 DEF Items

\* The same for a frame pushed by a goroutine: its context is new.
LEMMA PushedFrame ==
    ASSUME TypeOK, NEW r \in Runners
    PROVE  /\ <<nextCtx>> \o stack[r] \in Seq(Nat \ {0})
           /\ <<nextCtx>> \o stack[r] # <<>>
           /\ Head(<<nextCtx>> \o stack[r]) = nextCtx
           /\ Tail(<<nextCtx>> \o stack[r]) = stack[r]
           /\ nextCtx \in Items(<<nextCtx>> \o stack[r])
<1>1. stack[r] \in Seq(Nat \ {0}) /\ nextCtx \in Nat \ {0}
  BY DEF TypeOK
<1> QED
  BY <1>1, PushedSeq

\* An append adds one item: no prompt leaves the queue by Enqueue or Requeue.
LEMMA ItemsAppend ==
    ASSUME NEW S, NEW s \in Seq(S), NEW e \in S
    PROVE  Items(Append(s, e)) = Items(s) \cup {e}
<1>1. /\ DOMAIN s = 1..Len(s) /\ Len(s) \in Nat
      /\ DOMAIN Append(s, e) = 1..(Len(s) + 1)
      /\ \A i \in 1..Len(s) : Append(s, e)[i] = s[i]
      /\ Append(s, e)[Len(s) + 1] = e
  BY LenProperties, AppendProperties
<1> QED
  BY <1>1 DEF Items

\* Taking the head of the queue leaves every other prompt in it.
LEMMA ItemsTail ==
    ASSUME NEW S, NEW s \in Seq(S), s # <<>>
    PROVE  Items(s) = {Head(s)} \cup Items(Tail(s))
<1>1. /\ DOMAIN s = 1..Len(s) /\ Len(s) \in Nat \ {0}
      /\ Tail(s) \in Seq(S) /\ Len(Tail(s)) = Len(s) - 1
      /\ Head(s) = s[1]
      /\ \A i \in 1..(Len(s) - 1) : Tail(s)[i] = s[i + 1]
  BY LenProperties, HeadTailProperties, EmptySeq
<1>2. DOMAIN Tail(s) = 1..(Len(s) - 1)
  BY <1>1, LenProperties
<1>3. ASSUME NEW i \in 1..Len(s) PROVE s[i] \in {Head(s)} \cup Items(Tail(s))
  <2>1. CASE i = 1
    BY <1>1, <2>1
  <2>2. CASE i # 1
    <3>1. i - 1 \in DOMAIN Tail(s) /\ Tail(s)[i - 1] = s[i]
      BY <1>1, <1>2, <2>2
    <3> QED
      BY <3>1 DEF Items
  <2> QED
    BY <2>1, <2>2
<1> QED
  BY <1>1, <1>2, <1>3 DEF Items

-----------------------------------------------------------------------------
\* Every step preserves the types, and which phases have a frame.
LEMMA TypeFrameStep == TypeOK /\ FrameInv /\ [Next]_vars => TypeOK' /\ FrameInv'
<1> SUFFICES ASSUME TypeOK, FrameInv, [Next]_vars PROVE TypeOK' /\ FrameInv'
  OBVIOUS
<1> USE ActorsAssumption, BoundsAssumption DEF Runners, Users, NoCtx, Goto, ctxVars, store, history,
     TypeOK, Labels, RunLabels, UserLabels, FrameInv, Framed, Working
<1>1. ASSUME NEW p \in Prompts, CheckBusy(p) PROVE TypeOK' /\ FrameInv'
  BY <1>1 DEF CheckBusy
<1>2. ASSUME NEW p \in Prompts, ReadToAppend(p) PROVE TypeOK' /\ FrameInv'
  BY <1>2 DEF ReadToAppend
<1>3. ASSUME NEW p \in Prompts, Enqueue(p) PROVE TypeOK' /\ FrameInv'
  <2>1. TypeOK'
    BY <1>3, AppendProperties DEF Enqueue, WriteQueue
  <2>2. FrameInv'
    BY <1>3, AppendProperties DEF Enqueue, WriteQueue
  <2> QED
    BY <2>1, <2>2
<1>4. ASSUME NEW p \in Prompts, Load(p) PROVE TypeOK' /\ FrameInv'
  <2>1. TypeOK'
    BY <1>4 DEF Load
  <2>2. FrameInv'
    BY <1>4 DEF Load
  <2> QED
    BY <2>1, <2>2
<1>5. ASSUME NEW p \in Prompts, LoadFails(p) PROVE TypeOK' /\ FrameInv'
  <2>1. TypeOK'
    BY <1>5 DEF LoadFails
  <2>2. FrameInv'
    BY <1>5 DEF LoadFails
  <2> QED
    BY <2>1, <2>2
<1>6. ASSUME NEW p \in Prompts, Register(p) PROVE TypeOK' /\ FrameInv'
  <2>1. TypeOK'
    BY <1>6, PushedSeq DEF Register, PushFrame
  <2>2. FrameInv'
    <3>1. /\ pc'[p] = "prepare"
          /\ stack'[p] = <<nextCtx>> \o stack[p]
          /\ \A q \in Runners \ {p} : pc'[q] = pc[q] /\ stack'[q] = stack[q]
          /\ local' = local
          /\ p \in Prompts /\ pc[p] = "sumRegister" => stack[p] # <<>>
      BY <1>6 DEF Register, PushFrame
    <3>2. stack'[p] # <<>> /\ Tail(stack'[p]) = stack[p] /\ pc[p] = "register"
      BY <1>6, <3>1, PushedFrame DEF Register
    <3> QED
      BY <3>1, <3>2
  <2> QED
    BY <2>1, <2>2
<1>7. ASSUME NEW p \in Prompts, ReadToDrain(p) PROVE TypeOK' /\ FrameInv'
  BY <1>7 DEF ReadToDrain
<1>8. ASSUME NEW p \in Prompts, Drain(p) PROVE TypeOK' /\ FrameInv'
  <2>1. TypeOK'
    BY <1>8 DEF Drain
  <2>2. FrameInv'
    BY <1>8 DEF Drain
  <2> QED
    BY <2>1, <2>2
<1>9. ASSUME NEW p \in Prompts, PersistDrained(p) PROVE TypeOK' /\ FrameInv'
  <2>1. TypeOK'
    BY <1>9, ItemsType DEF PersistDrained
  <2>2. FrameInv'
    BY <1>9, ItemsType DEF PersistDrained
  <2> QED
    BY <2>1, <2>2
<1>10. ASSUME NEW p \in Prompts, PersistFails(p) PROVE TypeOK' /\ FrameInv'
  <2>1. persisted' \subseteq Prompts /\ dropped' \subseteq Prompts
    BY <1>10, ItemsType DEF PersistFails
  <2>2. TypeOK'
    BY <1>10, <2>1 DEF PersistFails
  <2>3. FrameInv'
    BY <1>10 DEF PersistFails
  <2> QED
    BY <2>2, <2>3
<1>11. ASSUME NEW p \in Prompts, StepEnds(p) PROVE TypeOK' /\ FrameInv'
  BY <1>11 DEF StepEnds
<1>12. ASSUME NEW p \in Prompts, StreamEnds(p) PROVE TypeOK' /\ FrameInv'
  BY <1>12 DEF StreamEnds
<1>13. ASSUME NEW p \in Prompts, StreamOverflows(p) PROVE TypeOK' /\ FrameInv'
  <2>1. TypeOK'
    BY <1>13 DEF StreamOverflows
  <2>2. FrameInv'
    BY <1>13 DEF StreamOverflows
  <2> QED
    BY <2>1, <2>2
<1>14. ASSUME NEW p \in Prompts, StreamFails(p) PROVE TypeOK' /\ FrameInv'
  BY <1>14 DEF StreamFails
<1>15. ASSUME NEW p \in Prompts, Recover(p) PROVE TypeOK' /\ FrameInv'
  <2>1. TypeOK'
    BY <1>15 DEF Recover
  <2>2. FrameInv'
    BY <1>15 DEF Recover
  <2> QED
    BY <2>1, <2>2
<1>16. ASSUME NEW p \in Prompts, RecoveryFails(p) PROVE TypeOK' /\ FrameInv'
  <2>1. TypeOK'
    BY <1>16 DEF RecoveryFails
  <2>2. FrameInv'
    BY <1>16 DEF RecoveryFails
  <2> QED
    BY <2>1, <2>2
<1>17. ASSUME NEW p \in Prompts, FailTurn(p) PROVE TypeOK' /\ FrameInv'
  BY <1>17 DEF FailTurn
<1>18. ASSUME NEW p \in Prompts, ReleaseToSummarize(p) PROVE TypeOK' /\ FrameInv'
  BY <1>18 DEF ReleaseToSummarize
<1>19. ASSUME NEW p \in Prompts, ReleaseToCompact(p) PROVE TypeOK' /\ FrameInv'
  BY <1>19 DEF ReleaseToCompact
<1>20. ASSUME NEW p \in Prompts, Requeue(p) PROVE TypeOK' /\ FrameInv'
  <2>1. TypeOK'
    BY <1>20, AppendProperties DEF Requeue, WriteQueue
  <2>2. FrameInv'
    BY <1>20, AppendProperties DEF Requeue, WriteQueue
  <2> QED
    BY <2>1, <2>2
<1>21. ASSUME NEW p \in Prompts, Release(p) PROVE TypeOK' /\ FrameInv'
  <2>1. TypeOK'
    <3>1. Head(stack[p]) \in Nat
      BY <1>21, HeadTail DEF Release
    <3> QED
      BY <1>21, <3>1 DEF Release, Top
  <2>2. FrameInv'
    BY <1>21, HeadTail DEF Release, Top
  <2> QED
    BY <2>1, <2>2
<1>22. ASSUME NEW p \in Prompts, ReadNext(p) PROVE TypeOK' /\ FrameInv'
  BY <1>22 DEF ReadNext
<1>23. ASSUME NEW p \in Prompts, TakeNext(p) PROVE TypeOK' /\ FrameInv'
  <2>1. TypeOK'
    <3>1. local[p] \in Seq(Prompts) /\ local[p] # <<>>
      BY <1>23 DEF TakeNext
    <3>2. Head(local[p]) \in Prompts /\ Tail(local[p]) \in Seq(Prompts)
      BY <3>1, HeadTail
    <3> QED
      BY <1>23, <3>2 DEF TakeNext, WriteQueue
  <2>2. FrameInv'
    <3>1. /\ pc'[p] = "check"
          /\ \A q \in Runners \ {p} : pc'[q] = pc[q]
          /\ \A q \in Prompts \ {p} : local'[q] = local[q]
          /\ stack' = stack
      BY <1>23 DEF TakeNext, WriteQueue
    <3> QED
      BY <3>1
  <2> QED
    BY <2>1, <2>2
<1>24. ASSUME NEW r \in Runners, SummarizeCheckBusy(r) PROVE TypeOK' /\ FrameInv'
  <2>1. TypeOK'
    BY <1>24 DEF SummarizeCheckBusy, Summarized, ParentCancelled
  <2>2. FrameInv'
    <3>1. /\ r \in Prompts => stack[r] # <<>>
          /\ pc'[r] \in {"sumLoad", "sumRegister", "return", "requeue", "release"}
          /\ r \notin Prompts => pc'[r] \in {"sumLoad", "sumRegister", "return"}
          /\ \A q \in Runners \ {r} : pc'[q] = pc[q]
          /\ local' = local /\ stack' = stack
      BY <1>24 DEF SummarizeCheckBusy, Summarized
    <3> QED
      BY <3>1
  <2> QED
    BY <2>1, <2>2
<1>25. ASSUME NEW r \in Runners, SummarizeLoad(r) PROVE TypeOK' /\ FrameInv'
  <2>1. TypeOK'
    BY <1>25 DEF SummarizeLoad, Summarized, ParentCancelled
  <2>2. FrameInv'
    <3>1. /\ r \in Prompts => stack[r] # <<>>
          /\ pc'[r] \in {"sumLoad", "sumRegister", "return", "requeue", "release"}
          /\ r \notin Prompts => pc'[r] \in {"sumLoad", "sumRegister", "return"}
          /\ \A q \in Runners \ {r} : pc'[q] = pc[q]
          /\ local' = local /\ stack' = stack
      BY <1>25 DEF SummarizeLoad, Summarized
    <3> QED
      BY <3>1
  <2> QED
    BY <2>1, <2>2
<1>26. ASSUME NEW r \in Runners, SummarizeRegister(r) PROVE TypeOK' /\ FrameInv'
  <2>1. TypeOK'
    BY <1>26, PushedSeq DEF SummarizeRegister, PushFrame
  <2>2. FrameInv'
    <3>1. /\ pc'[r] = "sumStream"
          /\ stack'[r] = <<nextCtx>> \o stack[r]
          /\ \A q \in Runners \ {r} : pc'[q] = pc[q] /\ stack'[q] = stack[q]
          /\ local' = local
          /\ r \in Prompts /\ pc[r] = "sumRegister" => stack[r] # <<>>
      BY <1>26 DEF SummarizeRegister, PushFrame
    <3>2. stack'[r] # <<>> /\ Tail(stack'[r]) = stack[r] /\ pc[r] = "sumRegister"
      BY <1>26, <3>1, PushedFrame DEF SummarizeRegister
    <3> QED
      BY <3>1, <3>2
  <2> QED
    BY <2>1, <2>2
<1>27. ASSUME NEW r \in Runners, SummarizeEnds(r) PROVE TypeOK' /\ FrameInv'
  <2>1. TypeOK'
    <3>1. stack' \in [Runners -> Seq(Nat \ {0})] /\ active' \in Nat /\ cancelled' \in SUBSET Nat
      BY <1>27, HeadTail DEF SummarizeEnds, PopFrame
    <3>2. pc' \in [Runners \cup Users -> Labels]
      BY <1>27 DEF SummarizeEnds, Summarized
    <3> QED
      BY <1>27, <3>1, <3>2 DEF SummarizeEnds, PopFrame
  <2>2. FrameInv'
    <3>1. /\ r \in Prompts => stack'[r] # <<>>
          /\ pc'[r] \in {"return", "requeue", "release"}
          /\ r \notin Prompts => pc'[r] = "return"
      BY <1>27 DEF SummarizeEnds, PopFrame, Summarized
    <3>2. /\ \A q \in Runners \ {r} : pc'[q] = pc[q] /\ stack'[q] = stack[q]
          /\ local' = local
      BY <1>27 DEF SummarizeEnds, PopFrame, Summarized
    <3> QED
      BY <3>1, <3>2
  <2> QED
    BY <2>1, <2>2
<1>28. ASSUME NEW r \in Runners, Unwind(r) PROVE TypeOK' /\ FrameInv'
  <2>1. TypeOK'
    BY <1>28, HeadTail DEF Unwind, PopFrame, Top
  <2>2. FrameInv'
    BY <1>28, HeadTail DEF Unwind, PopFrame, Top
  <2> QED
    BY <2>1, <2>2
<1>29. ASSUME NEW r \in Runners, Return(r) PROVE TypeOK' /\ FrameInv'
  BY <1>29 DEF Return
<1>30. ASSUME NEW k \in Cancellers, CancelLookup(k) PROVE TypeOK' /\ FrameInv'
  <2>1. TypeOK'
    BY <1>30 DEF CancelLookup
  <2>2. FrameInv'
    BY <1>30 DEF CancelLookup
  <2> QED
    BY <2>1, <2>2
<1>31. ASSUME NEW k \in Cancellers, CancelCall(k) PROVE TypeOK' /\ FrameInv'
  <2>1. TypeOK'
    <3>1. cancelled' \in SUBSET Nat
      BY <1>31 DEF CancelCall
    <3>2. pc' \in [Runners \cup Users -> Labels]
      BY <1>31 DEF CancelCall
    <3> QED
      BY <1>31, <3>1, <3>2 DEF CancelCall
  <2>2. FrameInv'
    BY <1>31 DEF CancelCall
  <2> QED
    BY <2>1, <2>2
<1>32. ASSUME NEW u \in Users, CountQueued(u) PROVE TypeOK' /\ FrameInv'
  BY <1>32 DEF CountQueued
<1>33. ASSUME NEW u \in Users, ClearQueued(u) PROVE TypeOK' /\ FrameInv'
  <2>1. TypeOK'
    BY <1>33, ItemsType DEF ClearQueued
  <2>2. FrameInv'
    BY <1>33, ItemsType DEF ClearQueued
  <2> QED
    BY <2>1, <2>2
<1>34. CASE UNCHANGED vars
  BY <1>34 DEF vars, Top
<1>35. QED
  BY <1>1, <1>2, <1>3, <1>4, <1>5, <1>6, <1>7, <1>8, <1>9, <1>10, <1>11, <1>12, <1>13, <1>14, <1>15, <1>16, <1>17, <1>18, <1>19, <1>20, <1>21, <1>22, <1>23, <1>24, <1>25, <1>26, <1>27, <1>28, <1>29, <1>30, <1>31, <1>32, <1>33, <1>34 DEF Next, RunStep, StreamStep, SummarizeStep, Ending, CancelStep, UserStep, Waiting

\* What one step does to the frames: some goroutine g leaves the entry and the
\* frames alone; or removes the entry, having a frame; or registers a new frame.
Shape(g) ==
    /\ \A h \in Runners \ {g} : pc'[h] = pc[h] /\ stack'[h] = stack[h]
    /\ \/ /\ UNCHANGED <<active, stack, overlapped>>
          /\ g \in Runners /\ pc'[g] \in Working => pc[g] \in Working
       \/ /\ g \in Runners /\ stack[g] # <<>>
          /\ active' = NoCtx /\ overlapped' = overlapped
          /\ pc'[g] \notin Working
       \/ /\ g \in Runners /\ stack'[g] # <<>>
          /\ active' = Head(stack'[g]) /\ active' \in Items(stack'[g])
          /\ overlapped' = (overlapped \/ \E q \in Runners \ {g} : stack[q] # <<>>)

\* Every step of Run, Summarize, Cancel and ClearQueue has one of the shapes.
LEMMA StepShape ==
    TypeOK /\ FrameInv /\ [Next]_vars => \E g \in Runners \cup Users \cup {NoCtx} : Shape(g)
<1> SUFFICES ASSUME TypeOK, FrameInv, [Next]_vars
             PROVE  \E g \in Runners \cup Users \cup {NoCtx} : Shape(g)
  OBVIOUS
<1> USE ActorsAssumption DEF Runners, Users, Goto, ctxVars, store, history,
     TypeOK, Labels, RunLabels, UserLabels, Working, Shape
<1>1. ASSUME NEW p \in Prompts, CheckBusy(p) PROVE \E g \in Runners \cup Users \cup {NoCtx} : Shape(g)
  <2>1. Shape(p)
    BY <1>1 DEF CheckBusy
  <2> QED
    BY <2>1
<1>2. ASSUME NEW p \in Prompts, ReadToAppend(p) PROVE \E g \in Runners \cup Users \cup {NoCtx} : Shape(g)
  <2>1. Shape(p)
    BY <1>2 DEF ReadToAppend
  <2> QED
    BY <2>1
<1>3. ASSUME NEW p \in Prompts, Enqueue(p) PROVE \E g \in Runners \cup Users \cup {NoCtx} : Shape(g)
  <2>1. Shape(p)
    BY <1>3 DEF Enqueue, WriteQueue
  <2> QED
    BY <2>1
<1>4. ASSUME NEW p \in Prompts, Load(p) PROVE \E g \in Runners \cup Users \cup {NoCtx} : Shape(g)
  <2>1. Shape(p)
    BY <1>4 DEF Load
  <2> QED
    BY <2>1
<1>5. ASSUME NEW p \in Prompts, LoadFails(p) PROVE \E g \in Runners \cup Users \cup {NoCtx} : Shape(g)
  <2>1. Shape(p)
    BY <1>5 DEF LoadFails
  <2> QED
    BY <2>1
<1>6. ASSUME NEW p \in Prompts, Register(p) PROVE \E g \in Runners \cup Users \cup {NoCtx} : Shape(g)
  <2>1. stack'[p] = <<nextCtx>> \o stack[p]
    BY <1>6 DEF Register, PushFrame
  <2>2. stack'[p] # <<>> /\ Head(stack'[p]) = nextCtx
    BY <2>1, PushedFrame
  <2>3. nextCtx \in Items(stack'[p])
    BY <2>1, PushedFrame, Zenon
  <2>4. Shape(p)
    BY <1>6, <2>2, <2>3 DEF Register, PushFrame
  <2> QED
    BY <2>4
<1>7. ASSUME NEW p \in Prompts, ReadToDrain(p) PROVE \E g \in Runners \cup Users \cup {NoCtx} : Shape(g)
  <2>1. Shape(p)
    BY <1>7 DEF ReadToDrain
  <2> QED
    BY <2>1
<1>8. ASSUME NEW p \in Prompts, Drain(p) PROVE \E g \in Runners \cup Users \cup {NoCtx} : Shape(g)
  <2>1. Shape(p)
    BY <1>8 DEF Drain
  <2> QED
    BY <2>1
<1>9. ASSUME NEW p \in Prompts, PersistDrained(p) PROVE \E g \in Runners \cup Users \cup {NoCtx} : Shape(g)
  <2>1. Shape(p)
    BY <1>9 DEF PersistDrained
  <2> QED
    BY <2>1
<1>10. ASSUME NEW p \in Prompts, PersistFails(p) PROVE \E g \in Runners \cup Users \cup {NoCtx} : Shape(g)
  <2>1. Shape(p)
    BY <1>10 DEF PersistFails
  <2> QED
    BY <2>1
<1>11. ASSUME NEW p \in Prompts, StepEnds(p) PROVE \E g \in Runners \cup Users \cup {NoCtx} : Shape(g)
  <2>1. Shape(p)
    BY <1>11 DEF StepEnds
  <2> QED
    BY <2>1
<1>12. ASSUME NEW p \in Prompts, StreamEnds(p) PROVE \E g \in Runners \cup Users \cup {NoCtx} : Shape(g)
  <2>1. Shape(p)
    BY <1>12 DEF StreamEnds
  <2> QED
    BY <2>1
<1>13. ASSUME NEW p \in Prompts, StreamOverflows(p) PROVE \E g \in Runners \cup Users \cup {NoCtx} : Shape(g)
  <2>1. Shape(p)
    BY <1>13 DEF StreamOverflows
  <2> QED
    BY <2>1
<1>14. ASSUME NEW p \in Prompts, StreamFails(p) PROVE \E g \in Runners \cup Users \cup {NoCtx} : Shape(g)
  <2>1. Shape(p)
    BY <1>14 DEF StreamFails
  <2> QED
    BY <2>1
<1>15. ASSUME NEW p \in Prompts, Recover(p) PROVE \E g \in Runners \cup Users \cup {NoCtx} : Shape(g)
  <2>1. Shape(p)
    BY <1>15 DEF Recover
  <2> QED
    BY <2>1
<1>16. ASSUME NEW p \in Prompts, RecoveryFails(p) PROVE \E g \in Runners \cup Users \cup {NoCtx} : Shape(g)
  <2>1. Shape(p)
    BY <1>16 DEF RecoveryFails
  <2> QED
    BY <2>1
<1>17. ASSUME NEW p \in Prompts, FailTurn(p) PROVE \E g \in Runners \cup Users \cup {NoCtx} : Shape(g)
  <2>1. Shape(p)
    BY <1>17 DEF FailTurn
  <2> QED
    BY <2>1
<1>18. ASSUME NEW p \in Prompts, ReleaseToSummarize(p) PROVE \E g \in Runners \cup Users \cup {NoCtx} : Shape(g)
  <2>1. Shape(p)
    BY <1>18 DEF ReleaseToSummarize, Top, FrameInv, Framed
  <2> QED
    BY <2>1
<1>19. ASSUME NEW p \in Prompts, ReleaseToCompact(p) PROVE \E g \in Runners \cup Users \cup {NoCtx} : Shape(g)
  <2>1. Shape(p)
    BY <1>19 DEF ReleaseToCompact, Top, FrameInv, Framed
  <2> QED
    BY <2>1
<1>20. ASSUME NEW p \in Prompts, Requeue(p) PROVE \E g \in Runners \cup Users \cup {NoCtx} : Shape(g)
  <2>1. Shape(p)
    BY <1>20 DEF Requeue, WriteQueue
  <2> QED
    BY <2>1
<1>21. ASSUME NEW p \in Prompts, Release(p) PROVE \E g \in Runners \cup Users \cup {NoCtx} : Shape(g)
  <2>1. Shape(p)
    BY <1>21 DEF Release, Top, FrameInv, Framed
  <2> QED
    BY <2>1
<1>22. ASSUME NEW p \in Prompts, ReadNext(p) PROVE \E g \in Runners \cup Users \cup {NoCtx} : Shape(g)
  <2>1. Shape(p)
    BY <1>22 DEF ReadNext
  <2> QED
    BY <2>1
<1>23. ASSUME NEW p \in Prompts, TakeNext(p) PROVE \E g \in Runners \cup Users \cup {NoCtx} : Shape(g)
  <2>1. Shape(p)
    BY <1>23 DEF TakeNext, WriteQueue
  <2> QED
    BY <2>1
<1>24. ASSUME NEW r \in Runners, SummarizeCheckBusy(r) PROVE \E g \in Runners \cup Users \cup {NoCtx} : Shape(g)
  <2>1. Shape(r)
    BY <1>24 DEF SummarizeCheckBusy, Summarized
  <2> QED
    BY <2>1
<1>25. ASSUME NEW r \in Runners, SummarizeLoad(r) PROVE \E g \in Runners \cup Users \cup {NoCtx} : Shape(g)
  <2>1. Shape(r)
    BY <1>25 DEF SummarizeLoad, Summarized
  <2> QED
    BY <2>1
<1>26. ASSUME NEW r \in Runners, SummarizeRegister(r) PROVE \E g \in Runners \cup Users \cup {NoCtx} : Shape(g)
  <2>1. stack'[r] = <<nextCtx>> \o stack[r]
    BY <1>26 DEF SummarizeRegister, PushFrame
  <2>2. stack'[r] # <<>> /\ Head(stack'[r]) = nextCtx
    BY <2>1, PushedFrame
  <2>3. nextCtx \in Items(stack'[r])
    BY <2>1, PushedFrame, Zenon
  <2>4. Shape(r)
    BY <1>26, <2>2, <2>3 DEF SummarizeRegister, PushFrame
  <2> QED
    BY <2>4
<1>27. ASSUME NEW r \in Runners, SummarizeEnds(r) PROVE \E g \in Runners \cup Users \cup {NoCtx} : Shape(g)
  <2>1. Shape(r)
    BY <1>27 DEF SummarizeEnds, PopFrame, Summarized, Top, FrameInv, Framed
  <2> QED
    BY <2>1
<1>28. ASSUME NEW r \in Runners, Unwind(r) PROVE \E g \in Runners \cup Users \cup {NoCtx} : Shape(g)
  <2>1. Shape(r)
    BY <1>28 DEF Unwind, PopFrame, Summarized, Top, FrameInv, Framed
  <2> QED
    BY <2>1
<1>29. ASSUME NEW r \in Runners, Return(r) PROVE \E g \in Runners \cup Users \cup {NoCtx} : Shape(g)
  <2>1. Shape(r)
    BY <1>29 DEF Return, Summarized
  <2> QED
    BY <2>1
<1>30. ASSUME NEW k \in Cancellers, CancelLookup(k) PROVE \E g \in Runners \cup Users \cup {NoCtx} : Shape(g)
  <2>1. Shape(k)
    BY <1>30 DEF CancelLookup
  <2> QED
    BY <2>1
<1>31. ASSUME NEW k \in Cancellers, CancelCall(k) PROVE \E g \in Runners \cup Users \cup {NoCtx} : Shape(g)
  <2>1. Shape(k)
    BY <1>31 DEF CancelCall
  <2> QED
    BY <2>1
<1>32. ASSUME NEW u \in Users, CountQueued(u) PROVE \E g \in Runners \cup Users \cup {NoCtx} : Shape(g)
  <2>1. Shape(u)
    BY <1>32 DEF CountQueued
  <2> QED
    BY <2>1
<1>33. ASSUME NEW u \in Users, ClearQueued(u) PROVE \E g \in Runners \cup Users \cup {NoCtx} : Shape(g)
  <2>1. Shape(u)
    BY <1>33 DEF ClearQueued
  <2> QED
    BY <2>1
<1>34. CASE UNCHANGED vars
  <2>1. Shape(NoCtx)
    BY <1>34 DEF vars
  <2> QED
    BY <2>1
<1>35. QED
  BY <1>1, <1>2, <1>3, <1>4, <1>5, <1>6, <1>7, <1>8, <1>9, <1>10, <1>11, <1>12, <1>13, <1>14, <1>15, <1>16, <1>17, <1>18, <1>19, <1>20, <1>21, <1>22, <1>23, <1>24, <1>25, <1>26, <1>27, <1>28, <1>29, <1>30, <1>31, <1>32, <1>33, <1>34
  DEF Next, RunStep, StreamStep, SummarizeStep, Ending, CancelStep, UserStep, Waiting

\* A new session agent: no entry, no frame.
LEMMA InitIInv == Init => IInv
<1> SUFFICES ASSUME Init PROVE IInv
  OBVIOUS
<1> USE ActorsAssumption, BoundsAssumption DEF Init, Runners, Users, NoCtx
<1>1. TypeOK
  <2>1. \A g \in Runners \cup Users : pc[g] \in {"check", "sumCheck", "lookup", "count"}
    OBVIOUS
  <2>2. pc \in [Runners \cup Users -> Labels]
    BY <2>1 DEF Labels, RunLabels, UserLabels
  <2>3. \A S : <<>> \in Seq(S)
    BY EmptySeq
  <2>4. /\ stack \in [Runners -> Seq(Nat \ {0})]
        /\ local \in [Prompts -> Seq(Prompts)]
        /\ queue \in Seq(Prompts)
    BY <2>3
  <2>5. retries \in 0..MaxRecoveries /\ overflow \in 0..MaxOverflow
    OBVIOUS
  <2>6. /\ cur \in [Prompts -> Prompts] /\ more \in [Prompts -> BOOLEAN]
        /\ target \in [Cancellers -> Nat]
    OBVIOUS
  <2>7. /\ active \in Nat /\ nextCtx \in Nat \ {0} /\ cancelled \in SUBSET Nat
        /\ persisted \in SUBSET Prompts /\ dropped \in SUBSET Prompts
        /\ recovered \in SUBSET Prompts
    OBVIOUS
  <2>8. overlapped \in BOOLEAN /\ clobbered \in BOOLEAN
    OBVIOUS
  <2> HIDE DEF Init
  <2> QED
    BY <2>2, <2>4, <2>5, <2>6, <2>7, <2>8 DEF TypeOK
<1>2. \A r \in Runners : pc[r] \in {"check", "sumCheck"} /\ stack[r] = <<>>
  OBVIOUS
<1>3. \A p \in Prompts : pc[p] = "check"
  OBVIOUS
<1>4. FrameInv
  BY <1>2, <1>3 DEF FrameInv, Framed, Working
<1>5. BusyEntryLive
  BY DEF BusyEntryLive
<1>6. SoleInv
  BY <1>2 DEF SoleInv, Working
<1> QED
  BY <1>1, <1>4, <1>5, <1>6 DEF IInv

\* Every step preserves the invariant.
LEMMA StepIInv == IInv /\ [Next]_vars => IInv'
<1> SUFFICES ASSUME IInv, [Next]_vars PROVE IInv'
  OBVIOUS
<1>1. TypeOK' /\ FrameInv'
  BY TypeFrameStep DEF IInv
<1>2. PICK g \in Runners \cup Users \cup {NoCtx} : Shape(g)
  BY StepShape DEF IInv
<1>3. BusyEntryLive'
  BY <1>2 DEF IInv, Shape, BusyEntryLive, NoCtx
<1>4. SoleInv'
  <2> SUFFICES ASSUME ~overlapped' PROVE SoleInv'
    BY DEF SoleInv
  <2>1. ~overlapped
    BY <1>2 DEF Shape
  <2>2. CASE UNCHANGED <<active, stack, overlapped>>
             /\ (g \in Runners /\ pc'[g] \in Working => pc[g] \in Working)
    BY <1>2, <2>1, <2>2 DEF IInv, SoleInv, Shape, Top
  <2>3. CASE /\ g \in Runners /\ stack[g] # <<>>
             /\ active' = NoCtx /\ overlapped' = overlapped
             /\ pc'[g] \notin Working
    BY <1>2, <2>1, <2>3 DEF IInv, SoleInv, Shape, FrameInv, Framed
  <2>4. CASE /\ g \in Runners /\ stack'[g] # <<>>
             /\ active' = Head(stack'[g])
             /\ overlapped' = (overlapped \/ \E q \in Runners \ {g} : stack[q] # <<>>)
    <3>1. \A q \in Runners \ {g} : stack'[q] = <<>> /\ pc'[q] \notin Working
      BY <1>2, <2>4 DEF IInv, Shape, FrameInv, Framed
    <3> QED
      BY <2>4, <3>1 DEF SoleInv, Top
  <2> QED
    BY <1>2, <2>2, <2>3, <2>4 DEF Shape
<1> QED
  BY <1>1, <1>3, <1>4 DEF IInv

-----------------------------------------------------------------------------
(* Prompts are conserved. *)

\* c is accounted for.
Safe(c) == c \in persisted \cup dropped \cup Items(queue) \/ InHands(c)

\* A stale write to the queue is never forgotten.
LEMMA ClobberedStays == TypeOK /\ [Next]_vars /\ clobbered => clobbered'
<1> SUFFICES ASSUME TypeOK, [Next]_vars, clobbered PROVE clobbered'
  OBVIOUS
<1> USE DEF WriteQueue, PushFrame, PopFrame, history
<1>1. ASSUME NEW p \in Prompts, RunStep(p) PROVE clobbered'
  BY <1>1
  DEF RunStep, StreamStep, CheckBusy, ReadToAppend, Enqueue, Load, LoadFails, Register, ReadToDrain, Drain, PersistDrained, PersistFails,
      StepEnds, StreamEnds, StreamOverflows, StreamFails, Recover, RecoveryFails, FailTurn, ReleaseToSummarize,
      ReleaseToCompact, Requeue, Release, ReadNext, TakeNext
<1>2. ASSUME NEW r \in Runners, SummarizeStep(r) \/ Ending(r) PROVE clobbered'
  BY <1>2 DEF SummarizeStep, Ending, SummarizeCheckBusy, SummarizeLoad, SummarizeRegister,
              SummarizeEnds, Unwind, Return
<1>3. ASSUME NEW k \in Cancellers, CancelStep(k) PROVE clobbered'
  BY <1>3 DEF CancelStep, CancelLookup, CancelCall
<1>4. ASSUME NEW u \in Users, UserStep(u) PROVE clobbered'
  BY <1>4 DEF UserStep, CountQueued, ClearQueued
<1>5. CASE UNCHANGED vars
  BY <1>5 DEF vars
<1> QED
  BY <1>1, <1>2, <1>3, <1>4, <1>5 DEF Next, Waiting

\* A step without a stale write behind it loses no prompt.
LEMMA SafeStep ==
    ASSUME TypeOK, FrameInv, [Next]_vars, NEW c \in Prompts, Safe(c), ~clobbered'
    PROVE  Safe(c)'
<1> USE ActorsAssumption DEF Runners, Users, Goto, ctxVars, store, history, TypeOK, Safe, InHands
<1>1. ASSUME NEW p \in Prompts, CheckBusy(p) PROVE Safe(c)'
  BY <1>1 DEF CheckBusy
<1>2. ASSUME NEW p \in Prompts, ReadToAppend(p) PROVE Safe(c)'
  BY <1>2 DEF ReadToAppend
<1>3. ASSUME NEW p \in Prompts, Enqueue(p) PROVE Safe(c)'
  <2>1. queue' = Append(queue, cur[p]) /\ queue \in Seq(Prompts) /\ cur[p] \in Prompts
    BY <1>3 DEF Enqueue, WriteQueue
  <2>2. Items(queue') = Items(queue) \cup {cur[p]}
    BY <2>1, ItemsAppend
  <2> QED
    BY <1>3, <2>2 DEF Enqueue, WriteQueue
<1>4. ASSUME NEW p \in Prompts, Load(p) PROVE Safe(c)'
  BY <1>4 DEF Load
<1>5. ASSUME NEW p \in Prompts, LoadFails(p) PROVE Safe(c)'
  BY <1>5 DEF LoadFails
<1>6. ASSUME NEW p \in Prompts, Register(p) PROVE Safe(c)'
  BY <1>6 DEF Register
<1>7. ASSUME NEW p \in Prompts, ReadToDrain(p) PROVE Safe(c)'
  BY <1>7 DEF ReadToDrain
<1>8. ASSUME NEW p \in Prompts, Drain(p) PROVE Safe(c)'
  BY <1>8 DEF Drain
<1>9. ASSUME NEW p \in Prompts, PersistDrained(p) PROVE Safe(c)'
  BY <1>9 DEF PersistDrained
<1>10. ASSUME NEW p \in Prompts, PersistFails(p) PROVE Safe(c)'
  BY <1>10 DEF PersistFails, Items
<1>11. ASSUME NEW p \in Prompts, StepEnds(p) PROVE Safe(c)'
  BY <1>11 DEF StepEnds
<1>12. ASSUME NEW p \in Prompts, StreamEnds(p) PROVE Safe(c)'
  BY <1>12 DEF StreamEnds
<1>13. ASSUME NEW p \in Prompts, StreamOverflows(p) PROVE Safe(c)'
  BY <1>13 DEF StreamOverflows
<1>14. ASSUME NEW p \in Prompts, StreamFails(p) PROVE Safe(c)'
  BY <1>14 DEF StreamFails
<1>15. ASSUME NEW p \in Prompts, Recover(p) PROVE Safe(c)'
  BY <1>15 DEF Recover
<1>16. ASSUME NEW p \in Prompts, RecoveryFails(p) PROVE Safe(c)'
  BY <1>16 DEF RecoveryFails
<1>17. ASSUME NEW p \in Prompts, FailTurn(p) PROVE Safe(c)'
  BY <1>17 DEF FailTurn
<1>18. ASSUME NEW p \in Prompts, ReleaseToSummarize(p) PROVE Safe(c)'
  BY <1>18 DEF ReleaseToSummarize
<1>19. ASSUME NEW p \in Prompts, ReleaseToCompact(p) PROVE Safe(c)'
  BY <1>19 DEF ReleaseToCompact
<1>20. ASSUME NEW p \in Prompts, Requeue(p) PROVE Safe(c)'
  <2>1. queue' = Append(queue, cur[p]) /\ queue \in Seq(Prompts) /\ cur[p] \in Prompts
    BY <1>20 DEF Requeue, WriteQueue
  <2>2. Items(queue') = Items(queue) \cup {cur[p]}
    BY <2>1, ItemsAppend
  <2> QED
    BY <1>20, <2>2 DEF Requeue, WriteQueue
<1>21. ASSUME NEW p \in Prompts, Release(p) PROVE Safe(c)'
  BY <1>21 DEF Release
<1>22. ASSUME NEW p \in Prompts, ReadNext(p) PROVE Safe(c)'
  BY <1>22 DEF ReadNext
<1>23. ASSUME NEW p \in Prompts, TakeNext(p) PROVE Safe(c)'
  <2>1. queue' = Tail(queue) /\ cur'[p] = Head(queue) /\ queue \in Seq(Prompts) /\ queue # <<>>
    BY <1>23 DEF TakeNext, WriteQueue, FrameInv
  <2>2. Items(queue) = {cur'[p]} \cup Items(queue')
    BY <2>1, ItemsTail
  <2> QED
    BY <1>23, <2>2 DEF TakeNext, WriteQueue
<1>24. ASSUME NEW r \in Runners, SummarizeCheckBusy(r) PROVE Safe(c)'
  BY <1>24 DEF SummarizeCheckBusy, Summarized
<1>25. ASSUME NEW r \in Runners, SummarizeLoad(r) PROVE Safe(c)'
  BY <1>25 DEF SummarizeLoad, Summarized
<1>26. ASSUME NEW r \in Runners, SummarizeRegister(r) PROVE Safe(c)'
  BY <1>26 DEF SummarizeRegister, Summarized
<1>27. ASSUME NEW r \in Runners, SummarizeEnds(r) PROVE Safe(c)'
  BY <1>27 DEF SummarizeEnds, Summarized
<1>28. ASSUME NEW r \in Runners, Unwind(r) PROVE Safe(c)'
  BY <1>28 DEF Unwind
<1>29. ASSUME NEW r \in Runners, Return(r) PROVE Safe(c)'
  BY <1>29 DEF Return
<1>30. ASSUME NEW k \in Cancellers, CancelLookup(k) PROVE Safe(c)'
  BY <1>30 DEF CancelLookup
<1>31. ASSUME NEW k \in Cancellers, CancelCall(k) PROVE Safe(c)'
  BY <1>31 DEF CancelCall
<1>32. ASSUME NEW u \in Users, CountQueued(u) PROVE Safe(c)'
  BY <1>32 DEF CountQueued
<1>33. ASSUME NEW u \in Users, ClearQueued(u) PROVE Safe(c)'
  BY <1>33 DEF ClearQueued
<1>34. CASE UNCHANGED vars
  BY <1>34 DEF vars
<1>35. QED
  BY <1>1, <1>2, <1>3, <1>4, <1>5, <1>6, <1>7, <1>8, <1>9, <1>10, <1>11, <1>12, <1>13, <1>14, <1>15, <1>16, <1>17, <1>18, <1>19, <1>20, <1>21, <1>22, <1>23, <1>24, <1>25, <1>26, <1>27, <1>28, <1>29, <1>30, <1>31, <1>32, <1>33, <1>34
  DEF Next, RunStep, StreamStep, SummarizeStep, Ending, CancelStep, UserStep, Waiting

-----------------------------------------------------------------------------
(* No prompt is in two places. *)

\* p's call is about to run, runs, or may be put back into the queue.
Carries(p) ==
    pc[p] \in Working \cup {"check", "enqueue", "enqueueSet", "load", "register", "sumRelease",
                           "sumCheck", "sumLoad", "sumRegister", "compact", "requeue", "requeueSet"}

NoRepeat(s) == \A i, j \in DOMAIN s : i # j => s[i] # s[j]

\* The queue has no call twice, and none that a goroutine carries; no two
\* goroutines carry the same call.
OneInv ==
    /\ NoRepeat(queue)
    /\ \A p \in Prompts : Carries(p) =>
          /\ cur[p] \notin Items(queue)
          /\ \A q \in Prompts : Carries(q) /\ q # p => cur[q] # cur[p]

\* A queue that gets another call, or gives up its first one.
LEMMA NoRepeatAppend ==
    ASSUME NEW s \in Seq(Prompts), NEW c \in Prompts, NoRepeat(s), c \notin Items(s)
    PROVE  NoRepeat(Append(s, c))
<1> DEFINE t == Append(s, c)
<1>1. /\ DOMAIN t = 1..(Len(s) + 1) /\ DOMAIN s = 1..Len(s) /\ Len(s) \in Nat
      /\ t[Len(s) + 1] = c /\ \A i \in 1..Len(s) : t[i] = s[i]
  OBVIOUS
<1> HIDE DEF t
<1>2. \A k \in DOMAIN t : k \in DOMAIN s \/ k = Len(s) + 1
  BY <1>1
<1>3. \A k \in DOMAIN s : t[k] = s[k] /\ s[k] # c
  BY <1>1 DEF Items
<1> QED
  BY <1>1, <1>2, <1>3 DEF NoRepeat, t

LEMMA NoRepeatTail ==
    ASSUME NEW s \in Seq(Prompts), s # <<>>, NoRepeat(s)
    PROVE  NoRepeat(Tail(s)) /\ Head(s) \notin Items(Tail(s))
<1> DEFINE t == Tail(s)
<1>1. /\ DOMAIN t = 1..(Len(s) - 1) /\ DOMAIN s = 1..Len(s) /\ Len(s) \in Nat \ {0}
      /\ Head(s) = s[1] /\ \A i \in DOMAIN t : t[i] = s[i + 1]
  OBVIOUS
<1> HIDE DEF t
<1>2. \A k \in DOMAIN t : k \in Int /\ k + 1 \in DOMAIN s /\ k + 1 # 1
  BY <1>1
<1>3. 1 \in DOMAIN s /\ \A j, k \in DOMAIN t : j # k => j + 1 # k + 1
  BY <1>1, <1>2
<1> QED
  BY <1>1, <1>2, <1>3 DEF NoRepeat, Items, t

\* A step that gives no goroutine a call and puts none into the queue.
LEMMA NothingMoves ==
    ASSUME OneInv, cur' = cur, queue' = queue \/ queue' = <<>>,
           \A p \in Prompts : Carries(p)' => Carries(p)
    PROVE  OneInv'
<1>1. NoRepeat(queue')
  BY DEF OneInv, NoRepeat
<1>2. Items(queue') \subseteq Items(queue)
  BY DEF Items
<1> QED
  BY <1>1, <1>2 DEF OneInv

\* A goroutine that puts its call into the queue carries it no more.
LEMMA CallIsQueued ==
    ASSUME TypeOK, OneInv, NEW p \in Prompts, Carries(p), ~Carries(p)', cur' = cur,
           queue' = Append(queue, cur[p]),
           \A q \in Prompts \ {p} : Carries(q)' => Carries(q)
    PROVE  OneInv'
<1>1. queue \in Seq(Prompts) /\ cur[p] \in Prompts
  BY DEF TypeOK
<1>2. NoRepeat(queue') /\ Items(queue') = Items(queue) \cup {cur[p]}
  BY <1>1, NoRepeatAppend, ItemsAppend DEF OneInv
<1>3. \A q \in Prompts : Carries(q)' => Carries(q) /\ q # p
  OBVIOUS
<1> QED
  BY <1>2, <1>3 DEF OneInv

\* One that takes the first call of the queue is the only one to have it.
LEMMA CallIsTaken ==
    ASSUME TypeOK, OneInv, NEW p \in Prompts, ~Carries(p), queue # <<>>, queue' = Tail(queue),
           cur' = [cur EXCEPT ![p] = Head(queue)],
           \A q \in Prompts \ {p} : Carries(q)' => Carries(q)
    PROVE  OneInv'
<1>1. queue \in Seq(Prompts) /\ cur \in [Prompts -> Prompts]
  BY DEF TypeOK
<1>2. NoRepeat(queue') /\ Head(queue) \notin Items(queue')
  BY <1>1, NoRepeatTail DEF OneInv
<1>3. Items(queue) = {Head(queue)} \cup Items(queue')
  BY <1>1, ItemsTail
<1>4. cur'[p] = Head(queue) /\ \A q \in Prompts \ {p} : cur'[q] = cur[q]
  BY <1>1
<1> QED
  BY <1>2, <1>3, <1>4 DEF OneInv

\* A step without a stale write behind it puts no prompt in two places.
LEMMA OneStep ==
    ASSUME TypeOK, FrameInv, [Next]_vars, OneInv, ~clobbered'
    PROVE  OneInv'
<1> USE ActorsAssumption DEF Runners, Users, Goto, ctxVars, store, history, TypeOK
<1> DEFINE Still == /\ cur' = cur /\ (queue' = queue \/ queue' = <<>>)
                    /\ \A p \in Prompts : Carries(p)' => Carries(p)
<1>1. ASSUME NEW p \in Prompts,
             CheckBusy(p) \/ ReadToAppend(p) \/ Load(p) \/ LoadFails(p) \/ Register(p)
      PROVE  Still
  BY <1>1 DEF CheckBusy, ReadToAppend, Load, LoadFails, Register, Carries, Working
<1>2. ASSUME NEW p \in Prompts,
             \/ ReadToDrain(p) \/ Drain(p) \/ PersistDrained(p) \/ PersistFails(p) \/ StepEnds(p)
             \/ StreamEnds(p) \/ StreamOverflows(p) \/ StreamFails(p)
      PROVE  Still
  BY <1>2 DEF ReadToDrain, Drain, PersistDrained, PersistFails, StepEnds, StreamEnds,
              StreamOverflows, StreamFails, Carries, Working
<1>3. ASSUME NEW p \in Prompts,
             \/ Recover(p) \/ RecoveryFails(p) \/ FailTurn(p)
             \/ ReleaseToSummarize(p) \/ ReleaseToCompact(p) \/ Release(p) \/ ReadNext(p)
      PROVE  Still
  BY <1>3 DEF Recover, RecoveryFails, FailTurn, ReleaseToSummarize, ReleaseToCompact, Release,
              ReadNext, Carries, Working
<1>4. ASSUME NEW p \in Prompts, Enqueue(p) \/ Requeue(p) PROVE OneInv'
  <2>1. /\ pc[p] \in {"enqueueSet", "requeueSet"} /\ pc' = [pc EXCEPT ![p] = pc'[p]]
        /\ pc'[p] \in {"return", "release"}
        /\ cur' = cur /\ queue' = Append(queue, cur[p])
    BY <1>4 DEF Enqueue, Requeue, WriteQueue
  <2>2. Carries(p) /\ ~Carries(p)' /\ \A q \in Prompts \ {p} : Carries(q)' => Carries(q)
    BY <2>1 DEF Carries, Working
  <2> QED
    BY <2>1, <2>2, CallIsQueued
<1>5. ASSUME NEW p \in Prompts, TakeNext(p) PROVE OneInv'
  <2>1. /\ pc[p] = "nextSet" /\ pc' = [pc EXCEPT ![p] = "check"]
        /\ queue # <<>> /\ queue' = Tail(queue) /\ cur' = [cur EXCEPT ![p] = Head(queue)]
    BY <1>5 DEF TakeNext, WriteQueue, FrameInv
  <2>2. ~Carries(p) /\ \A q \in Prompts \ {p} : Carries(q)' => Carries(q)
    BY <2>1 DEF Carries, Working
  <2> QED
    BY <2>1, <2>2, CallIsTaken
<1>6. ASSUME NEW r \in Runners, SummarizeStep(r) \/ Ending(r) PROVE Still
  BY <1>6 DEF SummarizeStep, SummarizeCheckBusy, SummarizeLoad, SummarizeRegister, SummarizeEnds,
              Summarized, Ending, Unwind, Return, Carries, Working
<1>7. ASSUME NEW k \in Users, (CancelStep(k) /\ k \in Cancellers) \/ UserStep(k) PROVE Still
  BY <1>7 DEF CancelStep, CancelLookup, CancelCall, UserStep, CountQueued, ClearQueued, Carries,
              Working
<1>8. CASE UNCHANGED vars
  <2>1. Still
    BY <1>8 DEF vars, Carries
  <2> QED
    BY <2>1, NothingMoves
<1>9. ASSUME Still PROVE OneInv'
  BY <1>9, NothingMoves
<1> HIDE DEF Still
<1> QED
  BY <1>1, <1>2, <1>3, <1>4, <1>5, <1>6, <1>7, <1>8, <1>9
  DEF Next, RunStep, StreamStep, Waiting

-----------------------------------------------------------------------------
(* The theorems. *)

\* All variables keep their types: in particular the recovery counter never
\* passes its maximum.
THEOREM TypeCorrect == Spec => []TypeOK
<1>1. IInv => TypeOK
  BY DEF IInv
<1> QED
  BY <1>1, InitIInv, StepIInv, PTL DEF Spec

\* A busy entry always belongs to a frame whose deferred Del is still to come.
THEOREM BusyEntryIsLive == Spec => []BusyEntryLive
<1>1. IInv => BusyEntryLive
  BY DEF IInv
<1> QED
  BY <1>1, InitIInv, StepIInv, PTL DEF Spec

\* Without overlapping frames the entry is that of the goroutine that works.
THEOREM SoleRunIsReachable == Spec => []SoleRunReachable
<1>1. IInv => SoleRunReachable
  BY DEF IInv, SoleInv, SoleRunReachable
<1> QED
  BY <1>1, InitIInv, StepIInv, PTL DEF Spec

\* Every prompt is accounted for, as long as no queue write was based on a stale read.
THEOREM PromptsAreConserved == Spec => []PromptsConserved
<1>1. Init => PromptsConserved
  <2> SUFFICES ASSUME Init, NEW c \in Prompts PROVE InHands(c)
    BY DEF PromptsConserved
  <2>1. pc[c] = "check" /\ cur[c] = c
    BY ActorsAssumption DEF Init, Runners, Users
  <2> QED
    BY <2>1 DEF InHands
<1>2. IInv /\ PromptsConserved /\ [Next]_vars => PromptsConserved'
  <2> SUFFICES ASSUME IInv, PromptsConserved, [Next]_vars, ~clobbered',
                      NEW c \in Prompts
               PROVE  Safe(c)'
    BY DEF PromptsConserved, Safe
  <2>1. ~clobbered
    BY ClobberedStays DEF IInv
  <2>2. Safe(c)
    BY <2>1 DEF PromptsConserved, Safe
  <2> QED
    BY <2>2, SafeStep DEF IInv
<1> QED
  BY <1>1, <1>2, InitIInv, StepIInv, PTL DEF Spec

\* No prompt waits twice, runs twice or does both, as long as no queue write was
\* based on a stale read.
THEOREM NoPromptIsTwice == Spec => []NoPromptTwice
<1> DEFINE J == ~clobbered => OneInv
<1>1. Init => J
  <2> SUFFICES ASSUME Init PROVE OneInv
    OBVIOUS
  <2>1. queue = <<>> /\ \A p \in Prompts : cur[p] = p
    BY DEF Init
  <2> QED
    BY <2>1 DEF OneInv, NoRepeat, Items
<1>2. IInv /\ J /\ [Next]_vars => J'
  <2> SUFFICES ASSUME IInv, J, [Next]_vars, ~clobbered' PROVE OneInv'
    OBVIOUS
  <2>1. ~clobbered
    BY ClobberedStays DEF IInv
  <2> QED
    BY <2>1, OneStep DEF IInv
<1>3. J => NoPromptTwice
  <2> SUFFICES ASSUME OneInv, NEW c \in Prompts PROVE Cardinality(Places(c)) <= 1
    BY DEF NoPromptTwice
  <2>1. \A x, y \in Places(c) : x = y
    <3>1. \A i, j \in DOMAIN queue : queue[i] = c /\ queue[j] = c => i = j
      BY DEF OneInv, NoRepeat
    <3>2. ASSUME NEW p \in Prompts, NEW q \in Prompts, cur[p] = c, cur[q] = c, Carries(p), Carries(q)
          PROVE  p = q
      BY <3>2 DEF OneInv
    <3>3. ASSUME NEW p \in Prompts, cur[p] = c, Carries(p), NEW i \in DOMAIN queue, queue[i] = c
          PROVE  FALSE
      BY <3>3 DEF OneInv, Items
    <3>4. ASSUME NEW x \in Places(c)
          PROVE  \/ \E i \in DOMAIN queue : queue[i] = c /\ x = <<"queue", i>>
                 \/ \E p \in Prompts : cur[p] = c /\ Carries(p) /\ x = <<"run", p>>
      <4>1. CASE x \in {<<"queue", i>> : i \in {j \in DOMAIN queue : queue[j] = c}}
        BY <4>1
      <4>2. CASE \E p \in Prompts : /\ cur[p] = c /\ x = <<"run", p>>
                                   /\ pc[p] \in Working \cup {"check", "enqueue", "enqueueSet", "load", "register"}
        BY <4>2 DEF Carries
      <4> QED
        BY <4>1, <4>2 DEF Places
    <3> QED
      BY <3>1, <3>2, <3>3, <3>4
  <2> DEFINE P == Places(c)
  <2> HIDE DEF P
  <2>2. CASE P = {}
    BY <2>2, FS_EmptySet DEF P
  <2>3. ASSUME NEW x \in P PROVE Cardinality(P) <= 1
    <3>1. P = {x}
      BY <2>1 DEF P
    <3>2. Cardinality({x}) = 1
      BY FS_Singleton
    <3> QED
      BY <3>1, <3>2
  <2> QED
    BY <2>2, <2>3 DEF P
<1> QED
  BY <1>1, <1>2, <1>3, InitIInv, StepIInv, PTL DEF Spec

-----------------------------------------------------------------------------
(* The transcript of a turn. *)

\* A tool call of an earlier step is closed: nothing touches it any more.
EarlierInv ==
    \A c \in Calls \ mine :
        /\ mem[c] \in {"none", "finished"}
        /\ db[c] = mem[c]
        /\ results[c] = IF mem[c] = "finished" THEN 1 ELSE 0

\* A tool call of this step has at most one result, and none before its input.
MineInv ==
    \A c \in mine :
        /\ mem[c] # "none"
        /\ results[c] \in {0, 1}
        /\ mem[c] = "open" => results[c] = 0

\* A tool that runs has not answered.
RunningInv ==
    /\ running # {} => at \in {"stream", "failing"}
    /\ \A c \in running :
          /\ c \in mine
          /\ mem[c] = "finished"
          /\ db[c] = "finished"
          /\ results[c] = 0

\* While the stream works, the database has what the memory has, and a complete
\* tool call without a result has its tool running.
StreamInv ==
    at \in {"prepare", "stream", "decide"} =>
        \A c \in mine :
            /\ db[c] = mem[c]
            /\ (mem[c] = "finished" /\ c \notin running) => results[c] = 1

\* Between two steps, the last one is closed.
BetweenInv == at \in {"prepare", "decide"} => \A c \in mine : mem[c] = "finished"

\* Only the last assistant message may lack a finish reason.
FinishInv ==
    /\ \A i \in 1..step : i < step => dbFinish[i] # "none"
    /\ (at \in {"prepare", "decide"} /\ step > 0) => dbFinish[step] # "none"
    /\ step = 0 => /\ at \in {"prepare", "failing", "error", "done"}
                   /\ mine = {}
                   /\ \A c \in Calls : mem[c] = "none"

\* The error path goes through the calls of this step: one it is done with is
\* closed, one it is not done with has a result just when it was listed.
CloseInv ==
    at = "close" =>
        /\ todo \subseteq mine
        /\ \A c \in mine \ todo : mem[c] = "finished" /\ results[c] = 1
        /\ \A c \in todo : results[c] = IF c \in listed THEN 1 ELSE 0

OutcomeInv == at # "done" => outcome = "none"

TurnInv ==
    /\ Turn!TypeOK
    /\ EarlierInv
    /\ MineInv
    /\ RunningInv
    /\ StreamInv
    /\ BetweenInv
    /\ FinishInv
    /\ CloseInv
    /\ OutcomeInv
    /\ Turn!TurnIsClosed
-----------------------------------------------------------------------------
(* The invariant holds initially, and every step preserves each part of it. *)

\* The invariant holds initially.
LEMMA TurnStarts == Turn!TurnAssumption /\ Turn!Init => TurnInv
<1> SUFFICES ASSUME Turn!TurnAssumption, Turn!Init PROVE TurnInv
  OBVIOUS
<1> USE DEF Turn!TurnAssumption, Turn!Init
<1>1. Turn!TypeOK
  <2>1. step \in 0..MaxSteps /\ faults \in 0..MaxFaults
    OBVIOUS
  <2>2. /\ at \in {"prepare", "stream", "failing", "decide", "error", "close", "done"}
        /\ mine \subseteq Calls /\ running \subseteq Calls
        /\ listed \subseteq Calls /\ todo \subseteq Calls
        /\ mem \in [Calls -> {"none", "open", "finished"}]
        /\ db \in [Calls -> {"none", "open", "finished"}]
    OBVIOUS
  <2>3. /\ memFinish \in Turn!Reasons \cup {"none"}
        /\ dbFinish \in [1..MaxSteps -> Turn!Reasons \cup {"none"}]
        /\ err \in {"none", "canceled", "denied", "other"}
        /\ outcome \in {"none", "completed", "recovered", "closed", "abandoned"}
    BY DEF Turn!Reasons
  <2>4. results \in [Calls -> Nat]
    OBVIOUS
  <2>5. genDone \in BOOLEAN /\ ctxDone \in BOOLEAN
    OBVIOUS
  <2> QED
    BY <2>1, <2>2, <2>3, <2>4, <2>5 DEF Turn!TypeOK
<1>2. EarlierInv /\ MineInv /\ RunningInv /\ StreamInv /\ BetweenInv
  BY DEF EarlierInv, MineInv, RunningInv, StreamInv, BetweenInv
<1>3. FinishInv /\ CloseInv /\ OutcomeInv /\ Turn!TurnIsClosed
  BY DEF FinishInv, CloseInv, OutcomeInv, Turn!TurnIsClosed
<1> QED
  BY <1>1, <1>2, <1>3 DEF TurnInv

\* What an update writes has the types of the database.
LEMMA TurnUpdateType ==
    ASSUME Turn!TypeOK, Turn!Update, mem' \in [Calls -> {"none", "open", "finished"}],
           memFinish' \in Turn!Reasons \cup {"none"}
    PROVE  /\ db' \in [Calls -> {"none", "open", "finished"}]
           /\ dbFinish' \in [1..MaxSteps -> Turn!Reasons \cup {"none"}]
BY DEF Turn!TypeOK, Turn!Update

\* The types, whatever else holds.
LEMMA TurnTypeKept == Turn!TurnAssumption /\ Turn!TypeOK /\ [Turn!Next]_(Turn!vars) => Turn!TypeOK'
<1> SUFFICES ASSUME Turn!TurnAssumption, Turn!TypeOK, [Turn!Next]_(Turn!vars) PROVE Turn!TypeOK'
  OBVIOUS
<1> USE DEF Turn!TurnAssumption, Turn!Works, Turn!Breaks, Turn!message, Turn!contexts, Turn!handler, Turn!GenError, Turn!TypeOK, Turn!Reasons
<1>1. ASSUME Turn!Prepare PROVE Turn!TypeOK'
  BY <1>1 DEF Turn!Prepare, Turn!FailWith
<1>2. ASSUME NEW c \in Calls, Turn!ToolInputStart(c) PROVE Turn!TypeOK'
  BY <1>2, TurnUpdateType DEF Turn!ToolInputStart, Turn!WriteCall, Turn!FailWith
<1>3. ASSUME NEW c \in Calls, Turn!ToolCall(c) PROVE Turn!TypeOK'
  BY <1>3, TurnUpdateType DEF Turn!ToolCall, Turn!WriteCall, Turn!FailWith
<1>4. ASSUME NEW c \in Calls, Turn!ToolResult(c) PROVE Turn!TypeOK'
  BY <1>4 DEF Turn!ToolResult, Turn!FailWith
<1>5. ASSUME NEW c \in Calls, Turn!ToolDenied(c) PROVE Turn!TypeOK'
  BY <1>5 DEF Turn!ToolDenied, Turn!FailWith
<1>6. ASSUME Turn!StreamBreaks PROVE Turn!TypeOK'
  BY <1>6 DEF Turn!StreamBreaks, Turn!FailWith
<1>7. ASSUME Turn!StepFinish PROVE Turn!TypeOK'
  BY <1>7, TurnUpdateType DEF Turn!StepFinish, Turn!FailWith
<1>8. ASSUME Turn!ListMessages PROVE Turn!TypeOK'
  BY <1>8 DEF Turn!ListMessages, Turn!Return
<1>9. ASSUME NEW c \in Calls, Turn!FinishCall(c) PROVE Turn!TypeOK'
  BY <1>9, TurnUpdateType DEF Turn!FinishCall, Turn!Return
<1>10. ASSUME NEW c \in Calls, Turn!AnswerCall(c) PROVE Turn!TypeOK'
  BY <1>10 DEF Turn!AnswerCall, Turn!Return
<1>11. ASSUME Turn!FinishMessage PROVE Turn!TypeOK'
  BY <1>11, TurnUpdateType DEF Turn!FinishMessage, Turn!Return
<1>12. ASSUME Turn!NextStep \/ Turn!Complete \/ Turn!StreamReturns \/ Turn!Recovered PROVE Turn!TypeOK'
  BY <1>12 DEF Turn!Complete, Turn!NextStep, Turn!Recovered, Turn!Return, Turn!StreamReturns
<1>14. ASSUME Turn!Cancel PROVE Turn!TypeOK'
  <2>1. genDone' \in BOOLEAN /\ ctxDone' \in BOOLEAN
    BY <1>14 DEF Turn!Cancel
  <2> QED
    BY <1>14, <2>1 DEF Turn!Cancel
<1>15. ASSUME Turn!CancelCaller PROVE Turn!TypeOK'
  <2>1. genDone' \in BOOLEAN /\ ctxDone' \in BOOLEAN
    BY <1>15 DEF Turn!CancelCaller
  <2> QED
    BY <1>15, <2>1 DEF Turn!CancelCaller
<1>13. ASSUME UNCHANGED Turn!vars PROVE Turn!TypeOK'
  BY <1>13 DEF Turn!vars
<1> QED
  BY <1>1, <1>2, <1>3, <1>4, <1>5, <1>6, <1>7, <1>8, <1>9, <1>10, <1>11, <1>12, <1>13,
     <1>14, <1>15 DEF Turn!Next, Turn!Run, Turn!Tool, Turn!Waiting

\* An earlier step stays closed, and a step that ends is closed.
LEMMA EarlierKept == Turn!TurnAssumption /\ TurnInv /\ [Turn!Next]_(Turn!vars) => EarlierInv'
<1> SUFFICES ASSUME Turn!TurnAssumption, TurnInv, [Turn!Next]_(Turn!vars) PROVE EarlierInv'
  OBVIOUS
<1> USE DEF Turn!TurnAssumption, Turn!Works, Turn!Breaks, Turn!message, Turn!contexts, Turn!handler, Turn!TypeOK, TurnInv, EarlierInv, BetweenInv, StreamInv, RunningInv, CloseInv, MineInv, FinishInv
<1>1. ASSUME Turn!Prepare PROVE EarlierInv'
  BY <1>1 DEF Turn!Prepare, Turn!FailWith
<1>2. ASSUME NEW c \in Calls, Turn!ToolInputStart(c) PROVE EarlierInv'
  BY <1>2 DEF Turn!ToolInputStart, Turn!WriteCall, Turn!FailWith, Turn!Update
<1>3. ASSUME NEW c \in Calls, Turn!ToolCall(c) PROVE EarlierInv'
  BY <1>3 DEF Turn!ToolCall, Turn!WriteCall, Turn!FailWith, Turn!Update
<1>4. ASSUME NEW c \in Calls, Turn!ToolResult(c) PROVE EarlierInv'
  BY <1>4 DEF Turn!ToolResult, Turn!FailWith
<1>5. ASSUME Turn!StepFinish PROVE EarlierInv'
  BY <1>5 DEF Turn!StepFinish, Turn!FailWith, Turn!Update
<1>6. ASSUME NEW c \in Calls, Turn!FinishCall(c) PROVE EarlierInv'
  BY <1>6 DEF Turn!FinishCall, Turn!Return, Turn!Update
<1>7. ASSUME NEW c \in Calls, Turn!AnswerCall(c) PROVE EarlierInv'
  BY <1>7 DEF Turn!AnswerCall, Turn!Return
<1>8. ASSUME Turn!FinishMessage PROVE EarlierInv'
  BY <1>8 DEF Turn!FinishMessage, Turn!Return, Turn!Update
<1>9. ASSUME Turn!StreamBreaks \/ Turn!NextStep \/ Turn!Complete \/ Turn!StreamReturns \/ Turn!Recovered \/ Turn!ListMessages \/ Turn!Cancel \/ Turn!CancelCaller PROVE EarlierInv'
  BY <1>9 DEF Turn!Cancel, Turn!CancelCaller, Turn!Complete, Turn!FailWith, Turn!ListMessages, Turn!NextStep, Turn!Recovered, Turn!Return, Turn!StreamBreaks, Turn!StreamReturns
<1>10. ASSUME NEW c \in Calls, Turn!ToolDenied(c) PROVE EarlierInv'
  BY <1>10 DEF Turn!FailWith, Turn!ToolDenied
<1>11. ASSUME UNCHANGED Turn!vars PROVE EarlierInv'
  BY <1>11 DEF Turn!vars
<1> QED
  BY <1>1, <1>2, <1>3, <1>4, <1>5, <1>6, <1>7, <1>8, <1>9, <1>10, <1>11 DEF Turn!Next, Turn!Run, Turn!Tool, Turn!Waiting

\* A tool call is answered at most once, after its input.
LEMMA MineKept == Turn!TurnAssumption /\ TurnInv /\ [Turn!Next]_(Turn!vars) => MineInv'
<1> SUFFICES ASSUME Turn!TurnAssumption, TurnInv, [Turn!Next]_(Turn!vars) PROVE MineInv'
  OBVIOUS
<1> USE DEF Turn!TurnAssumption, Turn!Works, Turn!Breaks, Turn!message, Turn!contexts, Turn!handler, Turn!TypeOK, TurnInv, MineInv, EarlierInv, RunningInv, CloseInv
<1>1. ASSUME Turn!Prepare PROVE MineInv'
  BY <1>1 DEF Turn!Prepare, Turn!FailWith
<1>2. ASSUME NEW c \in Calls, Turn!ToolInputStart(c) PROVE MineInv'
  BY <1>2 DEF Turn!ToolInputStart, Turn!WriteCall, Turn!FailWith, Turn!Update
<1>3. ASSUME NEW c \in Calls, Turn!ToolCall(c) PROVE MineInv'
  BY <1>3 DEF Turn!ToolCall, Turn!WriteCall, Turn!FailWith, Turn!Update
<1>4. ASSUME NEW c \in Calls, Turn!ToolResult(c) PROVE MineInv'
  BY <1>4 DEF Turn!ToolResult, Turn!FailWith
<1>5. ASSUME Turn!StepFinish PROVE MineInv'
  BY <1>5 DEF Turn!StepFinish, Turn!FailWith, Turn!Update
<1>6. ASSUME NEW c \in Calls, Turn!FinishCall(c) PROVE MineInv'
  BY <1>6 DEF Turn!FinishCall, Turn!Return, Turn!Update
<1>7. ASSUME NEW c \in Calls, Turn!AnswerCall(c) PROVE MineInv'
  BY <1>7 DEF Turn!AnswerCall, Turn!Return
<1>8. ASSUME Turn!FinishMessage PROVE MineInv'
  BY <1>8 DEF Turn!FinishMessage, Turn!Return, Turn!Update
<1>9. ASSUME Turn!StreamBreaks \/ Turn!NextStep \/ Turn!Complete \/ Turn!StreamReturns \/ Turn!Recovered \/ Turn!ListMessages \/ Turn!Cancel \/ Turn!CancelCaller PROVE MineInv'
  BY <1>9 DEF Turn!Cancel, Turn!CancelCaller, Turn!Complete, Turn!FailWith, Turn!ListMessages, Turn!NextStep, Turn!Recovered, Turn!Return, Turn!StreamBreaks, Turn!StreamReturns
<1>10. ASSUME NEW c \in Calls, Turn!ToolDenied(c) PROVE MineInv'
  BY <1>10 DEF Turn!FailWith, Turn!ToolDenied
<1>11. ASSUME UNCHANGED Turn!vars PROVE MineInv'
  BY <1>11 DEF Turn!vars
<1> QED
  BY <1>1, <1>2, <1>3, <1>4, <1>5, <1>6, <1>7, <1>8, <1>9, <1>10, <1>11 DEF Turn!Next, Turn!Run, Turn!Tool, Turn!Waiting

\* A tool starts with its call in the database, and stops when it answers.
LEMMA RunningKept == Turn!TurnAssumption /\ TurnInv /\ [Turn!Next]_(Turn!vars) => RunningInv'
<1> SUFFICES ASSUME Turn!TurnAssumption, TurnInv, [Turn!Next]_(Turn!vars) PROVE RunningInv'
  OBVIOUS
<1> USE DEF Turn!TurnAssumption, Turn!Works, Turn!Breaks, Turn!message, Turn!contexts, Turn!handler, Turn!TypeOK, TurnInv, RunningInv, EarlierInv, MineInv
<1>1. ASSUME Turn!Prepare PROVE RunningInv'
  BY <1>1 DEF Turn!Prepare, Turn!FailWith
<1>2. ASSUME NEW c \in Calls, Turn!ToolInputStart(c) PROVE RunningInv'
  BY <1>2 DEF Turn!ToolInputStart, Turn!WriteCall, Turn!FailWith, Turn!Update
<1>3. ASSUME NEW c \in Calls, Turn!ToolCall(c) PROVE RunningInv'
  BY <1>3 DEF Turn!ToolCall, Turn!WriteCall, Turn!FailWith, Turn!Update
<1>4. ASSUME NEW c \in Calls, Turn!ToolResult(c) PROVE RunningInv'
  BY <1>4 DEF Turn!ToolResult, Turn!FailWith
<1>5. ASSUME NEW c \in Calls, Turn!ToolDenied(c) PROVE RunningInv'
  BY <1>5 DEF Turn!ToolDenied, Turn!FailWith
<1>6. ASSUME Turn!StreamReturns PROVE RunningInv'
  BY <1>6 DEF Turn!StreamReturns
<1>7. ASSUME Turn!StepFinish PROVE RunningInv'
  BY <1>7 DEF Turn!StepFinish, Turn!FailWith, Turn!Update
<1>8. ASSUME NEW c \in Calls, Turn!FinishCall(c) PROVE RunningInv'
  BY <1>8 DEF Turn!FinishCall, Turn!Return, Turn!Update
<1>9. ASSUME NEW c \in Calls, Turn!AnswerCall(c) PROVE RunningInv'
  BY <1>9 DEF Turn!AnswerCall, Turn!Return
<1>10. ASSUME Turn!FinishMessage PROVE RunningInv'
  BY <1>10 DEF Turn!FinishMessage, Turn!Return, Turn!Update
<1>11. ASSUME Turn!StreamBreaks \/ Turn!NextStep \/ Turn!Complete \/ Turn!Recovered \/ Turn!ListMessages \/ Turn!Cancel \/ Turn!CancelCaller PROVE RunningInv'
  BY <1>11 DEF Turn!Cancel, Turn!CancelCaller, Turn!Complete, Turn!FailWith, Turn!ListMessages, Turn!NextStep, Turn!Recovered, Turn!Return, Turn!StreamBreaks
<1>12. ASSUME UNCHANGED Turn!vars PROVE RunningInv'
  BY <1>12 DEF Turn!vars
<1> QED
  BY <1>1, <1>2, <1>3, <1>4, <1>5, <1>6, <1>7, <1>8, <1>9, <1>10, <1>11, <1>12 DEF Turn!Next, Turn!Run, Turn!Tool, Turn!Waiting

\* A failed write ends the stream.
LEMMA StreamKept == Turn!TurnAssumption /\ TurnInv /\ [Turn!Next]_(Turn!vars) => StreamInv'
<1> SUFFICES ASSUME Turn!TurnAssumption, TurnInv, [Turn!Next]_(Turn!vars) PROVE StreamInv'
  OBVIOUS
<1> USE DEF Turn!TurnAssumption, Turn!Works, Turn!Breaks, Turn!message, Turn!contexts, Turn!handler, Turn!TypeOK, TurnInv, StreamInv, RunningInv, EarlierInv, MineInv
<1>1. ASSUME Turn!Prepare PROVE StreamInv'
  BY <1>1 DEF Turn!Prepare, Turn!FailWith
<1>2. ASSUME NEW c \in Calls, Turn!ToolInputStart(c) PROVE StreamInv'
  BY <1>2 DEF Turn!ToolInputStart, Turn!WriteCall, Turn!FailWith, Turn!Update
<1>3. ASSUME NEW c \in Calls, Turn!ToolCall(c) PROVE StreamInv'
  BY <1>3 DEF Turn!ToolCall, Turn!WriteCall, Turn!FailWith, Turn!Update
<1>4. ASSUME NEW c \in Calls, Turn!ToolResult(c) PROVE StreamInv'
  BY <1>4 DEF Turn!ToolResult, Turn!FailWith
<1>5. ASSUME NEW c \in Calls, Turn!ToolDenied(c) PROVE StreamInv'
  BY <1>5 DEF Turn!ToolDenied, Turn!FailWith
<1>6. ASSUME Turn!StepFinish PROVE StreamInv'
  BY <1>6 DEF Turn!StepFinish, Turn!FailWith, Turn!Update
<1>7. ASSUME Turn!StreamBreaks \/ Turn!NextStep \/ Turn!Complete \/ Turn!StreamReturns \/ Turn!Recovered \/ Turn!ListMessages \/ Turn!FinishMessage \/ Turn!Cancel \/ Turn!CancelCaller PROVE StreamInv'
  BY <1>7 DEF Turn!Cancel, Turn!CancelCaller, Turn!Complete, Turn!FailWith, Turn!FinishMessage, Turn!ListMessages, Turn!NextStep, Turn!Recovered, Turn!Return, Turn!StreamBreaks, Turn!StreamReturns, Turn!Update
<1>8. ASSUME NEW c \in Calls, Turn!FinishCall(c) \/ Turn!AnswerCall(c) PROVE StreamInv'
  BY <1>8 DEF Turn!AnswerCall, Turn!FinishCall, Turn!Return, Turn!Update
<1>9. ASSUME UNCHANGED Turn!vars PROVE StreamInv'
  BY <1>9 DEF Turn!vars
<1> QED
  BY <1>1, <1>2, <1>3, <1>4, <1>5, <1>6, <1>7, <1>8, <1>9 DEF Turn!Next, Turn!Run, Turn!Tool, Turn!Waiting

\* A step ends with every tool call complete.
LEMMA BetweenKept == Turn!TurnAssumption /\ TurnInv /\ [Turn!Next]_(Turn!vars) => BetweenInv'
<1> SUFFICES ASSUME Turn!TurnAssumption, TurnInv, [Turn!Next]_(Turn!vars) PROVE BetweenInv'
  OBVIOUS
<1> USE DEF Turn!TurnAssumption, Turn!Works, Turn!Breaks, Turn!message, Turn!contexts, Turn!handler, Turn!TypeOK, TurnInv, BetweenInv
<1>1. ASSUME Turn!Prepare PROVE BetweenInv'
  BY <1>1 DEF Turn!Prepare, Turn!FailWith
<1>2. ASSUME NEW c \in Calls, Turn!ToolInputStart(c) PROVE BetweenInv'
  BY <1>2 DEF Turn!ToolInputStart, Turn!WriteCall, Turn!FailWith, Turn!Update
<1>3. ASSUME NEW c \in Calls, Turn!ToolCall(c) PROVE BetweenInv'
  BY <1>3 DEF Turn!ToolCall, Turn!WriteCall, Turn!FailWith, Turn!Update
<1>4. ASSUME Turn!StepFinish PROVE BetweenInv'
  BY <1>4 DEF Turn!StepFinish, Turn!FailWith, Turn!Update
<1>5. ASSUME Turn!StreamBreaks \/ Turn!NextStep \/ Turn!Complete \/ Turn!StreamReturns \/ Turn!Recovered \/ Turn!ListMessages \/ Turn!FinishMessage \/ Turn!Cancel \/ Turn!CancelCaller PROVE BetweenInv'
  BY <1>5 DEF Turn!Cancel, Turn!CancelCaller, Turn!Complete, Turn!FailWith, Turn!FinishMessage, Turn!ListMessages, Turn!NextStep, Turn!Recovered, Turn!Return, Turn!StreamBreaks, Turn!StreamReturns, Turn!Update
<1>6. ASSUME NEW c \in Calls, Turn!FinishCall(c) \/ Turn!AnswerCall(c) \/ Turn!ToolResult(c) \/ Turn!ToolDenied(c) PROVE BetweenInv'
  BY <1>6 DEF Turn!AnswerCall, Turn!FailWith, Turn!FinishCall, Turn!Return, Turn!ToolDenied, Turn!ToolResult, Turn!Update
<1>7. ASSUME UNCHANGED Turn!vars PROVE BetweenInv'
  BY <1>7 DEF Turn!vars
<1> QED
  BY <1>1, <1>2, <1>3, <1>4, <1>5, <1>6, <1>7 DEF Turn!Next, Turn!Run, Turn!Tool, Turn!Waiting

\* A step ends with its finish reason in the database.
LEMMA FinishKept == Turn!TurnAssumption /\ TurnInv /\ [Turn!Next]_(Turn!vars) => FinishInv'
<1> SUFFICES ASSUME Turn!TurnAssumption, TurnInv, [Turn!Next]_(Turn!vars) PROVE FinishInv'
  OBVIOUS
<1> USE DEF Turn!TurnAssumption, Turn!Works, Turn!Breaks, Turn!message, Turn!contexts, Turn!handler, Turn!TypeOK, TurnInv, FinishInv, Turn!Reasons
<1>1. ASSUME Turn!Prepare PROVE FinishInv'
  BY <1>1 DEF Turn!Prepare, Turn!FailWith
<1>2. ASSUME NEW c \in Calls, Turn!ToolInputStart(c) PROVE FinishInv'
  BY <1>2 DEF Turn!ToolInputStart, Turn!WriteCall, Turn!FailWith, Turn!Update
<1>3. ASSUME NEW c \in Calls, Turn!ToolCall(c) PROVE FinishInv'
  BY <1>3 DEF Turn!ToolCall, Turn!WriteCall, Turn!FailWith, Turn!Update
<1>4. ASSUME Turn!StepFinish PROVE FinishInv'
  BY <1>4 DEF Turn!StepFinish, Turn!FailWith, Turn!Update
<1>5. ASSUME Turn!ListMessages PROVE FinishInv'
  BY <1>5 DEF Turn!ListMessages, Turn!Return
<1>6. ASSUME NEW c \in Calls, Turn!FinishCall(c) PROVE FinishInv'
  BY <1>6 DEF Turn!FinishCall, Turn!Return, Turn!Update
<1>7. ASSUME Turn!FinishMessage PROVE FinishInv'
  BY <1>7 DEF Turn!FinishMessage, Turn!Return, Turn!Update
<1>8. ASSUME Turn!StreamBreaks \/ Turn!NextStep \/ Turn!Complete \/ Turn!StreamReturns \/ Turn!Recovered \/ Turn!Cancel \/ Turn!CancelCaller PROVE FinishInv'
  BY <1>8 DEF Turn!Cancel, Turn!CancelCaller, Turn!Complete, Turn!FailWith, Turn!NextStep, Turn!Recovered, Turn!Return, Turn!StreamBreaks, Turn!StreamReturns
<1>9. ASSUME NEW c \in Calls, Turn!AnswerCall(c) \/ Turn!ToolResult(c) \/ Turn!ToolDenied(c) PROVE FinishInv'
  BY <1>9 DEF Turn!AnswerCall, Turn!FailWith, Turn!Return, Turn!ToolDenied, Turn!ToolResult
<1>10. ASSUME UNCHANGED Turn!vars PROVE FinishInv'
  BY <1>10 DEF Turn!vars
<1> QED
  BY <1>1, <1>2, <1>3, <1>4, <1>5, <1>6, <1>7, <1>8, <1>9, <1>10 DEF Turn!Next, Turn!Run, Turn!Tool, Turn!Waiting

\* The error path closes what it goes through.
LEMMA CloseKept == Turn!TurnAssumption /\ TurnInv /\ [Turn!Next]_(Turn!vars) => CloseInv'
<1> SUFFICES ASSUME Turn!TurnAssumption, TurnInv, [Turn!Next]_(Turn!vars) PROVE CloseInv'
  OBVIOUS
<1> USE DEF Turn!TurnAssumption, Turn!Works, Turn!Breaks, Turn!message, Turn!contexts, Turn!handler, Turn!TypeOK, TurnInv, CloseInv, MineInv, RunningInv
<1>1. ASSUME Turn!ListMessages PROVE CloseInv'
  BY <1>1 DEF Turn!ListMessages, Turn!Return
<1>2. ASSUME NEW c \in Calls, Turn!FinishCall(c) PROVE CloseInv'
  BY <1>2 DEF Turn!FinishCall, Turn!Return, Turn!Update
<1>3. ASSUME NEW c \in Calls, Turn!AnswerCall(c) PROVE CloseInv'
  BY <1>3 DEF Turn!AnswerCall, Turn!Return
<1>4. ASSUME Turn!FinishMessage PROVE CloseInv'
  BY <1>4 DEF Turn!FinishMessage, Turn!Return, Turn!Update
<1>5. ASSUME Turn!Prepare \/ Turn!StreamBreaks \/ Turn!StepFinish \/ Turn!NextStep \/ Turn!Complete \/ Turn!StreamReturns \/ Turn!Recovered \/ Turn!Cancel \/ Turn!CancelCaller PROVE CloseInv'
  BY <1>5 DEF Turn!Cancel, Turn!CancelCaller, Turn!Complete, Turn!FailWith, Turn!NextStep, Turn!Prepare, Turn!Recovered, Turn!Return, Turn!StepFinish, Turn!StreamBreaks, Turn!StreamReturns, Turn!Update
<1>6. ASSUME NEW c \in Calls, Turn!ToolInputStart(c) \/ Turn!ToolCall(c) \/ Turn!ToolResult(c) \/ Turn!ToolDenied(c) PROVE CloseInv'
  BY <1>6 DEF Turn!FailWith, Turn!ToolCall, Turn!ToolDenied, Turn!ToolInputStart, Turn!ToolResult, Turn!Update, Turn!WriteCall
<1>7. ASSUME UNCHANGED Turn!vars PROVE CloseInv'
  BY <1>7 DEF Turn!vars
<1> QED
  BY <1>1, <1>2, <1>3, <1>4, <1>5, <1>6, <1>7 DEF Turn!Next, Turn!Run, Turn!Tool, Turn!Waiting

\* Run returns once.
LEMMA OutcomeKept == Turn!TurnAssumption /\ TurnInv /\ [Turn!Next]_(Turn!vars) => OutcomeInv'
<1> SUFFICES ASSUME Turn!TurnAssumption, TurnInv, [Turn!Next]_(Turn!vars) PROVE OutcomeInv'
  OBVIOUS
<1> USE DEF Turn!TurnAssumption, Turn!Works, Turn!Breaks, Turn!message, Turn!contexts, Turn!handler, Turn!TypeOK, TurnInv, OutcomeInv
<1>1. ASSUME Turn!ListMessages PROVE OutcomeInv'
  BY <1>1 DEF Turn!ListMessages, Turn!Return
<1>2. ASSUME Turn!Complete PROVE OutcomeInv'
  BY <1>2 DEF Turn!Complete, Turn!Return
<1>3. ASSUME Turn!Recovered PROVE OutcomeInv'
  BY <1>3 DEF Turn!Recovered, Turn!Return
<1>4. ASSUME Turn!Prepare \/ Turn!StreamBreaks \/ Turn!StepFinish \/ Turn!NextStep \/ Turn!StreamReturns \/ Turn!FinishMessage \/ Turn!Cancel \/ Turn!CancelCaller PROVE OutcomeInv'
  BY <1>4 DEF Turn!Cancel, Turn!CancelCaller, Turn!FailWith, Turn!FinishMessage, Turn!NextStep, Turn!Prepare, Turn!Return, Turn!StepFinish, Turn!StreamBreaks, Turn!StreamReturns, Turn!Update
<1>5. ASSUME NEW c \in Calls, Turn!ToolInputStart(c) \/ Turn!ToolCall(c) \/ Turn!FinishCall(c) \/ Turn!AnswerCall(c) \/ Turn!ToolResult(c) \/ Turn!ToolDenied(c) PROVE OutcomeInv'
  BY <1>5 DEF Turn!AnswerCall, Turn!FailWith, Turn!FinishCall, Turn!Return, Turn!ToolCall, Turn!ToolDenied, Turn!ToolInputStart, Turn!ToolResult, Turn!Update, Turn!WriteCall
<1>6. ASSUME UNCHANGED Turn!vars PROVE OutcomeInv'
  BY <1>6 DEF Turn!vars
<1> QED
  BY <1>1, <1>2, <1>3, <1>4, <1>5, <1>6 DEF Turn!Next, Turn!Run, Turn!Tool, Turn!Waiting

\* The error path is cut short by a fault, or by a ctx that is done.
LEMMA AbandonKept == Turn!TurnAssumption /\ TurnInv /\ Turn!OnlyFaultsAbandon /\ [Turn!Next]_(Turn!vars) => Turn!OnlyFaultsAbandon'
<1> SUFFICES ASSUME Turn!TurnAssumption, TurnInv, Turn!OnlyFaultsAbandon, [Turn!Next]_(Turn!vars) PROVE Turn!OnlyFaultsAbandon'
  OBVIOUS
<1> USE DEF Turn!TurnAssumption, Turn!Works, Turn!Breaks, Turn!message, Turn!contexts, Turn!handler, Turn!TypeOK, TurnInv, OutcomeInv, Turn!OnlyFaultsAbandon
<1>1. ASSUME Turn!ListMessages PROVE Turn!OnlyFaultsAbandon'
  BY <1>1 DEF Turn!ListMessages, Turn!Return
<1>2. ASSUME NEW c \in Calls, Turn!FinishCall(c) PROVE Turn!OnlyFaultsAbandon'
  BY <1>2 DEF Turn!FinishCall, Turn!Return, Turn!Update
<1>3. ASSUME NEW c \in Calls, Turn!AnswerCall(c) PROVE Turn!OnlyFaultsAbandon'
  BY <1>3 DEF Turn!AnswerCall, Turn!Return
<1>4. ASSUME Turn!FinishMessage PROVE Turn!OnlyFaultsAbandon'
  BY <1>4 DEF Turn!FinishMessage, Turn!Return, Turn!Update
<1>5. ASSUME Turn!Complete \/ Turn!Recovered PROVE Turn!OnlyFaultsAbandon'
  BY <1>5 DEF Turn!Complete, Turn!Recovered, Turn!Return
<1>6. ASSUME Turn!Prepare \/ Turn!StreamBreaks \/ Turn!StepFinish \/ Turn!NextStep \/ Turn!StreamReturns \/ Turn!Cancel \/ Turn!CancelCaller
      PROVE Turn!OnlyFaultsAbandon'
  BY <1>6 DEF Turn!Cancel, Turn!CancelCaller, Turn!NextStep, Turn!Prepare, Turn!StepFinish, Turn!StreamBreaks, Turn!StreamReturns
<1>7. ASSUME NEW c \in Calls, Turn!ToolInputStart(c) \/ Turn!ToolCall(c) \/ Turn!ToolResult(c) \/ Turn!ToolDenied(c)
      PROVE Turn!OnlyFaultsAbandon'
  BY <1>7 DEF Turn!ToolCall, Turn!ToolDenied, Turn!ToolInputStart, Turn!ToolResult
<1>8. ASSUME UNCHANGED Turn!vars PROVE Turn!OnlyFaultsAbandon'
  BY <1>8 DEF Turn!vars
<1> QED
  BY <1>1, <1>2, <1>3, <1>4, <1>5, <1>6, <1>7, <1>8 DEF Turn!Next, Turn!Run, Turn!Tool, Turn!Waiting

\* Run completes between two steps, or closes all the tool calls.
LEMMA ClosedKept == Turn!TurnAssumption /\ TurnInv /\ [Turn!Next]_(Turn!vars) => Turn!TurnIsClosed'
<1> SUFFICES ASSUME Turn!TurnAssumption, TurnInv, [Turn!Next]_(Turn!vars) PROVE Turn!TurnIsClosed'
  OBVIOUS
<1> USE DEF Turn!TurnAssumption, Turn!Works, Turn!Breaks, Turn!message, Turn!contexts, Turn!handler, Turn!TypeOK, TurnInv, Turn!TurnIsClosed, Turn!WellFormed, OutcomeInv, Turn!Reasons, EarlierInv, MineInv, RunningInv, StreamInv, BetweenInv, FinishInv, CloseInv
<1>1. ASSUME Turn!ListMessages PROVE Turn!TurnIsClosed'
  BY <1>1 DEF Turn!ListMessages, Turn!Return
<1>2. ASSUME Turn!Complete PROVE Turn!TurnIsClosed'
  BY <1>2 DEF Turn!Complete, Turn!Return
<1>3. ASSUME Turn!FinishMessage PROVE Turn!TurnIsClosed'
  <2> SUFFICES ASSUME Turn!Update, outcome' = "closed" PROVE Turn!WellFormed'
    BY <1>3 DEF Turn!FinishMessage, Turn!Return
  <2> USE <1>3 DEF Turn!FinishMessage, Turn!Return, Turn!Update
  <2>1. ASSUME NEW c \in Calls
        PROVE  db'[c] # "open" /\ results'[c] = IF db'[c] = "finished" THEN 1 ELSE 0
    BY <2>1
  <2>2. memFinish' # "none" /\ dbFinish'[step] = memFinish' /\ step \in 1..MaxSteps
    OBVIOUS
  <2>3. ASSUME NEW i \in 1..step PROVE dbFinish'[i] # "none"
    BY <2>2, <2>3
  <2> QED
    BY <2>1, <2>3
<1>4. ASSUME Turn!Prepare \/ Turn!StreamBreaks \/ Turn!StepFinish \/ Turn!NextStep \/ Turn!StreamReturns \/ Turn!Recovered \/ Turn!Cancel \/ Turn!CancelCaller PROVE Turn!TurnIsClosed'
  BY <1>4 DEF Turn!Cancel, Turn!CancelCaller, Turn!FailWith, Turn!NextStep, Turn!Prepare, Turn!Recovered, Turn!Return, Turn!StepFinish, Turn!StreamBreaks, Turn!StreamReturns, Turn!Update
<1>5. ASSUME NEW c \in Calls, Turn!ToolInputStart(c) \/ Turn!ToolCall(c) \/ Turn!FinishCall(c) \/ Turn!AnswerCall(c) \/ Turn!ToolResult(c) \/ Turn!ToolDenied(c) PROVE Turn!TurnIsClosed'
  BY <1>5 DEF Turn!AnswerCall, Turn!FailWith, Turn!FinishCall, Turn!Return, Turn!ToolCall, Turn!ToolDenied, Turn!ToolInputStart, Turn!ToolResult, Turn!Update, Turn!WriteCall
<1>6. ASSUME UNCHANGED Turn!vars PROVE Turn!TurnIsClosed'
  BY <1>6 DEF Turn!vars
<1> QED
  BY <1>1, <1>2, <1>3, <1>4, <1>5, <1>6 DEF Turn!Next, Turn!Run, Turn!Tool, Turn!Waiting

\* Every step preserves the invariant.
LEMMA TurnStepKeeps == Turn!TurnAssumption /\ TurnInv /\ [Turn!Next]_(Turn!vars) => TurnInv'
BY TurnTypeKept, EarlierKept, MineKept, RunningKept, StreamKept, BetweenKept, FinishKept,
   CloseKept, OutcomeKept, ClosedKept DEF TurnInv

-----------------------------------------------------------------------------
(* Theorems *)

\* Agent implements its parts: what moves in it moves as they do.
LEMMA AgentParts ==
  /\ AgentInit => Init /\ Turn!Init
  /\ [AgentNext]_<<part, vars, transcript>> => [Next]_vars
  /\ [AgentNext]_<<part, vars, transcript>> => [Turn!Next]_(Turn!vars)
BY DEF AgentInit, AgentNext, Schedule, Converse, transcript, Turn!vars

\* Each behaviour of Agent is one of SessionAgent and one of AgentTurn.
THEOREM AgentIsItsParts == AgentSpec => Spec /\ Turn!Spec
BY AgentParts, PTL DEF AgentSpec, Spec, Turn!Spec

\* The invariant of a turn holds in every state.
LEMMA TurnAlways == AgentSpec => []TurnInv
<1>1. Turn!Init => TurnInv
  BY AgentAssumption, TurnStarts
<1>2. TurnInv /\ [Turn!Next]_(Turn!vars) => TurnInv'
  BY AgentAssumption, TurnStepKeeps
<1> QED
  BY <1>1, <1>2, AgentIsItsParts, PTL DEF Turn!Spec

\* The type invariant of a turn.
THEOREM TurnTypeCorrect == AgentSpec => []Turn!TypeOK
<1>1. TurnInv => Turn!TypeOK
  BY DEF TurnInv
<1> QED
  BY <1>1, TurnAlways, PTL

\* A turn that returned, and not through a recovery, left a history in which
\* every tool call is complete and has one result, and every assistant message
\* says how it ended: whatever failed and whoever cancelled.
THEOREM HistoryIsClosed == AgentSpec => []TurnIsClosed
<1>1. TurnInv => TurnIsClosed
  BY DEF TurnInv, TurnIsClosed
<1> QED
  BY <1>1, TurnAlways, PTL

\* No tool call gets a second result, of its tool or of the error path.
THEOREM CallsAreAnsweredOnce == AgentSpec => []AnsweredOnce
<1>1. ASSUME TurnInv PROVE AnsweredOnce
  <2>1. ASSUME NEW c \in mine PROVE results[c] <= 1
    BY <1>1, <2>1 DEF TurnInv, MineInv
  <2>2. ASSUME NEW c \in Calls \ mine PROVE results[c] <= 1
    BY <1>1, <2>2 DEF TurnInv, EarlierInv
  <2> QED
    BY <2>1, <2>2 DEF AnsweredOnce, Turn!AnsweredOnce
<1> QED
  BY <1>1, TurnAlways, PTL

\* A tool only runs for a tool call the database has in full.
THEOREM RunsAreRecorded == AgentSpec => []Turn!RunsRecorded
<1>1. TurnInv => Turn!RunsRecorded
  BY DEF TurnInv, Turn!RunsRecorded, RunningInv
<1> QED
  BY <1>1, TurnAlways, PTL

\* The user's cancellation of the session never leaves a history open.
THEOREM CancelsLeaveNothingOpen == AgentSpec => []OnlyFaultsAbandon
<1>1. Turn!Init => OnlyFaultsAbandon
  BY DEF Turn!Init, OnlyFaultsAbandon, Turn!OnlyFaultsAbandon
<1>2. TurnInv /\ OnlyFaultsAbandon /\ [Turn!Next]_(Turn!vars) => OnlyFaultsAbandon'
  BY AgentAssumption, AbandonKept DEF OnlyFaultsAbandon
<1> QED
  BY <1>1, <1>2, TurnAlways, AgentIsItsParts, PTL DEF Turn!Spec
=============================================================================

-------------------------- MODULE ApplicationProofs --------------------------
(***************************************************************************)
(* Proofs about the App.  Of its own life (Lifecycle): channels are closed  *)
(* once, nothing is delivered out of order, and a turn meets a closed       *)
(* database only after the five seconds, for any number of events and any   *)
(* capacities.  Of its language servers (LanguageServers): every process    *)
(* that runs can be reached, and the documents of client and server agree,  *)
(* for any number of tool calls and of faults.                              *)
(***************************************************************************)
EXTENDS Application, SequenceTheorems, FiniteSetTheorems, TLAPS


-----------------------------------------------------------------------------
(* A channel is closed once.                                               *)

\* Who has not subscribed has no channel yet.
Fresh(s) == s \notin open /\ cleaner[s] = "none" /\ closes[s] = 0

\* A subscription that is listed is not closed; until Shutdown, a goroutine
\* that waits has its subscription listed.
SubInv ==
  /\ cleaner \in [Subs -> {"none", "waiting", "ended"}]
  /\ closes \in [Subs -> 0..1]
  /\ open \subseteq Subs
  /\ fan = "starting" => Fresh("fan")
  /\ reader = "starting" => Fresh("reader")
  /\ \A s \in Subs :
       /\ s \in open => closes[s] = 0
       /\ cleaner[s] = "waiting" /\ ~done => s \in open

\* The invariant of the subscriptions holds initially.
LEMMA SubInit == Init => SubInv
BY DEF Init, SubInv, Fresh, Subs

\* A step that leaves the subscriptions alone; nobody subscribes again.
Untouched ==
  /\ done' = done /\ open' = open /\ cleaner' = cleaner /\ closes' = closes
  /\ fan' = fan \/ fan' # "starting"
  /\ reader' = reader \/ reader' # "starting"

\* The invariant of the subscriptions is kept by every step.
LEMMA SubStep == SubInv /\ [Next]_vars => SubInv'
<1> SUFFICES ASSUME SubInv, [Next]_vars PROVE SubInv'
  OBVIOUS
<1>0. Untouched => SubInv'
  BY DEF Untouched, SubInv, Fresh, Subs
<1>1. CASE UNCHANGED vars
  <2>1. Untouched
    BY <1>1 DEF vars, app, turn, broker, fans, out, Untouched
  <2> QED
    BY <1>0, <2>1
<1>2. CASE AgentStarts \/ AgentWrites \/ AgentEnds \/ NoticePublished
  <2>1. Untouched
    BY <1>2 DEF AgentStarts, AgentWrites, AgentEnds, NoticePublished, Publish,
                broker, fans, out, Untouched
  <2> QED
    BY <1>0, <2>1
<1>3. ASSUME NEW s \in Subs, Unsubscribe(s) PROVE SubInv'
  <2>1. /\ done' = done /\ fan' = fan /\ reader' = reader
        /\ cleaner[s] = "waiting" /\ cleaner' = [cleaner EXCEPT ![s] = "ended"]
    BY <1>3 DEF Unsubscribe, fans, out
  <2>2. CASE done
    <3>1. open' = open /\ closes' = closes
      BY <1>3, <2>2 DEF Unsubscribe
    <3> QED
      BY <2>1, <2>2, <3>1 DEF SubInv, Fresh, Subs
  <2>3. CASE ~done
    <3>1. open' = open \ {s} /\ closes' = [closes EXCEPT ![s] = @ + 1]
      BY <1>3, <2>3 DEF Unsubscribe
    <3> QED
      BY <2>1, <2>3, <3>1 DEF SubInv, Fresh, Subs
  <2> QED
    BY <2>2, <2>3
<1>4. ASSUME NEW s \in Subs, Subscribe(s), Fresh(s), done' = done,
             fan' # "starting" \/ (s # "fan" /\ fan' = fan),
             reader' # "starting" \/ (s # "reader" /\ reader' = reader)
      PROVE SubInv'
  <2>1. CASE done
    <3>1. closes' = [closes EXCEPT ![s] = 1] /\ open' = open /\ cleaner' = cleaner
      BY <1>4, <2>1 DEF Subscribe
    <3> QED
      BY <1>4, <2>1, <3>1 DEF SubInv, Fresh, Subs
  <2>2. CASE ~done
    <3>1. /\ open' = open \union {s} /\ cleaner' = [cleaner EXCEPT ![s] = "waiting"]
          /\ closes' = closes
      BY <1>4, <2>2 DEF Subscribe
    <3> QED
      BY <1>4, <2>2, <3>1 DEF SubInv, Fresh, Subs
  <2> QED
    BY <2>1, <2>2
<1>5. CASE FanSubscribes
  <2>1. Subscribe("fan") /\ Fresh("fan")
    BY <1>5 DEF FanSubscribes, SubInv
  <2>2. done' = done /\ fan' = "receiving" /\ reader' = reader
    BY <1>5 DEF FanSubscribes, out
  <2> QED
    BY <1>4, <2>1, <2>2 DEF Subs
<1>6. CASE ReaderSubscribes
  <2>1. Subscribe("reader") /\ Fresh("reader")
    BY <1>6 DEF ReaderSubscribes, SubInv
  <2>2. done' = done /\ reader' = "reading" /\ fan' = fan
    BY <1>6 DEF ReaderSubscribes, fans
  <2> QED
    BY <1>4, <2>1, <2>2 DEF Subs
<1>7. CASE FanReceives \/ FanSends \/ FanDrops \/ FanEnds \/ TuiStep
  <2>1. Untouched
    BY <1>7 DEF FanReceives, FanSends, FanDrops, FanEnds, TuiStep, TuiReceives, TuiEnds,
                broker, out, Untouched
  <2> QED
    BY <1>0, <2>1
<1>8. CASE ReaderPrints \/ ReaderReturns \/ Interrupt \/ CancelAll \/ CancelAllReturns
  <2>1. Untouched
    BY <1>8 DEF ReaderPrints, ReaderReturns, Interrupt, CancelAll, CancelAllReturns,
                broker, fans, out, Untouched
  <2> QED
    BY <1>0, <2>1
<1>9. CASE CloseSubs
  <2>1. /\ done /\ done' = done /\ fan' = fan /\ reader' = reader /\ cleaner' = cleaner
        /\ open' = open \ {"fan"}
        /\ closes' = [closes EXCEPT !["fan"] = IF "fan" \in open THEN @ + 1 ELSE @]
    BY <1>9 DEF CloseSubs, fans, out
  <2> QED
    BY <2>1 DEF SubInv, Fresh, Subs
<1>10. CASE BrokerShutdown
  <2>1. /\ done' /\ open' = open /\ cleaner' = cleaner /\ closes' = closes
        /\ fan' = fan /\ reader' = reader
    BY <1>10 DEF BrokerShutdown, fans, out
  <2> QED
    BY <2>1 DEF SubInv, Fresh, Subs
<1>11. ASSUME NEW t \in Tasks, CloseDB \/ Stop(t) \/ WaitForFans \/ WaitForTui
       PROVE SubInv'
  <2>1. Untouched
    BY <1>11 DEF CloseDB, Stop, WaitForFans, WaitForTui, broker, fans, out, Untouched
  <2> QED
    BY <1>0, <2>1
<1> QED
  BY <1>1, <1>2, <1>3, <1>5, <1>6, <1>7, <1>8, <1>9, <1>10, <1>11
  DEF Next, FanStep, ReaderStep, ShutdownStep, Cleanup

\* A channel is closed once, by Shutdown or by the goroutine of its
\* subscription, and never while a publisher may find it (broker.go:31, 72).
THEOREM ChannelsAreClosedOnce == Spec => []ClosedOnce
<1>1. SubInv => ClosedOnce
  BY DEF SubInv, ClosedOnce, Subs
<1> QED
  BY <1>1, SubInit, SubStep, PTL DEF Spec

-----------------------------------------------------------------------------
(* The turn and the database.                                              *)

\* Until CancelAll has returned the database is open; after it the turn has
\* ended, or CancelAll had given up on it.
WaitInv ==
  /\ agent \in {"starting", "working", "ended"}
  /\ main \in {"running", "cancelling"} => db = "open" /\ ~missed
  /\ main = "cancelling" => agent # "starting"
  /\ main \notin {"running", "cancelling"} => hurried \/ agent = "ended"
  /\ missed => hurried

\* The invariant of the wait holds initially.
LEMMA WaitInit == Init => WaitInv
BY DEF Init, WaitInv

\* The invariant of the wait is kept by every step.
LEMMA WaitStep == WaitInv /\ [Next]_vars => WaitInv'
<1> SUFFICES ASSUME WaitInv, [Next]_vars PROVE WaitInv'
  OBVIOUS
<1> USE DEF WaitInv
<1>1. CASE UNCHANGED vars
  BY <1>1 DEF vars, app, turn
<1>2. CASE AgentStarts \/ AgentWrites \/ NoticePublished
  BY <1>2 DEF AgentStarts, AgentWrites, NoticePublished, app, turn
<1>8. CASE AgentEnds
  <2>1. /\ agent = "working" /\ agent' = "ended" /\ main' = main /\ hurried' = hurried
        /\ db' = db /\ (missed' <=> db = "closed")
    BY <1>8 DEF AgentEnds, app
  <2> QED
    BY <2>1
<1>3. ASSUME NEW s \in Subs, Unsubscribe(s) PROVE WaitInv'
  BY <1>3 DEF Unsubscribe, app, turn
<1>4. CASE FanStep \/ TuiStep
  BY <1>4 DEF FanStep, FanSubscribes, FanReceives, FanSends, FanDrops, FanEnds,
              TuiStep, TuiReceives, TuiEnds, app, turn
<1>5. CASE ReaderStep \/ Interrupt
  BY <1>5 DEF ReaderStep, ReaderSubscribes, ReaderPrints, ReaderReturns, Interrupt, app, turn
<1>6. CASE CancelAll
  <2>1. /\ main = "running" /\ db' = db /\ missed' = missed /\ agent' = agent
        /\ main' = IF agent = "working" THEN "cancelling" ELSE "cleaning"
    BY <1>6 DEF CancelAll
  <2>2. hurried' <=> agent = "starting"
    BY <1>6 DEF CancelAll
  <2>3. agent \in {"starting", "working", "ended"}
    OBVIOUS
  <2> QED
    BY <2>1, <2>2, <2>3
<1>9. CASE CancelAllReturns
  <2>1. /\ main = "cancelling" /\ main' = "cleaning"
        /\ db' = db /\ missed' = missed /\ agent' = agent
    BY <1>9 DEF CancelAllReturns, turn
  <2>2. hurried' <=> agent = "working"
    BY <1>9 DEF CancelAllReturns
  <2> QED
    BY <2>1, <2>2
<1>7. ASSUME NEW t \in Tasks, Cleanup(t) PROVE WaitInv'
  BY <1>7 DEF Cleanup, CloseDB, BrokerShutdown, CloseSubs, Stop, WaitForFans, WaitForTui,
              Task, EndTask, app, turn
<1> QED
  BY <1>1, <1>2, <1>3, <1>4, <1>5, <1>6, <1>7, <1>8, <1>9 DEF Next, ShutdownStep

\* The turn meets a closed database only when CancelAll has given up after its
\* five seconds, or looked before the turn was registered (app.go:837).
THEOREM OnlyTimeoutsMiss == Spec => []MissedNeedsTimeout
<1>1. WaitInv => MissedNeedsTimeout
  BY DEF WaitInv, MissedNeedsTimeout
<1> QED
  BY <1>1, WaitInit, WaitStep, PTL DEF Spec

-----------------------------------------------------------------------------
(* The order of what is delivered.                                         *)

AllBelow(p, q) == \A i \in DOMAIN p, j \in DOMAIN q : p[i] < q[j]

Upto(q, n) == \A i \in DOMAIN q : q[i] <= n

\* Event a has been delivered and those in e, h and b have not: they are in
\* order, and none is later than event n.
Sorted(a, e, h, b, n) ==
  /\ a \in Nat /\ n \in Nat /\ {e, h, b} \subseteq Seq(Nat) /\ Len(h) <= 1
  /\ Increasing(e) /\ Increasing(b)
  /\ AllBelow(<<a>>, e) /\ AllBelow(<<a>>, h) /\ AllBelow(<<a>>, b)
  /\ AllBelow(e, h) /\ AllBelow(e, b) /\ AllBelow(h, b)
  /\ a <= n /\ Upto(e, n) /\ Upto(h, n) /\ Upto(b, n)

\* A new event goes behind the others, or nowhere.
LEMMA SortedPublish ==
  ASSUME NEW a, NEW e, NEW h, NEW b, NEW n, Sorted(a, e, h, b, n)
  PROVE  Sorted(a, e, h, b, n + 1) /\ Sorted(a, e, h, Append(b, n + 1), n + 1)
<1>1. Sorted(a, e, h, b, n + 1)
  BY DEF Sorted, Upto
<1>2. Sorted(a, e, h, Append(b, n + 1), n + 1)
  <2> DEFINE c == Append(b, n + 1)
  <2>1. /\ c \in Seq(Nat) /\ DOMAIN c = 1..(Len(b) + 1) /\ DOMAIN b = 1..Len(b) /\ Len(b) \in Nat
        /\ c[Len(b) + 1] = n + 1 /\ n \in Nat
        /\ \A i \in 1..Len(b) : c[i] = b[i] /\ b[i] \in Nat /\ b[i] <= n
    BY DEF Sorted, Upto
  <2>2. \A i, j \in DOMAIN b : i < j => b[i] < b[j]
    BY DEF Sorted, Increasing
  <2> HIDE DEF c
  <2>3. \A i \in DOMAIN c : c[i] = n + 1 \/ \E j \in DOMAIN b : c[i] = b[j]
    BY <2>1
  <2>4. Increasing(c) /\ Upto(c, n + 1)
    <3>1. ASSUME NEW i \in DOMAIN c, NEW j \in DOMAIN c, i < j PROVE c[i] < c[j]
      <4>1. i \in 1..Len(b)
        BY <2>1, <3>1
      <4>2. CASE j = Len(b) + 1
        BY <2>1, <4>1, <4>2
      <4>3. CASE j \in 1..Len(b)
        BY <2>2, <2>1, <3>1, <4>1, <4>3
      <4> QED
        BY <2>1, <4>2, <4>3
    <3>2. \A i \in DOMAIN c : c[i] <= n + 1
      BY <2>1, <2>3
    <3> QED
      BY <3>1, <3>2 DEF Increasing, Upto
  <2>5. ASSUME NEW q \in Seq(Nat), AllBelow(q, b), Upto(q, n) PROVE AllBelow(q, c)
    <3>1. ASSUME NEW i \in DOMAIN q, NEW j \in DOMAIN c PROVE q[i] < c[j]
      <4>1. q[i] \in Nat /\ q[i] <= n
        BY <2>5 DEF Upto
      <4>2. CASE c[j] = n + 1
        BY <2>1, <4>1, <4>2
      <4>3. ASSUME NEW k \in DOMAIN b, c[j] = b[k] PROVE q[i] < c[j]
        BY <2>5, <4>3 DEF AllBelow
      <4> QED
        BY <2>3, <4>2, <4>3
    <3> QED
      BY <3>1 DEF AllBelow
  <2>6. AllBelow(<<a>>, c)
    <3>1. <<a>> \in Seq(Nat) /\ AllBelow(<<a>>, b) /\ Upto(<<a>>, n)
      BY DEF Sorted, Upto
    <3> QED
      BY <2>5, <3>1
  <2>7. AllBelow(e, c) /\ AllBelow(h, c)
    BY <2>5 DEF Sorted
  <2> QED
    BY <1>1, <2>1, <2>4, <2>6, <2>7 DEF Sorted, c
<1> QED
  BY <1>1, <1>2

\* What a sequence of numbers is made of.
LEMMA HeadAndTail ==
  ASSUME NEW q \in Seq(Nat), q # <<>>
  PROVE  /\ Head(q) \in Nat /\ Head(q) = q[1] /\ 1 \in DOMAIN q
         /\ Tail(q) \in Seq(Nat)
         /\ \A i \in DOMAIN Tail(q) : i + 1 \in DOMAIN q /\ Tail(q)[i] = q[i + 1] /\ i \in Nat \ {0}
OBVIOUS

\* The fan-in takes the first event of its channel ...
LEMMA SortedReceive ==
  ASSUME NEW a, NEW e, NEW b, NEW n, Sorted(a, e, <<>>, b, n), b # <<>>
  PROVE  Sorted(a, e, <<Head(b)>>, Tail(b), n)
<1>1. /\ Head(b) \in Nat /\ Head(b) = b[1] /\ 1 \in DOMAIN b /\ Tail(b) \in Seq(Nat)
      /\ \A i \in DOMAIN Tail(b) : i + 1 \in DOMAIN b /\ Tail(b)[i] = b[i + 1] /\ i \in Nat \ {0}
  BY HeadAndTail DEF Sorted
<1>2. \A i \in DOMAIN b : b[i] \in Nat
  BY DEF Sorted
<1>3. Increasing(Tail(b)) /\ Upto(Tail(b), n) /\ AllBelow(<<Head(b)>>, Tail(b))
  BY <1>1, <1>2 DEF Sorted, Increasing, Upto, AllBelow
<1>4. AllBelow(<<a>>, Tail(b)) /\ AllBelow(e, Tail(b))
  BY <1>1 DEF Sorted, AllBelow
<1>5. AllBelow(<<a>>, <<Head(b)>>) /\ AllBelow(e, <<Head(b)>>) /\ Upto(<<Head(b)>>, n)
  BY <1>1 DEF Sorted, AllBelow, Upto
<1> QED
  BY <1>1, <1>3, <1>4, <1>5 DEF Sorted

\* ... and appends it to the events.
LEMMA SortedSend ==
  ASSUME NEW a, NEW e, NEW x, NEW b, NEW n, Sorted(a, e, <<x>>, b, n)
  PROVE  Sorted(a, Append(e, x), <<>>, b, n)
<1> DEFINE f == Append(e, x)
<1>1. x \in Nat /\ a < x /\ x <= n
  BY DEF Sorted, AllBelow, Upto
<1>2. /\ f \in Seq(Nat) /\ DOMAIN f = 1..(Len(e) + 1) /\ DOMAIN e = 1..Len(e) /\ Len(e) \in Nat
      /\ f[Len(e) + 1] = x
      /\ \A i \in 1..Len(e) : f[i] = e[i] /\ e[i] \in Nat /\ e[i] < x
  BY <1>1 DEF Sorted, AllBelow
<1>3. \A i \in DOMAIN f : f[i] = x \/ \E j \in DOMAIN e : f[i] = e[j]
  BY <1>2
<1>4. Increasing(f)
  BY <1>1, <1>2 DEF Sorted, Increasing
<1>5. AllBelow(<<a>>, f) /\ AllBelow(f, b) /\ Upto(f, n)
  BY <1>1, <1>3 DEF Sorted, AllBelow, Upto
<1>6. AllBelow(<<a>>, <<>>) /\ AllBelow(f, <<>>) /\ AllBelow(<<>>, b) /\ Upto(<<>>, n)
  BY DEF AllBelow, Upto
<1> HIDE DEF f
<1> QED
  BY <1>2, <1>4, <1>5, <1>6 DEF Sorted, f

\* The event that is held may be dropped.
LEMMA SortedDrop ==
  ASSUME NEW a, NEW e, NEW h, NEW b, NEW n, Sorted(a, e, h, b, n)
  PROVE  Sorted(a, e, <<>>, b, n)
<1>1. AllBelow(<<a>>, <<>>) /\ AllBelow(e, <<>>) /\ AllBelow(<<>>, b) /\ Upto(<<>>, n)
  BY DEF AllBelow, Upto
<1> QED
  BY <1>1 DEF Sorted

\* The first of the events is delivered.
LEMMA SortedShow ==
  ASSUME NEW a, NEW e, NEW h, NEW b, NEW n, Sorted(a, e, h, b, n), e # <<>>
  PROVE  Sorted(Head(e), Tail(e), h, b, n)
<1>1. /\ Head(e) \in Nat /\ Head(e) = e[1] /\ 1 \in DOMAIN e /\ Tail(e) \in Seq(Nat)
      /\ \A i \in DOMAIN Tail(e) : i + 1 \in DOMAIN e /\ Tail(e)[i] = e[i + 1] /\ i \in Nat \ {0}
  BY HeadAndTail DEF Sorted
<1>2. \A i \in DOMAIN e : e[i] \in Nat
  BY DEF Sorted
<1>3. Increasing(Tail(e)) /\ Upto(Tail(e), n) /\ AllBelow(<<Head(e)>>, Tail(e)) /\ Head(e) <= n
  <2>1. Increasing(Tail(e))
    BY <1>1, <1>2 DEF Sorted, Increasing
  <2>2. Upto(Tail(e), n) /\ Head(e) <= n
    BY <1>1 DEF Sorted, Upto
  <2>3. AllBelow(<<Head(e)>>, Tail(e))
    BY <1>1, <1>2 DEF Sorted, Increasing, AllBelow
  <2> QED
    BY <2>1, <2>2, <2>3
<1>4. AllBelow(<<Head(e)>>, h) /\ AllBelow(<<Head(e)>>, b)
  BY <1>1 DEF Sorted, AllBelow
<1>5. AllBelow(Tail(e), h) /\ AllBelow(Tail(e), b)
  BY <1>1 DEF Sorted, AllBelow
<1> QED
  BY <1>1, <1>3, <1>4, <1>5 DEF Sorted

\* The first event of a channel that nothing else waits before is delivered.
LEMMA SortedPrint ==
  ASSUME NEW a, NEW b, NEW n, Sorted(a, <<>>, <<>>, b, n), b # <<>>
  PROVE  Sorted(Head(b), <<>>, <<>>, Tail(b), n)
<1>1. Sorted(a, <<>>, <<Head(b)>>, Tail(b), n)
  BY SortedReceive
<1>2. Sorted(a, <<Head(b)>>, <<>>, Tail(b), n)
  <2>1. Append(<<>>, Head(b)) = <<Head(b)>>
    OBVIOUS
  <2> QED
    BY <1>1, <2>1, SortedSend
<1>3. Head(<<Head(b)>>) = Head(b) /\ Tail(<<Head(b)>>) = <<>> /\ <<Head(b)>> # <<>>
  OBVIOUS
<1> QED
  BY <1>2, <1>3, SortedShow

\* Two sequences in order, one below the other, are one in order.
LEMMA IncreasingConcat ==
  ASSUME NEW p \in Seq(Nat), NEW q \in Seq(Nat),
         Increasing(p), Increasing(q), AllBelow(p, q)
  PROVE  Increasing(p \o q)
<1>1. /\ Len(p) \in Nat /\ Len(q) \in Nat
      /\ DOMAIN p = 1..Len(p) /\ DOMAIN q = 1..Len(q)
      /\ DOMAIN (p \o q) = 1..(Len(p) + Len(q))
      /\ \A i \in 1..(Len(p) + Len(q)) :
           (p \o q)[i] = IF i <= Len(p) THEN p[i] ELSE q[i - Len(p)]
  OBVIOUS
<1> DEFINE r == p \o q
<1> HIDE DEF r
<1>2. ASSUME NEW i \in DOMAIN r, NEW j \in DOMAIN r, i < j PROVE r[i] < r[j]
  <2>1. CASE j <= Len(p)
    BY <1>1, <1>2, <2>1 DEF r, Increasing
  <2>2. CASE i > Len(p)
    BY <1>1, <1>2, <2>2 DEF r, Increasing
  <2>3. CASE i <= Len(p) /\ j > Len(p)
    <3>1. i \in DOMAIN p /\ j - Len(p) \in DOMAIN q /\ r[i] = p[i] /\ r[j] = q[j - Len(p)]
      BY <1>1, <1>2, <2>3 DEF r
    <3> QED
      BY <3>1 DEF AllBelow
  <2> QED
    BY <1>1, <1>2, <2>1, <2>2, <2>3 DEF r
<1> QED
  BY <1>2 DEF Increasing, r

\* What is above each of two sequences is above both.
LEMMA BelowConcat ==
  ASSUME NEW a \in Seq(Nat), NEW p \in Seq(Nat), NEW q \in Seq(Nat)
  PROVE  /\ AllBelow(a, p) /\ AllBelow(a, q) => AllBelow(a, p \o q)
         /\ AllBelow(p, a) /\ AllBelow(q, a) => AllBelow(p \o q, a)
<1>1. \A i \in DOMAIN (p \o q) :
        \/ \E j \in DOMAIN p : (p \o q)[i] = p[j]
        \/ \E j \in DOMAIN q : (p \o q)[i] = q[j]
  <2> SUFFICES ASSUME NEW i \in DOMAIN (p \o q)
               PROVE  \/ \E j \in DOMAIN p : (p \o q)[i] = p[j]
                      \/ \E j \in DOMAIN q : (p \o q)[i] = q[j]
    OBVIOUS
  <2>1. /\ Len(p) \in Nat /\ Len(q) \in Nat /\ i \in 1..(Len(p) + Len(q))
        /\ DOMAIN p = 1..Len(p) /\ DOMAIN q = 1..Len(q)
        /\ (p \o q)[i] = IF i <= Len(p) THEN p[i] ELSE q[i - Len(p)]
    OBVIOUS
  <2>2. CASE i <= Len(p)
    BY <2>1, <2>2
  <2>3. CASE i > Len(p)
    <3>1. i - Len(p) \in DOMAIN q
      BY <2>1, <2>3
    <3> QED
      BY <2>1, <2>3, <3>1
  <2> QED
    BY <2>1, <2>2, <2>3
<1> DEFINE r == p \o q
<1> HIDE DEF r
<1>2. \A i \in DOMAIN r : (\E j \in DOMAIN p : r[i] = p[j]) \/ (\E j \in DOMAIN q : r[i] = q[j])
  BY <1>1 DEF r
<1>3. /\ AllBelow(a, p) /\ AllBelow(a, q) => AllBelow(a, r)
      /\ AllBelow(p, a) /\ AllBelow(q, a) => AllBelow(r, a)
  BY <1>2 DEF AllBelow
<1> QED
  BY <1>3 DEF r

\* The pieces in order are the whole in order.
LEMMA SortedWhole ==
  ASSUME NEW a, NEW e, NEW h, NEW b, NEW n, Sorted(a, e, h, b, n)
  PROVE  Increasing(<<a>> \o (e \o h \o b))
<1>1. /\ <<a>> \in Seq(Nat) /\ e \in Seq(Nat) /\ h \in Seq(Nat) /\ b \in Seq(Nat)
      /\ Increasing(<<a>>) /\ Increasing(h)
  BY DEF Sorted, Increasing
<1>2. e \o h \in Seq(Nat) /\ Increasing(e \o h)
  BY <1>1, IncreasingConcat DEF Sorted
<1>3. AllBelow(e \o h, b) /\ AllBelow(<<a>>, e \o h)
  BY <1>1, BelowConcat DEF Sorted
<1>4. Increasing(b) /\ AllBelow(<<a>>, b)
  BY DEF Sorted
<1>5. e \o h \o b \in Seq(Nat) /\ Increasing(e \o h \o b)
  <2> DEFINE f == e \o h
  <2>1. f \in Seq(Nat) /\ Increasing(f) /\ AllBelow(f, b)
    BY <1>2, <1>3
  <2> HIDE DEF f
  <2>2. f \o b \in Seq(Nat) /\ Increasing(f \o b)
    BY <1>1, <1>4, <2>1, IncreasingConcat
  <2> QED
    BY <2>2 DEF f
<1>6. AllBelow(<<a>>, e \o h \o b)
  BY <1>1, <1>2, <1>3, <1>4, BelowConcat
<1> QED
  BY <1>1, <1>5, <1>6, IncreasingConcat

-----------------------------------------------------------------------------

Holds == IF fan = "sending" THEN <<held>> ELSE <<>>

\* What the UI, and what the printing loop, has seen and will see.
OrderInv ==
  /\ buf \in [Subs -> Seq(Nat)]
  /\ fan # "sending" => held = None
  /\ Sorted(shown, events, Holds, buf["fan"], published)
  /\ Sorted(printed, <<>>, <<>>, buf["reader"], published)

\* The invariant of the order holds initially.
LEMMA OrderInit == Init => OrderInv
<1>1. Sorted(0, <<>>, <<>>, <<>>, 0)
  BY DEF Sorted, Increasing, AllBelow, Upto
<1> QED
  BY <1>1 DEF Init, OrderInv, Holds, Subs

\* A step that publishes keeps the invariant of the order.
LEMMA OrderPublish ==
  ASSUME OrderInv, Publish, fan' = fan, held' = held, events' = events, shown' = shown,
         printed' = printed
  PROVE  OrderInv'
<1>1. /\ published \in Nat /\ published' = published + 1
      /\ buf \in [Subs -> Seq(Nat)]
      /\ \A s \in Subs : buf'[s] \in {buf[s], Append(buf[s], published + 1)}
      /\ buf' = [s \in Subs |-> buf'[s]]
  BY DEF Publish, OrderInv, Sorted
<1>2. Holds' = Holds
  BY DEF Holds
<1>3. Sorted(shown, events, Holds, buf'["fan"], published + 1)
  BY <1>1, SortedPublish DEF OrderInv, Subs
<1>4. Sorted(printed, <<>>, <<>>, buf'["reader"], published + 1)
  BY <1>1, SortedPublish DEF OrderInv, Subs
<1>5. \A s \in Subs : buf'[s] \in Seq(Nat)
  <2>1. \A q \in Seq(Nat) : Append(q, published + 1) \in Seq(Nat)
    BY <1>1
  <2> QED
    BY <1>1, <2>1
<1> QED
  BY <1>1, <1>2, <1>3, <1>4, <1>5 DEF OrderInv

\* What is delivered or waits to be.
Queues == <<published, buf, fan, held, events, shown, printed>>

\* The invariant of the order is kept by every step.
LEMMA OrderStep == OrderInv /\ [Next]_vars => OrderInv'
<1> SUFFICES ASSUME OrderInv, [Next]_vars PROVE OrderInv'
  OBVIOUS
<1>0. UNCHANGED Queues => OrderInv'
  BY DEF Queues, OrderInv, Holds
<1>1. CASE UNCHANGED vars
  BY <1>0, <1>1 DEF vars, app, turn, broker, fans, out, Queues
<1>2. CASE AgentWrites \/ NoticePublished
  <2>1. /\ Publish /\ fan' = fan /\ held' = held /\ events' = events /\ shown' = shown
        /\ printed' = printed
    BY <1>2 DEF AgentWrites, NoticePublished, fans, out
  <2> QED
    BY <2>1, OrderPublish
<1>3. CASE AgentStarts \/ AgentEnds \/ \E s \in Subs : Unsubscribe(s)
  <2>1. UNCHANGED Queues
    BY <1>3 DEF AgentStarts, AgentEnds, Unsubscribe, broker, fans, out, Queues
  <2> QED
    BY <1>0, <2>1
<1>4. CASE FanSubscribes
  <2>1. /\ UNCHANGED <<published, buf, held, events, shown, printed>>
        /\ fan = "starting" /\ fan' = "receiving"
    BY <1>4 DEF FanSubscribes, Subscribe, out
  <2> QED
    BY <2>1 DEF OrderInv, Holds
<1>5. CASE FanReceives
  <2>1. /\ UNCHANGED <<published, events, shown, printed>>
        /\ fan = "receiving" /\ fan' = "sending" /\ buf["fan"] # <<>>
        /\ held' = Head(buf["fan"]) /\ buf' = [buf EXCEPT !["fan"] = Tail(@)]
    BY <1>5 DEF FanReceives, broker, out
  <2>2. Holds = <<>> /\ Holds' = <<Head(buf["fan"])>>
    BY <2>1 DEF Holds
  <2>3. Sorted(shown, events, Holds', Tail(buf["fan"]), published)
    BY <2>1, <2>2, SortedReceive DEF OrderInv
  <2>4. buf' \in [Subs -> Seq(Nat)]
    BY <2>1 DEF OrderInv, Subs
  <2>5. buf'["fan"] = Tail(buf["fan"]) /\ buf'["reader"] = buf["reader"]
    BY <2>1 DEF OrderInv, Subs
  <2> QED
    BY <2>1, <2>3, <2>4, <2>5 DEF OrderInv
<1>6. CASE FanSends
  <2>1. /\ UNCHANGED <<published, buf, shown, printed>>
        /\ fan = "sending" /\ fan' = "receiving"
        /\ events' = Append(events, held) /\ held' = None
    BY <1>6 DEF FanSends, broker, out
  <2>2. Holds = <<held>> /\ Holds' = <<>>
    BY <2>1 DEF Holds
  <2>3. Sorted(shown, Append(events, held), <<>>, buf["fan"], published)
    BY <2>2, SortedSend DEF OrderInv
  <2> QED
    BY <2>1, <2>2, <2>3 DEF OrderInv
<1>7. CASE FanDrops \/ FanEnds
  <2>1. /\ UNCHANGED <<published, buf, events, shown, printed>>
        /\ fan' # "sending" /\ held' = None
    BY <1>7 DEF FanDrops, FanEnds, broker, out
  <2>2. Sorted(shown, events, <<>>, buf["fan"], published)
    BY SortedDrop DEF OrderInv
  <2> QED
    BY <2>1, <2>2 DEF OrderInv, Holds
<1>8. CASE TuiReceives
  <2>1. /\ UNCHANGED <<published, buf, fan, held, printed>>
        /\ events # <<>> /\ shown' = Head(events) /\ events' = Tail(events)
    BY <1>8 DEF TuiReceives, broker, out
  <2>2. Sorted(Head(events), Tail(events), Holds, buf["fan"], published)
    BY <2>1, SortedShow DEF OrderInv
  <2> QED
    BY <2>1, <2>2 DEF OrderInv, Holds
<1>9. CASE ReaderPrints
  <2>1. /\ UNCHANGED <<published, fan, held, events, shown>>
        /\ buf["reader"] # <<>>
        /\ printed' = Head(buf["reader"]) /\ buf' = [buf EXCEPT !["reader"] = Tail(@)]
    BY <1>9 DEF ReaderPrints, broker, fans
  <2>2. Sorted(Head(buf["reader"]), <<>>, <<>>, Tail(buf["reader"]), published)
    BY <2>1, SortedPrint DEF OrderInv
  <2>3. buf' \in [Subs -> Seq(Nat)]
    <3>1. Tail(buf["reader"]) \in Seq(Nat)
      BY <2>2 DEF Sorted
    <3> QED
      BY <2>1, <3>1 DEF OrderInv, Subs
  <2>4. buf'["fan"] = buf["fan"] /\ buf'["reader"] = Tail(buf["reader"])
    BY <2>1 DEF OrderInv, Subs
  <2> QED
    BY <2>1, <2>2, <2>3, <2>4 DEF OrderInv, Holds
<1>10. CASE TuiEnds \/ ReaderSubscribes \/ ReaderReturns \/ Interrupt \/ CancelAll
            \/ CancelAllReturns
  <2>1. UNCHANGED Queues
    BY <1>10 DEF TuiEnds, ReaderSubscribes, Subscribe, ReaderReturns, Interrupt, CancelAll,
                 CancelAllReturns, broker, fans, out, Queues
  <2> QED
    BY <1>0, <2>1
<1>11. ASSUME NEW t \in Tasks, Cleanup(t) PROVE OrderInv'
  <2>1. UNCHANGED Queues
    BY <1>11 DEF Cleanup, CloseDB, BrokerShutdown, CloseSubs, Stop, WaitForFans, WaitForTui,
                 broker, fans, out, Queues
  <2> QED
    BY <1>0, <2>1
<1> QED
  BY <1>1, <1>2, <1>3, <1>4, <1>5, <1>6, <1>7, <1>8, <1>9, <1>10, <1>11
  DEF Next, FanStep, TuiStep, ReaderStep, ShutdownStep

\* The UI is never sent an older state of a message after a newer one, and the
\* printing loop never finds an answer shorter than what it has printed, however
\* many events are dropped on the way (broker.go:105, app.go:760).
THEOREM DeliveryIsInOrder == Spec => []NothingOutOfOrder
<1>1. OrderInv => NothingOutOfOrder
  <2> SUFFICES ASSUME OrderInv PROVE NothingOutOfOrder
    OBVIOUS
  <2> DEFINE h == IF held = None THEN <<>> ELSE <<held>>
  <2>1. Sorted(shown, events, h, buf["fan"], published)
    <3>1. CASE held = None
      BY <3>1, SortedDrop DEF OrderInv
    <3>2. CASE held # None
      BY <3>2 DEF OrderInv, Holds
    <3> QED
      BY <3>1, <3>2
  <2>2. Increasing(<<shown>> \o InFlight)
    BY <2>1, SortedWhole DEF InFlight
  <2>3. <<>> \o <<>> \o buf["reader"] = buf["reader"]
    BY DEF OrderInv, Sorted
  <2>4. Increasing(<<printed>> \o buf["reader"])
    <3>1. Increasing(<<printed>> \o (<<>> \o <<>> \o buf["reader"]))
      BY SortedWhole DEF OrderInv
    <3> QED
      BY <2>3, <3>1
  <2> QED
    BY <2>2, <2>4 DEF NothingOutOfOrder
<1> QED
  BY <1>1, OrderInit, OrderStep, PTL DEF Spec

Client == [state : LSP!States, server : Nat, open : Nat, ctx : Tools]
Process == [up : BOOLEAN, hung : BOOLEAN, opens : Nat, version : Nat]

\* Where a goroutine of each kind may be.
ToolLabels == {"idle", "find", "new", "compare", "store", "mark", "init", "ready", "close",
               "shutdown", "delete", "tell", "use", "ondemand", "open", "noteopen", "change",
               "didchange", "wait", "done"}
RestarterLabels == {"idle", "close", "shutdown", "stopped", "recreate", "reinit", "await", "done"}
StopperLabels == {"idle", "close", "shutdown", "stopped", "delete", "tell", "done"}
Labels == ToolLabels \cup RestarterLabels

\* A goroutine has a client in its hands.
Handling == {"compare", "store", "mark", "init", "ready", "close", "shutdown", "stopped",
             "delete", "recreate", "reinit", "await", "ondemand", "open", "noteopen", "change",
             "didchange"}

DataInv ==
  /\ entry \in 0..Len(clients)
  /\ clients \in Seq(Client) /\ servers \in Seq(Process)
  /\ \A c \in 1..Len(clients) : clients[c].server \in 1..Len(servers)
  /\ hand \in [LSP!Actors -> 0..Len(clients)] /\ seen \in [LSP!Actors -> Nat]
  /\ faults \in Nat

PlaceInv ==
  /\ pc \in [LSP!Actors -> Labels]
  /\ \A g \in Tools : pc[g] \in ToolLabels
  /\ pc["restarter"] \in RestarterLabels
  /\ \A g \in {"stopper", "killer"} : pc[g] \in StopperLabels
  /\ \A g \in LSP!Actors : pc[g] \in Handling => hand[g] # 0

TypeInv == DataInv /\ PlaceInv

Works(g) == pc[g] \notin {"idle", "done"}

\* No two have been at work at once; no manager with another.
Alone == overlapped = {}
NoManagerMet == "managers" \notin overlapped

CrowdInv ==
  /\ Alone => \A g, h \in LSP!Actors : Works(g) /\ Works(h) => g = h
  /\ NoManagerMet => \A g, h \in LSP!Actors : Works(g) /\ Works(h) /\ g # h => {g, h} \subseteq Tools

\* Who ends a process.
Ending == {"close", "shutdown", "stopped", "delete", "recreate"}
Ended == {"stopped", "delete", "recreate"}

SoleInv ==
  Alone =>
    /\ lost \subseteq {"errored"}
    /\ \A g \in LSP!Actors :
         /\ pc[g] \in {"new", "compare", "store"} => ~LSP!Usable(entry)
         /\ pc[g] \in {"mark", "init", "ready"} \cup Ending => entry = hand[g]
    /\ entry # 0 /\ clients[entry].state = "stopped" /\ LSP!Server(entry).up =>
         \E g \in LSP!Actors : pc[g] = "mark"

DownInv ==
  lost = {} \/ NoManagerMet =>
    \A g \in LSP!Actors : pc[g] \in Ended => ~LSP!Server(hand[g]).up

ReachInv ==
  lost = {} =>
    \A p \in 1..Len(servers) :
      servers[p].up =>
        \/ entry # 0 /\ clients[entry].server = p
        \/ \E c \in 1..Len(clients) : clients[c].server = p /\ LSP!Held(c)

DistinctInv ==
  \A c, d \in 1..Len(clients) : clients[c].server = clients[d].server => c = d

\* A client that nobody but the goroutine that made it can have seen.
Unshared(g) ==
  /\ g \in Tools
  /\ \/ pc[g] \in {"compare", "store"}
     \/ pc[g] \in {"close", "shutdown"} /\ seen[g] # 0

UnsharedInv ==
  /\ \A g \in LSP!Actors : Unshared(g) =>
       /\ entry # hand[g] /\ clients[hand[g]].open = 0
       /\ \A h \in LSP!Actors \ {g} : hand[h] # hand[g]
       /\ pc[g] \in {"compare", "store"} /\ faults = 0 => LSP!Server(hand[g]).up
  /\ \A g \in Tools : pc[g] \in {"store", "mark", "init", "ready"} => seen[g] = 0

\* Without a fault, and unless a manager met another, the server of the map runs.
EntryInv ==
  NoManagerMet =>
    /\ \A g \in LSP!Managers : pc[g] \in Ending => entry = hand[g]
    /\ faults = 0 /\ entry # 0 /\ ~LSP!Server(entry).up =>
         \E g \in LSP!Actors : hand[g] = entry /\ pc[g] \in Ended
    /\ faults = 0 /\ pc["restarter"] \in Ending \ {"close"} => clients[hand["restarter"]].open = 0

Noting(c) == \E g \in LSP!Actors : pc[g] = "noteopen" /\ hand[g] = c

OpenInv ==
  NoManagerMet /\ faults = 0 =>
    \A c \in 1..Len(clients) :
      LSP!Server(c).up /\ ~LSP!Held(c) /\ (clients[c].open # 0 \/ Noting(c)) => LSP!Server(c).opens # 0

OnceInv ==
  Alone /\ faults = 0 =>
    /\ \A c \in 1..Len(clients) : LSP!Server(c).up =>
         /\ clients[c].open = 0 /\ ~Noting(c) => LSP!Server(c).opens = 0
         /\ clients[c].open # 0 => LSP!Server(c).version <= clients[c].open
         /\ Noting(c) => LSP!Server(c).version <= 1
         /\ clients[c].open # 0 \/ Noting(c) => LSP!Server(c).opens = 1
    /\ \A g \in LSP!Actors :
         /\ pc[g] \in {"open", "noteopen"} => clients[hand[g]].open = 0
         /\ pc[g] = "didchange" => seen[g] <= clients[hand[g]].open

IInv ==
  /\ TypeInv /\ CrowdInv /\ SoleInv /\ DownInv /\ ReachInv
  /\ DistinctInv /\ UnsharedInv /\ EntryInv /\ OpenInv /\ OnceInv

-----------------------------------------------------------------------------
(* Goroutines *)

\* The kinds of goroutines are told apart.
LEMMA KindsDiffer ==
  /\ LSP!Actors = Tools \cup LSP!Managers /\ LSP!Managers = {"restarter", "stopper", "killer"}
  /\ \A g \in Tools : g \notin LSP!Managers
  /\ {"restarter", "stopper", "killer"} \subseteq LSP!Actors
  /\ \A g \in LSP!Actors : g \in Tools \/ g = "restarter" \/ g = "stopper" \/ g = "killer"
BY ApplicationAssumption DEF LSP!LanguageServersAssumption, LSP!Actors, LSP!Managers

\* A step of one goroutine that leaves no two of them at work, or no manager
\* and another, is noted as such.
LEMMA GotoKeepsCrowd ==
  ASSUME CrowdInv, pc \in [LSP!Actors -> Labels], NEW g \in LSP!Actors, NEW l, LSP!Goto(g, l)
  PROVE  CrowdInv'
<1> DEFINE together == {h \in LSP!Actors : pc'[h] \notin {"idle", "done"}}
<1>1. overlapped' = IF \A h, i \in together : h = i THEN overlapped
                    ELSE overlapped \cup IF together \subseteq Tools THEN {"tools"} ELSE {"managers"}
  BY DEF LSP!Goto
<1>2. ASSUME NEW x \in LSP!Actors, NEW y \in LSP!Actors, Works(x)', Works(y)', x # y
      PROVE  /\ overlapped' # {}
             /\ "managers" \notin overlapped' => {x, y} \subseteq Tools
  <2>1. x \in together /\ y \in together
    BY <1>2 DEF Works
  <2>2. overlapped' = overlapped \cup IF together \subseteq Tools THEN {"tools"} ELSE {"managers"}
    BY <1>1, <1>2, <2>1
  <2> QED
    BY <2>1, <2>2
<1> QED
  BY <1>2 DEF CrowdInv, Alone, NoManagerMet

\* The history of meetings only grows.
LEMMA GotoMonotone ==
  ASSUME NEW g, NEW l, LSP!Goto(g, l)
  PROVE  overlapped \subseteq overlapped'
BY DEF LSP!Goto

-----------------------------------------------------------------------------
(* Updates of clients and servers *)

\* What a client is after its state was set.
LEMMA SetStateIs ==
  ASSUME TypeInv, NEW c \in 1..Len(clients), NEW st \in LSP!States, LSP!SetState(c, st)
  PROVE  /\ clients' \in Seq(Client) /\ Len(clients') = Len(clients)
         /\ \A d \in 1..Len(clients) :
              /\ clients'[d].server = clients[d].server
              /\ clients'[d].open = clients[d].open
              /\ clients'[d].state = IF d = c THEN st ELSE clients[d].state
<1>1. clients' = [clients EXCEPT ![c] = [clients[c] EXCEPT !.state = st]]
  BY DEF LSP!SetState
<1>2. clients[c] \in Client
  BY ElementOfSeq DEF TypeInv, DataInv, PlaceInv
<1>3. [clients[c] EXCEPT !.state = st] \in Client
  BY <1>2 DEF Client
<1> DEFINE e == [clients[c] EXCEPT !.state = st]
<1>4. /\ clients' \in Seq(Client) /\ Len(clients') = Len(clients)
      /\ \A d \in 1..Len(clients) : clients'[d] = IF d = c THEN e ELSE clients[d]
  BY <1>1, <1>3, ExceptSeq DEF TypeInv, DataInv, PlaceInv
<1>5. e.server = clients[c].server /\ e.open = clients[c].open /\ e.state = st
  BY <1>2 DEF Client
<1> QED
  BY <1>4, <1>5

\* One item of a sequence is replaced.
LEMMA ReplaceItem ==
  ASSUME NEW R, NEW s \in Seq(R), NEW i \in 1..Len(s), NEW e \in R, NEW t,
         t = [s EXCEPT ![i] = e]
  PROVE  /\ t \in Seq(R) /\ Len(t) = Len(s)
         /\ \A j \in 1..Len(s) : t[j] = IF j = i THEN e ELSE s[j]
BY ExceptSeq

\* What a process is after it has ended.
LEMMA EndServerIs ==
  ASSUME TypeInv, NEW p \in 1..Len(servers), LSP!EndServer(p)
  PROVE  /\ servers' \in Seq(Process) /\ Len(servers') = Len(servers)
         /\ ~servers'[p].up
         /\ \A q \in 1..Len(servers) : q # p => servers'[q] = servers[q]
<1> DEFINE e == [up |-> FALSE, hung |-> FALSE, opens |-> 0, version |-> 0]
<1>1. e \in Process
  BY DEF Process
<1>2. /\ servers' \in Seq(Process) /\ Len(servers') = Len(servers)
      /\ \A q \in 1..Len(servers) : servers'[q] = IF q = p THEN e ELSE servers[q]
  BY <1>1, ExceptSeq DEF LSP!EndServer, TypeInv, DataInv, PlaceInv
<1> QED
  BY <1>2

\* A new process comes after the others, and has no document.
LEMMA NewServerIs ==
  ASSUME TypeInv
  PROVE  /\ LSP!NewServer \in Seq(Process) /\ Len(LSP!NewServer) = Len(servers) + 1
         /\ \A q \in 1..Len(servers) : LSP!NewServer[q] = servers[q]
         /\ LSP!NewServer[Len(servers) + 1] =
              [up |-> TRUE, hung |-> FALSE, opens |-> 0, version |-> 0]
<1> DEFINE e == [up |-> TRUE, hung |-> FALSE, opens |-> 0, version |-> 0]
<1>1. e \in Process
  BY DEF Process
<1> QED
  BY <1>1, AppendProperties DEF LSP!NewServer, TypeInv, DataInv, PlaceInv

\* Where the steps of a client's documents lead.
LEMMA SetOpenIs ==
  ASSUME TypeInv, NEW c \in 1..Len(clients), NEW n \in Nat,
         clients' = [clients EXCEPT ![c].open = n]
  PROVE  /\ clients' \in Seq(Client) /\ Len(clients') = Len(clients)
         /\ \A d \in 1..Len(clients) :
              /\ clients'[d].server = clients[d].server
              /\ clients'[d].open = IF d = c THEN n ELSE clients[d].open
              /\ clients'[d].state = clients[d].state
<1> DEFINE e == [clients[c] EXCEPT !.open = n]
<1>1. clients[c] \in Client
  BY ElementOfSeq DEF TypeInv, DataInv, PlaceInv
<1>2. e \in Client /\ e.server = clients[c].server /\ e.open = n /\ e.state = clients[c].state
  BY <1>1 DEF Client
<1>3. clients' = [clients EXCEPT ![c] = e]
  OBVIOUS
<1>4. /\ clients' \in Seq(Client) /\ Len(clients') = Len(clients)
      /\ \A d \in 1..Len(clients) : clients'[d] = IF d = c THEN e ELSE clients[d]
  BY <1>2, <1>3, ExceptSeq DEF TypeInv, DataInv, PlaceInv
<1> QED
  BY <1>2, <1>4

\* What a process is after it was told of a document.
LEMMA SetDocumentIs ==
  ASSUME TypeInv, NEW p \in 1..Len(servers), NEW e \in Process,
         servers' = [servers EXCEPT ![p] = e],
         e.up = servers[p].up
  PROVE  /\ servers' \in Seq(Process) /\ Len(servers') = Len(servers)
         /\ servers'[p].opens = e.opens /\ servers'[p].version = e.version
         /\ servers'[p].up = servers[p].up
         /\ \A q \in 1..Len(servers) : q # p => servers'[q] = servers[q]
BY ReplaceItem DEF TypeInv, DataInv, PlaceInv

-----------------------------------------------------------------------------
(* Steps.  Most of them move one goroutine and change no document, no          *)
(* connection and no process.                                                 *)

ToolMove(a, b) ==
  \/ a = "idle" /\ b \in {"use", "find"}
  \/ a = "find" /\ b \in {"use", "new"}
  \/ a = "compare" /\ b \in {"store", "close"}
  \/ a = "init" /\ b \in {"ready", "close"}
  \/ a = "ondemand" /\ b \in {"change", "open"}
  \/ a = "new" /\ b = "use"
  \/ a = "mark" /\ b = "init"
  \/ a = "ready" /\ b = "tell"
  \/ a = "tell" /\ b = "use"
  \/ a = "close" /\ b = "shutdown"
  \/ a = "open" /\ b = "change"
  \/ a \in {"change", "didchange"} /\ b = "wait"

RestarterMove(a, b) ==
  \/ a = "close" /\ b = "shutdown"
  \/ a = "stopped" /\ b = "recreate"
  \/ a = "reinit" /\ b = "await"
  \/ a \in {"recreate", "reinit", "await"} /\ b = "done"

StopperMove(a, b) ==
  \/ a = "close" /\ b = "shutdown"
  \/ a = "stopped" /\ b = "delete"
  \/ a = "tell" /\ b = "done"

\* Goroutine g goes from a to b.
Moves(g, a, b) ==
  /\ pc[g] = a /\ pc' = [pc EXCEPT ![g] = b]
  /\ g \in Tools => ToolMove(a, b)
  /\ g = "restarter" => RestarterMove(a, b)
  /\ g \in {"stopper", "killer"} => StopperMove(a, b)

\* No connection, no document and no process changes, nor the map.
Keeps ==
  /\ entry' = entry /\ lost' = lost /\ servers' = servers /\ hand' = hand
  /\ clients' \in Seq(Client) /\ Len(clients') = Len(clients)
  /\ \A c \in 1..Len(clients) :
       clients'[c].server = clients[c].server /\ clients'[c].open = clients[c].open
  /\ faults' \in Nat /\ (faults' = 0 => faults = 0)

\* The state of a client changes at the hands of g only.
Marks(g, a, b) ==
  /\ \A c \in 1..Len(clients) :
       clients'[c].state # clients[c].state =>
         /\ c = hand[g] /\ a \in {"mark", "init", "ready", "stopped", "reinit", "await"}
         /\ clients'[c].state = "stopped" => a = "stopped"
  /\ b = "init" => clients'[hand[g]].state # "stopped"

Sees(g, a) ==
  /\ seen' \in [LSP!Actors -> Nat]
  /\ \A h \in LSP!Actors : seen'[h] # seen[h] => h = g /\ a = "compare"

\* What g knows when it goes from a to b.
Knows(g, a, b) ==
  /\ a = "find" /\ b = "new" => ~LSP!Usable(entry)
  /\ a = "compare" /\ b = "store" => ~LSP!Usable(entry) /\ seen'[g] = 0
  /\ a = "compare" /\ b = "close" => LSP!Usable(entry) /\ seen'[g] # 0
  /\ a = "recreate" /\ b = "done" => faults' # 0
  /\ a = "close" /\ b = "shutdown" => clients[hand[g]].open = 0 \/ ~LSP!Server(hand[g]).up
  /\ a = "ondemand" /\ b = "open" => clients[hand[g]].open = 0
  /\ a \in {"open", "didchange"} => ~LSP!Server(hand[g]).up

Quiet(g, a, b) == Moves(g, a, b) /\ Keeps /\ Marks(g, a, b) /\ Sees(g, a) /\ Knows(g, a, b)

QuietStep(g) == \E a, b \in Labels : Quiet(g, a, b)

\* The steps of a tool call that are quiet.
LEMMA ToolIsQuiet ==
  ASSUME TypeInv, NEW g \in Tools,
         \/ LSP!StartServer(g) \/ LSP!CheckAgain(g) \/ LSP!Compare(g) \/ LSP!MarkStarting(g) \/ LSP!Initialize(g)
         \/ LSP!BecomeReady(g) \/ LSP!OpenFileOnDemand(g)
  PROVE  QuietStep(g)
<1> USE KindsDiffer
<1>0. /\ g \in LSP!Actors /\ g \notin {"restarter", "stopper", "killer"}
      /\ clients \in Seq(Client) /\ seen \in [LSP!Actors -> Nat] /\ faults \in Nat
      /\ hand[g] \in 0..Len(clients) /\ (pc[g] \in Handling => hand[g] \in 1..Len(clients))
      /\ entry \in Nat
  BY DEF TypeInv, DataInv, PlaceInv
<1>1. CASE LSP!StartServer(g)
  <2>1. Quiet(g, "idle", "use") \/ Quiet(g, "idle", "find")
    BY <1>0, <1>1 DEF LSP!StartServer, Quiet, Moves, Keeps, Marks, Sees, Knows, LSP!Comes, LSP!Goto, LSP!documents, LSP!map, LSP!local, ToolMove
  <2> QED
    BY <2>1 DEF QuietStep, Labels, ToolLabels
<1>2. CASE LSP!CheckAgain(g)
  <2>1. Quiet(g, "find", "use") \/ Quiet(g, "find", "new")
    BY <1>0, <1>2 DEF LSP!CheckAgain, Quiet, Moves, Keeps, Marks, Sees, Knows, LSP!Goto, LSP!documents, LSP!map, LSP!local, ToolMove
  <2> QED
    BY <2>1 DEF QuietStep, Labels, ToolLabels
<1>3. CASE LSP!Compare(g)
  <2>1. Quiet(g, "compare", "close") \/ Quiet(g, "compare", "store")
    BY <1>0, <1>3 DEF LSP!Compare, Quiet, Moves, Keeps, Marks, Sees, Knows, LSP!Goto, LSP!documents, LSP!map, LSP!others, ToolMove, LSP!Usable
  <2> QED
    BY <2>1 DEF QuietStep, Labels, ToolLabels
<1>4. CASE LSP!MarkStarting(g)
  <2>1. Quiet(g, "mark", "init")
    BY <1>0, <1>4, SetStateIs DEF LSP!MarkStarting, Quiet, Moves, Keeps, Marks, Sees, Knows, LSP!Goto, LSP!documents, LSP!map, LSP!local, LSP!others, ToolMove, LSP!States, Handling
  <2> QED
    BY <2>1 DEF QuietStep, Labels, ToolLabels
<1>5. CASE LSP!Initialize(g)
  <2>1. CASE LSP!Answers(hand[g]) /\ LSP!SetState(hand[g], "starting") /\ LSP!Goto(g, "ready") /\ UNCHANGED faults
    <3>1. Quiet(g, "init", "ready")
      BY <1>0, <1>5, <2>1, SetStateIs DEF LSP!Initialize, Quiet, Moves, Keeps, Marks, Sees, Knows, LSP!Goto, LSP!documents, LSP!map, LSP!local, LSP!others, ToolMove, LSP!States, Handling
    <3> QED
      BY <3>1 DEF QuietStep, Labels, ToolLabels
  <2>2. CASE LSP!Fails(hand[g]) /\ LSP!Goto(g, "close") /\ UNCHANGED clients
    <3>1. Quiet(g, "init", "close")
      BY <1>0, <1>5, <2>2 DEF LSP!Initialize, Quiet, Moves, Keeps, Marks, Sees, Knows, LSP!Goto, LSP!documents, LSP!map, LSP!local, LSP!others, ToolMove, LSP!Fails, LSP!Fault
    <3> QED
      BY <3>1 DEF QuietStep, Labels, ToolLabels
  <2> QED
    BY <1>5, <2>1, <2>2 DEF LSP!Initialize
<1>6. CASE LSP!BecomeReady(g)
  <2>1. Quiet(g, "ready", "tell")
    BY <1>0, <1>6, SetStateIs DEF LSP!BecomeReady, Quiet, Moves, Keeps, Marks, Sees, Knows, LSP!Goto, LSP!documents, LSP!map, LSP!local, LSP!others, ToolMove, LSP!States, Handling
  <2> QED
    BY <2>1 DEF QuietStep, Labels, ToolLabels
<1>7. CASE LSP!OpenFileOnDemand(g)
  <2>1. Quiet(g, "ondemand", "open") \/ Quiet(g, "ondemand", "change")
    BY <1>0, <1>7 DEF LSP!OpenFileOnDemand, Quiet, Moves, Keeps, Marks, Sees, Knows, LSP!Goto, LSP!documents, LSP!map, LSP!local, LSP!others, ToolMove
  <2> QED
    BY <2>1 DEF QuietStep, Labels, ToolLabels
<1> QED
  BY <1>1, <1>2, <1>3, <1>4, <1>5, <1>6, <1>7

\* The other quiet steps of a tool call: the server cannot be started, or cannot be told.
LEMMA ToolIsQuietToo ==
  ASSUME TypeInv, NEW g \in Tools,
         \/ LSP!New(g) /\ pc'[g] # "compare"
         \/ LSP!DidOpen(g) /\ ~LSP!Server(hand[g]).up
         \/ LSP!NextVersion(g) /\ clients[hand[g]].open = 0
         \/ LSP!DidChange(g) /\ ~LSP!Server(hand[g]).up
  PROVE  QuietStep(g)
<1> USE KindsDiffer
<1>0. /\ g \in LSP!Actors /\ g \notin {"restarter", "stopper", "killer"}
      /\ clients \in Seq(Client) /\ seen \in [LSP!Actors -> Nat] /\ faults \in Nat
      /\ pc \in [LSP!Actors -> Labels]
  BY DEF TypeInv, DataInv, PlaceInv
<1>1. CASE LSP!New(g) /\ pc'[g] # "compare"
  <2>1. Quiet(g, "new", "use")
    BY <1>0, <1>1 DEF LSP!New, Quiet, Moves, Keeps, Marks, Sees, Knows, LSP!Goto, LSP!documents, LSP!map, ToolMove, LSP!Fault
  <2> QED
    BY <2>1 DEF QuietStep, Labels, ToolLabels
<1>2. CASE LSP!DidOpen(g) /\ ~LSP!Server(hand[g]).up
  <2>1. Quiet(g, "open", "change")
    BY <1>0, <1>2 DEF LSP!DidOpen, LSP!Reaches, Quiet, Moves, Keeps, Marks, Sees, Knows, LSP!Goto, LSP!map, LSP!local, LSP!others, ToolMove
  <2> QED
    BY <2>1 DEF QuietStep, Labels, ToolLabels
<1>3. CASE LSP!NextVersion(g) /\ clients[hand[g]].open = 0
  <2>1. Quiet(g, "change", "wait")
    BY <1>0, <1>3 DEF LSP!NextVersion, Quiet, Moves, Keeps, Marks, Sees, Knows, LSP!Goto, LSP!map, LSP!others, ToolMove
  <2> QED
    BY <2>1 DEF QuietStep, Labels, ToolLabels
<1>4. CASE LSP!DidChange(g) /\ ~LSP!Server(hand[g]).up
  <2>1. Quiet(g, "didchange", "wait")
    BY <1>0, <1>4 DEF LSP!DidChange, LSP!Reaches, Quiet, Moves, Keeps, Marks, Sees, Knows, LSP!Goto, LSP!map, LSP!local, LSP!others, ToolMove
  <2> QED
    BY <2>1 DEF QuietStep, Labels, ToolLabels
<1> QED
  BY <1>1, <1>2, <1>3, <1>4

\* The quiet steps of a restart.
LEMMA RestartIsQuiet ==
  ASSUME TypeInv,
         \/ LSP!Recreate /\ pc'["restarter"] # "reinit"
         \/ LSP!Reinitialize \/ LSP!BecomeReadyAgain
  PROVE  QuietStep("restarter")
<1> USE KindsDiffer
<1> DEFINE g == "restarter"
<1>0. /\ g \in LSP!Actors /\ g \notin Tools /\ g \notin {"stopper", "killer"}
      /\ clients \in Seq(Client) /\ seen \in [LSP!Actors -> Nat] /\ faults \in Nat
      /\ pc \in [LSP!Actors -> Labels]
      /\ hand[g] \in 0..Len(clients) /\ (pc[g] \in Handling => hand[g] \in 1..Len(clients))
  BY DEF TypeInv, DataInv, PlaceInv
<1>1. CASE LSP!Recreate /\ pc'["restarter"] # "reinit"
  <2>1. Quiet(g, "recreate", "done")
    BY <1>0, <1>1 DEF LSP!Recreate, Quiet, Moves, Keeps, Marks, Sees, Knows, LSP!Goto, LSP!documents, LSP!local, RestarterMove, LSP!Fault
  <2> QED
    BY <2>1 DEF QuietStep, Labels, RestarterLabels
<1>2. CASE LSP!Reinitialize
  <2>1. Quiet(g, "reinit", "await") \/ Quiet(g, "reinit", "done")
    BY <1>0, <1>2, SetStateIs DEF LSP!Reinitialize, Quiet, Moves, Keeps, Marks, Sees, Knows, LSP!Goto, LSP!map, LSP!local, RestarterMove,
       LSP!States, Handling, LSP!Fails, LSP!Fault
  <2> QED
    BY <2>1 DEF QuietStep, Labels, RestarterLabels
<1>3. CASE LSP!BecomeReadyAgain
  <2>1. Quiet(g, "await", "done")
    BY <1>0, <1>3, SetStateIs DEF LSP!BecomeReadyAgain, Quiet, Moves, Keeps, Marks, Sees, Knows, LSP!Goto, LSP!map, LSP!local,
       RestarterMove, LSP!States, Handling
  <2> QED
    BY <2>1 DEF QuietStep, Labels, RestarterLabels
<1> QED
  BY <1>1, <1>2, <1>3

\* The quiet steps of whoever closes a client.
LEMMA CloseIsQuiet ==
  ASSUME TypeInv, NEW g \in LSP!Actors,
         \/ LSP!CloseAllFiles(g) /\ ~(clients[hand[g]].open # 0 /\ LSP!Server(hand[g]).up)
         \/ LSP!MarkStopped(g) \/ LSP!Tell(g)
  PROVE  QuietStep(g)
<1> USE KindsDiffer
<1>0. /\ clients \in Seq(Client) /\ seen \in [LSP!Actors -> Nat] /\ faults \in Nat
      /\ pc \in [LSP!Actors -> Labels]
      /\ hand[g] \in 0..Len(clients) /\ (pc[g] \in Handling => hand[g] \in 1..Len(clients))
      /\ g \in Tools => pc[g] \in ToolLabels
      /\ g = "restarter" => pc[g] \in RestarterLabels
      /\ g \in {"stopper", "killer"} => pc[g] \in StopperLabels
  BY DEF TypeInv, DataInv, PlaceInv
<1>1. CASE LSP!CloseAllFiles(g) /\ ~(clients[hand[g]].open # 0 /\ LSP!Server(hand[g]).up)
  <2>1. Quiet(g, "close", "shutdown")
    BY <1>0, <1>1 DEF LSP!CloseAllFiles, Quiet, Moves, Keeps, Marks, Sees, Knows, LSP!Goto, LSP!documents, LSP!map, LSP!local, LSP!others,
       ToolMove, RestarterMove, StopperMove
  <2> QED
    BY <2>1 DEF QuietStep, Labels, ToolLabels
<1>2. CASE LSP!MarkStopped(g)
  <2>1. Quiet(g, "stopped", "recreate") \/ Quiet(g, "stopped", "delete")
    <3>1. /\ hand[g] \in 1..Len(clients) /\ LSP!SetState(hand[g], "stopped") /\ pc[g] = "stopped"
          /\ g \notin Tools
      BY <1>0, <1>2 DEF LSP!MarkStopped, Handling, ToolLabels
    <3>2. PICK b : pc' = [pc EXCEPT ![g] = b] /\ b = IF g = "restarter" THEN "recreate" ELSE "delete"
      BY <1>2 DEF LSP!MarkStopped, LSP!Goto
    <3>3. Moves(g, "stopped", b)
      BY <1>0, <3>1, <3>2 DEF Moves, RestarterMove, StopperMove
    <3>4. Keeps /\ Marks(g, "stopped", b)
      <4>1. "stopped" \in LSP!States
        BY DEF LSP!States
      <4> QED
        BY <1>0, <1>2, <3>1, <3>2, <4>1, SetStateIs DEF LSP!MarkStopped, Keeps, Marks, LSP!map, LSP!local, LSP!others
    <3>5. Sees(g, "stopped") /\ Knows(g, "stopped", b)
      BY <1>0, <1>2 DEF LSP!MarkStopped, Sees, Knows, LSP!local
    <3> QED
      BY <3>2, <3>3, <3>4, <3>5 DEF Quiet
  <2> QED
    BY <2>1 DEF QuietStep, Labels, ToolLabels, RestarterLabels
<1>3. CASE LSP!Tell(g)
  <2>1. Quiet(g, "tell", "use") \/ Quiet(g, "tell", "done")
    BY <1>0, <1>3 DEF LSP!Tell, Quiet, Moves, Keeps, Marks, Sees, Knows, LSP!Goto, LSP!documents, LSP!map, LSP!local,
       ToolMove, StopperMove, RestarterLabels
  <2> QED
    BY <2>1 DEF QuietStep, Labels, ToolLabels
<1> QED
  BY <1>1, <1>2, <1>3

-----------------------------------------------------------------------------
(* The steps that are not quiet, one predicate each *)

\* The clients and the processes keep their number and their connections.
SameClients ==
  /\ clients' \in Seq(Client) /\ Len(clients') = Len(clients)
  /\ \A c \in 1..Len(clients) :
       clients'[c].server = clients[c].server /\ clients'[c].state = clients[c].state

SameServers ==
  /\ servers' \in Seq(Process) /\ Len(servers') = Len(servers)

\* Goroutine g alone goes from a to b.
Walks(g, a, b) == pc[g] = a /\ pc' = [pc EXCEPT ![g] = b]

\* A tool call makes a client and a process for it.
Makes(g) ==
  /\ g \in Tools /\ Walks(g, "new", "compare")
  /\ entry' = entry /\ lost' = lost /\ seen' = seen /\ faults' = faults
  /\ hand' = [hand EXCEPT ![g] = Len(clients) + 1]
  /\ clients' \in Seq(Client) /\ Len(clients') = Len(clients) + 1
  /\ \A c \in 1..Len(clients) : clients'[c] = clients[c]
  /\ clients'[Len(clients) + 1].server = Len(servers) + 1
  /\ clients'[Len(clients) + 1].open = 0
  /\ servers' \in Seq(Process) /\ Len(servers') = Len(servers) + 1
  /\ \A p \in 1..Len(servers) : servers'[p] = servers[p]
  /\ servers'[Len(servers) + 1].up /\ servers'[Len(servers) + 1].opens = 0
  /\ servers'[Len(servers) + 1].version = 0

\* A tool call puts its client into the map.
Stores(g) ==
  /\ g \in Tools /\ Walks(g, "store", "mark")
  /\ clients' = clients /\ servers' = servers /\ hand' = hand /\ seen' = seen /\ faults' = faults
  /\ entry' = hand[g]
  /\ entry # 0 /\ LSP!Server(entry).up =>
       lost' = lost \cup {IF clients[entry].state = "error" THEN "errored" ELSE "overwritten"}
  /\ entry = 0 \/ ~LSP!Server(entry).up => lost' = lost

\* A goroutine takes what is in the map, and goes on at b.
Takes(g, b) ==
  /\ g \in LSP!Actors
  /\ \/ g \in Tools /\ Walks(g, "use", b) /\ b = IF entry = 0 THEN "done" ELSE "ondemand"
     \/ g \in {"stopper", "restarter"} /\ Walks(g, "idle", b) /\ b = "close" /\ entry # 0
     \/ g = "killer" /\ Walks(g, "idle", b) /\ b = "shutdown" /\ entry # 0
  /\ clients' = clients /\ servers' = servers /\ entry' = entry /\ lost' = lost
  /\ hand' = [hand EXCEPT ![g] = entry] /\ seen' = seen /\ faults' = faults

\* A goroutine closes the document in its client and its server.
Empties(g) ==
  /\ g \in LSP!Actors /\ Walks(g, "close", "shutdown")
  /\ LSP!Server(hand[g]).up
  /\ SameClients /\ SameServers
  /\ \A c \in 1..Len(clients) :
       clients'[c].open = IF c = hand[g] THEN 0 ELSE clients[c].open
  /\ \A p \in 1..Len(servers) :
       /\ servers'[p].up = servers[p].up
       /\ IF p = clients[hand[g]].server THEN servers'[p].opens = 0 /\ servers'[p].version = 0
          ELSE servers'[p] = servers[p]
  /\ hand' = hand /\ seen' = seen /\ faults' = faults /\ entry' = entry /\ lost' = lost

\* A goroutine ends the process of its client.
Stops(g) ==
  /\ g \in LSP!Actors /\ Walks(g, "shutdown", LSP!AfterShutdown(g))
  /\ SameServers
  /\ ~servers'[clients[hand[g]].server].up
  /\ \A p \in 1..Len(servers) : p # clients[hand[g]].server => servers'[p] = servers[p]
  /\ clients' = clients /\ hand' = hand /\ seen' = seen /\ faults' = faults
  /\ entry' = entry /\ lost' = lost

\* A goroutine takes what is in the map out of it.
Removes(g) ==
  /\ g \in LSP!Actors /\ Walks(g, "delete", "tell")
  /\ entry' = 0
  /\ lost' = IF entry \in {0, hand[g]} THEN lost ELSE lost \cup {"deleted"}
  /\ clients' = clients /\ servers' = servers /\ hand' = hand /\ seen' = seen /\ faults' = faults

\* A restart gives its client a new process.
Revives ==
  LET c == hand["restarter"] IN
  /\ Walks("restarter", "recreate", "reinit")
  /\ clients' \in Seq(Client) /\ Len(clients') = Len(clients)
  /\ \A d \in 1..Len(clients) :
       /\ clients'[d].open = clients[d].open
       /\ IF d = c THEN clients'[d].server = Len(servers) + 1 /\ clients'[d].state = "starting"
          ELSE clients'[d] = clients[d]
  /\ servers' \in Seq(Process) /\ Len(servers') = Len(servers) + 1
  /\ \A p \in 1..Len(servers) : servers'[p] = servers[p]
  /\ servers'[Len(servers) + 1].up /\ servers'[Len(servers) + 1].opens = 0
  /\ servers'[Len(servers) + 1].version = 0
  /\ lost' = IF entry = c /\ ~\E g \in LSP!Actors \ {"restarter"} : LSP!Ends(g, c)
             THEN lost ELSE lost \cup {"revived"}
  /\ hand' = hand /\ seen' = seen /\ faults' = faults /\ entry' = entry

\* The server is told that the document is open.
Opens(g) ==
  LET p == clients[hand[g]].server IN
  /\ g \in Tools /\ Walks(g, "open", "noteopen") /\ servers[p].up
  /\ SameServers
  /\ servers'[p].opens = servers[p].opens + 1 /\ servers'[p].version = 1 /\ servers'[p].up
  /\ \A q \in 1..Len(servers) : q # p => servers'[q] = servers[q]
  /\ clients' = clients /\ hand' = hand /\ seen' = seen /\ faults' = faults
  /\ entry' = entry /\ lost' = lost

\* The client notes a version n of the document, which was from before.
Notes(g, n) ==
  /\ g \in Tools
  /\ \/ Walks(g, "noteopen", "change") /\ n = 1 /\ seen' = seen
     \/ Walks(g, "change", "didchange") /\ n = clients[hand[g]].open + 1
          /\ clients[hand[g]].open # 0 /\ seen' = [seen EXCEPT ![g] = n]
  /\ SameClients
  /\ \A c \in 1..Len(clients) :
       clients'[c].open = IF c = hand[g] THEN n ELSE clients[c].open
  /\ servers' = servers /\ hand' = hand /\ faults' = faults /\ entry' = entry /\ lost' = lost

\* The server is told of a change.
Changes(g) ==
  LET p == clients[hand[g]].server IN
  /\ g \in Tools /\ Walks(g, "didchange", "wait") /\ servers[p].up
  /\ SameServers
  /\ servers'[p].opens = servers[p].opens /\ servers'[p].version = seen[g] /\ servers'[p].up
  /\ \A q \in 1..Len(servers) : q # p => servers'[q] = servers[q]
  /\ clients' = clients /\ hand' = hand /\ seen' = seen /\ faults' = faults
  /\ entry' = entry /\ lost' = lost

\* A tool call has nothing in its hands any more.
Rests(g) ==
  /\ g \in Tools /\ Walks(g, "wait", "done")
  /\ hand' = [hand EXCEPT ![g] = 0] /\ seen' = [seen EXCEPT ![g] = 0]
  /\ clients' = clients /\ servers' = servers /\ faults' = faults /\ entry' = entry /\ lost' = lost

\* A process fails.
Breaks(p) ==
  /\ p \in 1..Len(servers) /\ servers[p].up
  /\ SameServers
  /\ \/ ~servers'[p].up
     \/ /\ servers'[p].up
        /\ servers'[p].opens = servers[p].opens /\ servers'[p].version = servers[p].version
  /\ \A q \in 1..Len(servers) : q # p => servers'[q] = servers[q]
  /\ faults' # 0 /\ faults' \in Nat
  /\ clients' = clients /\ hand' = hand /\ seen' = seen /\ pc' = pc /\ overlapped' = overlapped
  /\ entry' = entry /\ lost' = lost

Still ==
  /\ clients' = clients /\ servers' = servers /\ hand' = hand /\ seen' = seen /\ pc' = pc
  /\ overlapped' = overlapped /\ faults' = faults /\ entry' = entry /\ lost' = lost

Step ==
  \/ \E g \in LSP!Actors : \/ QuietStep(g) \/ Empties(g) \/ Stops(g) \/ Removes(g)
                       \/ \E b \in {"close", "shutdown", "ondemand", "done"} : Takes(g, b)
  \/ \E g \in Tools : \/ Makes(g) \/ Stores(g) \/ Opens(g) \/ (\E n \in Nat \ {0} : Notes(g, n))
                      \/ Changes(g) \/ Rests(g)
  \/ Revives
  \/ \E p \in 1..Len(servers) : Breaks(p)
  \/ Still

LEMMA NewMakes ==
  ASSUME TypeInv, NEW g \in Tools, LSP!New(g), pc'[g] = "compare"
  PROVE  Makes(g)
<1> USE KindsDiffer
<1> DEFINE e == [state |-> "stopped", server |-> Len(servers) + 1, open |-> 0, ctx |-> g]
<1>0. /\ g \in LSP!Actors /\ pc \in [LSP!Actors -> Labels] /\ servers \in Seq(Process)
      /\ clients \in Seq(Client)
  BY DEF TypeInv, DataInv, PlaceInv
<1>1. /\ pc[g] = "new" /\ clients' = Append(clients, e) /\ servers' = LSP!NewServer
      /\ hand' = [hand EXCEPT ![g] = Len(clients) + 1] /\ LSP!Goto(g, "compare") /\ faults' = faults
  BY <1>0 DEF LSP!New, LSP!Goto
<1>2. e \in Client
  BY <1>0 DEF Client, LSP!States
<1>3. /\ Append(clients, e) \in Seq(Client) /\ Len(Append(clients, e)) = Len(clients) + 1
      /\ \A c \in 1..Len(clients) : Append(clients, e)[c] = clients[c]
      /\ Append(clients, e)[Len(clients) + 1] = e
  BY <1>0, <1>2, AppendProperties
<1>4. entry' = entry /\ lost' = lost /\ seen' = seen
  BY DEF LSP!New, LSP!map
<1> HIDE DEF e
<1>5. e.server = Len(servers) + 1 /\ e.open = 0
  BY DEF e
<1> QED
  BY <1>1, <1>3, <1>4, <1>5, NewServerIs DEF Makes, Walks, LSP!Goto

LEMMA StoreStores ==
  ASSUME TypeInv, NEW g \in Tools, LSP!Store(g)
  PROVE  Stores(g)
BY DEF LSP!Store, Stores, Walks, LSP!Goto, LSP!documents, LSP!local, LSP!others

LEMMA WhoTakes ==
  ASSUME TypeInv, LSP!StopAll \/ LSP!KillAll \/ LSP!Restart \/ \E g \in Tools : LSP!Use(g)
  PROVE  \E g \in LSP!Actors, b \in {"close", "shutdown", "ondemand", "done"} : Takes(g, b)
<1> USE KindsDiffer
<1>1. CASE LSP!StopAll
  <2>1. Takes("stopper", "close")
    BY <1>1 DEF LSP!StopAll, Takes, Walks, LSP!Comes, LSP!Goto, LSP!documents, LSP!map, LSP!others
  <2> QED
    BY <2>1
<1>2. CASE LSP!KillAll
  <2>1. Takes("killer", "shutdown")
    BY <1>2 DEF LSP!KillAll, Takes, Walks, LSP!Comes, LSP!Goto, LSP!documents, LSP!map, LSP!others
  <2> QED
    BY <2>1
<1>3. CASE LSP!Restart
  <2>1. Takes("restarter", "close")
    BY <1>3 DEF LSP!Restart, Takes, Walks, LSP!Comes, LSP!Goto, LSP!documents, LSP!map, LSP!others
  <2> QED
    BY <2>1
<1>4. CASE \E g \in Tools : LSP!Use(g)
  <2>1. PICK g \in Tools : LSP!Use(g)
    BY <1>4
  <2>2. Takes(g, IF entry = 0 THEN "done" ELSE "ondemand")
    BY <2>1 DEF LSP!Use, Takes, Walks, LSP!Goto, LSP!documents, LSP!map, LSP!others
  <2> QED
    BY <2>2
<1> QED
  BY <1>1, <1>2, <1>3, <1>4

LEMMA CloseEmpties ==
  ASSUME TypeInv, NEW g \in LSP!Actors, LSP!CloseAllFiles(g),
         clients[hand[g]].open # 0, LSP!Server(hand[g]).up
  PROVE  Empties(g)
<1> DEFINE c == hand[g]
           p == clients[c].server
           e == [servers[p] EXCEPT !.opens = 0, !.version = 0]
<1>1. /\ pc[g] = "close" /\ clients' = [clients EXCEPT ![c].open = 0]
      /\ servers' = [servers EXCEPT ![p] = e] /\ LSP!Goto(g, "shutdown")
  BY DEF LSP!CloseAllFiles
<1>2. hand' = hand /\ seen' = seen /\ faults' = faults /\ entry' = entry /\ lost' = lost
  BY DEF LSP!CloseAllFiles, LSP!map, LSP!local, LSP!others
<1>3. c \in 1..Len(clients) /\ p \in 1..Len(servers)
  BY <1>1 DEF TypeInv, DataInv, PlaceInv, Handling
<1>4. servers[p] \in Process
  BY <1>3, ElementOfSeq DEF TypeInv, DataInv, PlaceInv
<1>5. e \in Process /\ e.up = servers[p].up /\ e.opens = 0 /\ e.version = 0
  BY <1>4 DEF Process
<1>6. /\ servers' \in Seq(Process) /\ Len(servers') = Len(servers)
      /\ servers'[p].opens = 0 /\ servers'[p].version = 0
      /\ servers'[p].up = servers[p].up
      /\ \A q \in 1..Len(servers) : q # p => servers'[q] = servers[q]
  <2> HIDE DEF e, p, c
  <2> QED
    BY <1>1, <1>3, <1>5, SetDocumentIs
<1>7. /\ clients' \in Seq(Client) /\ Len(clients') = Len(clients)
      /\ \A d \in 1..Len(clients) :
           /\ clients'[d].server = clients[d].server
           /\ clients'[d].open = IF d = c THEN 0 ELSE clients[d].open
           /\ clients'[d].state = clients[d].state
  <2> HIDE DEF e, p, c
  <2> QED
    BY <1>1, <1>3, SetOpenIs
<1> QED
  BY <1>1, <1>2, <1>3, <1>6, <1>7 DEF Empties, SameClients, SameServers, Walks, LSP!Goto, LSP!Server

LEMMA ShutdownStops ==
  ASSUME TypeInv, NEW g \in LSP!Actors, LSP!Shutdown(g)
  PROVE  Stops(g)
<1> DEFINE p == clients[hand[g]].server
<1>1. p \in 1..Len(servers)
  BY DEF LSP!Shutdown, TypeInv, DataInv, PlaceInv, Handling
<1>2. LSP!EndServer(p)
  BY DEF LSP!Shutdown
<1> HIDE DEF p
<1>3. /\ servers' \in Seq(Process) /\ Len(servers') = Len(servers)
      /\ ~servers'[p].up
      /\ \A q \in 1..Len(servers) : q # p => servers'[q] = servers[q]
  BY <1>1, <1>2, EndServerIs
<1> QED
  BY <1>1, <1>3 DEF LSP!Shutdown, Stops, SameServers, Walks, LSP!Goto, LSP!map, LSP!local, LSP!others, p

LEMMA DeleteRemoves ==
  ASSUME TypeInv, NEW g \in LSP!Actors, LSP!Delete(g)
  PROVE  Removes(g)
BY DEF LSP!Delete, Removes, Walks, LSP!Goto, LSP!documents, LSP!local, LSP!others

LEMMA RecreateRevives ==
  ASSUME TypeInv, LSP!Recreate, pc'["restarter"] = "reinit"
  PROVE  Revives
<1> USE KindsDiffer
<1> DEFINE c == hand["restarter"]
           e == [clients[c] EXCEPT !.server = Len(servers) + 1, !.state = "starting"]
<1>0. pc \in [LSP!Actors -> Labels] /\ clients \in Seq(Client) /\ servers \in Seq(Process)
  BY DEF TypeInv, DataInv, PlaceInv
<1>1. /\ pc["restarter"] = "recreate" /\ servers' = LSP!NewServer
      /\ clients' = [clients EXCEPT ![c] = e]
      /\ lost' = IF entry = c /\ ~\E g \in LSP!Actors \ {"restarter"} : LSP!Ends(g, c)
                 THEN lost ELSE lost \cup {"revived"}
      /\ LSP!Goto("restarter", "reinit") /\ faults' = faults
      /\ hand' = hand /\ seen' = seen /\ entry' = entry
  BY <1>0 DEF LSP!Recreate, LSP!Goto, LSP!local
<1>2. c \in 1..Len(clients)
  BY <1>1 DEF TypeInv, DataInv, PlaceInv, Handling
<1>3. clients[c] \in Client
  BY <1>2, ElementOfSeq DEF TypeInv, DataInv, PlaceInv
<1>4. /\ e \in Client /\ e.server = Len(servers) + 1 /\ e.state = "starting"
      /\ e.open = clients[c].open
  <2>1. Len(servers) + 1 \in Nat
    BY <1>0
  <2> QED
    BY <1>3, <2>1 DEF Client, LSP!States
<1>5. /\ clients' \in Seq(Client) /\ Len(clients') = Len(clients)
      /\ \A d \in 1..Len(clients) : clients'[d] = IF d = c THEN e ELSE clients[d]
  <2> HIDE DEF e, c
  <2> QED
    BY <1>0, <1>1, <1>2, <1>4, ReplaceItem
<1> HIDE DEF e
<1> QED
  BY <1>1, <1>4, <1>5, NewServerIs DEF Revives, Walks, LSP!Goto

LEMMA DidOpenOpens ==
  ASSUME TypeInv, NEW g \in Tools, LSP!DidOpen(g), LSP!Server(hand[g]).up
  PROVE  Opens(g)
<1> USE KindsDiffer
<1> DEFINE p == clients[hand[g]].server
           e == [servers[p] EXCEPT !.opens = servers[p].opens + 1, !.version = 1]
<1>1. /\ pc[g] = "open" /\ servers' = [servers EXCEPT ![p] = e] /\ LSP!Goto(g, "noteopen")
      /\ clients' = clients /\ hand' = hand /\ seen' = seen /\ faults' = faults
      /\ entry' = entry /\ lost' = lost
  BY DEF LSP!DidOpen, LSP!Misses, LSP!map, LSP!local, LSP!others
<1>2. p \in 1..Len(servers)
  BY <1>1 DEF TypeInv, DataInv, PlaceInv, Handling
<1>3. servers[p] \in Process
  BY <1>2, ElementOfSeq DEF TypeInv, DataInv, PlaceInv
<1>4. e \in Process /\ e.up = servers[p].up /\ e.opens = servers[p].opens + 1 /\ e.version = 1
  <2> HIDE DEF p
  <2>1. servers[p].opens + 1 \in Nat
    BY <1>3 DEF Process
  <2> QED
    BY <1>3, <2>1 DEF Process
<1>5. /\ servers' \in Seq(Process) /\ Len(servers') = Len(servers)
      /\ servers'[p].opens = e.opens /\ servers'[p].version = e.version
      /\ servers'[p].up = servers[p].up
      /\ \A q \in 1..Len(servers) : q # p => servers'[q] = servers[q]
  <2> HIDE DEF e, p
  <2> QED
    BY <1>1, <1>2, <1>4, SetDocumentIs
<1> QED
  BY <1>1, <1>4, <1>5 DEF Opens, SameServers, Walks, LSP!Goto, LSP!Server

LEMMA WhoNotes ==
  ASSUME TypeInv, NEW g \in Tools,
         LSP!NoteOpen(g) \/ (LSP!NextVersion(g) /\ clients[hand[g]].open # 0)
  PROVE  \E n \in Nat \ {0} : Notes(g, n)
<1> USE KindsDiffer
<1> DEFINE c == hand[g]
<1>1. /\ servers' = servers /\ hand' = hand /\ faults' = faults /\ entry' = entry /\ lost' = lost
      /\ pc[g] \in {"noteopen", "change"}
  BY DEF LSP!NoteOpen, LSP!NextVersion, LSP!map, LSP!local, LSP!others
<1>2. c \in 1..Len(clients)
  BY <1>1 DEF TypeInv, DataInv, PlaceInv, Handling
<1>3. clients[c].open \in Nat
  <2>1. clients[c] \in Client
    BY <1>2, ElementOfSeq DEF TypeInv, DataInv, PlaceInv
  <2> QED
    BY <2>1 DEF Client
<1>4. ASSUME NEW n \in Nat, clients' = [clients EXCEPT ![c].open = n]
      PROVE  SameClients /\ \A d \in 1..Len(clients) :
                              clients'[d].open = IF d = c THEN n ELSE clients[d].open
  <2> HIDE DEF c
  <2>1. /\ clients' \in Seq(Client) /\ Len(clients') = Len(clients)
        /\ \A d \in 1..Len(clients) :
             /\ clients'[d].server = clients[d].server
             /\ clients'[d].open = IF d = c THEN n ELSE clients[d].open
             /\ clients'[d].state = clients[d].state
    BY <1>2, <1>4, SetOpenIs
  <2> QED
    BY <2>1 DEF SameClients
<1>5. CASE LSP!NoteOpen(g)
  <2>1. clients' = [clients EXCEPT ![c].open = 1] /\ seen' = seen /\ Walks(g, "noteopen", "change")
    BY <1>5 DEF LSP!NoteOpen, LSP!local, Walks, LSP!Goto
  <2>2. Notes(g, 1)
    BY <1>1, <1>4, <2>1 DEF Notes
  <2> QED
    BY <2>2
<1>6. CASE LSP!NextVersion(g) /\ clients[hand[g]].open # 0
  <2>1. /\ clients' = [clients EXCEPT ![c].open = clients[c].open + 1]
        /\ seen' = [seen EXCEPT ![g] = clients[c].open + 1] /\ Walks(g, "change", "didchange")
    BY <1>6 DEF LSP!NextVersion, Walks, LSP!Goto
  <2> DEFINE n == clients[c].open + 1
  <2>2. n \in Nat \ {0}
    BY <1>3
  <2>3. SameClients /\ \A d \in 1..Len(clients) :
                         clients'[d].open = IF d = c THEN n ELSE clients[d].open
    BY <1>4, <2>1, <2>2
  <2>4. Notes(g, n)
    BY <1>1, <1>6, <2>1, <2>3 DEF Notes
  <2> QED
    BY <2>2, <2>4
<1> QED
  BY <1>5, <1>6

LEMMA DidChangeChanges ==
  ASSUME TypeInv, NEW g \in Tools, LSP!DidChange(g), LSP!Server(hand[g]).up
  PROVE  Changes(g)
<1> USE KindsDiffer
<1> DEFINE p == clients[hand[g]].server
           e == [servers[p] EXCEPT !.version = seen[g]]
<1>1. /\ pc[g] = "didchange" /\ servers' = [servers EXCEPT ![p] = e] /\ LSP!Goto(g, "wait")
      /\ clients' = clients /\ hand' = hand /\ seen' = seen /\ faults' = faults
      /\ entry' = entry /\ lost' = lost
  BY DEF LSP!DidChange, LSP!Misses, LSP!map, LSP!local, LSP!others
<1>2. p \in 1..Len(servers)
  BY <1>1 DEF TypeInv, DataInv, PlaceInv, Handling
<1>3. servers[p] \in Process
  BY <1>2, ElementOfSeq DEF TypeInv, DataInv, PlaceInv
<1>4. e \in Process /\ e.up = servers[p].up /\ e.opens = servers[p].opens /\ e.version = seen[g]
  BY <1>3 DEF Process, TypeInv, DataInv, PlaceInv
<1>5. /\ servers' \in Seq(Process) /\ Len(servers') = Len(servers)
      /\ servers'[p].opens = e.opens /\ servers'[p].version = e.version
      /\ servers'[p].up = servers[p].up
      /\ \A q \in 1..Len(servers) : q # p => servers'[q] = servers[q]
  <2> HIDE DEF e, p
  <2> QED
    BY <1>1, <1>2, <1>4, SetDocumentIs
<1> QED
  BY <1>1, <1>4, <1>5 DEF Changes, SameServers, Walks, LSP!Goto, LSP!Server

LEMMA WaitRests ==
  ASSUME TypeInv, NEW g \in Tools, LSP!WaitForDiagnostics(g)
  PROVE  Rests(g)
BY DEF LSP!WaitForDiagnostics, Rests, Walks, LSP!Goto, LSP!documents, LSP!map, LSP!others

LEMMA FailureBreaks ==
  ASSUME TypeInv, NEW p \in 1..Len(servers), LSP!Crash(p) \/ LSP!Hang(p)
  PROVE  Breaks(p)
<1>1. /\ faults \in Nat /\ faults' = faults + 1 /\ servers[p].up
      /\ clients' = clients /\ hand' = hand /\ seen' = seen /\ pc' = pc
      /\ overlapped' = overlapped /\ entry' = entry /\ lost' = lost
  BY DEF TypeInv, DataInv, PlaceInv, LSP!Crash, LSP!Hang, LSP!Fault, LSP!map, LSP!local
<1>2. CASE LSP!Crash(p)
  <2>1. LSP!EndServer(p)
    BY <1>2 DEF LSP!Crash
  <2> QED
    BY <1>1, <2>1, EndServerIs DEF Breaks, SameServers
<1>3. CASE LSP!Hang(p)
  <2> DEFINE e == [servers[p] EXCEPT !.hung = TRUE]
  <2>1. servers' = [servers EXCEPT ![p] = e]
    BY <1>3 DEF LSP!Hang
  <2>2. servers[p] \in Process
    BY ElementOfSeq DEF TypeInv, DataInv, PlaceInv
  <2>3. /\ e \in Process /\ e.up = servers[p].up /\ e.opens = servers[p].opens
        /\ e.version = servers[p].version
    BY <2>2 DEF Process
  <2> HIDE DEF e
  <2>4. /\ servers' \in Seq(Process) /\ Len(servers') = Len(servers)
        /\ servers'[p].opens = e.opens /\ servers'[p].version = e.version
        /\ servers'[p].up = servers[p].up
        /\ \A q \in 1..Len(servers) : q # p => servers'[q] = servers[q]
    BY <2>1, <2>3, SetDocumentIs
  <2> QED
    BY <1>1, <2>3, <2>4 DEF Breaks, SameServers
<1> QED
  BY <1>2, <1>3

\* Every step is one of these.
LEMMA NextIsStep ==
  ASSUME TypeInv, [LSP!Next]_(LSP!vars)
  PROVE  Step
<1> USE KindsDiffer
<1>0. servers \in Seq(Process) /\ DOMAIN servers = 1..Len(servers)
  BY DEF TypeInv, DataInv, PlaceInv
<1>1. ASSUME NEW g \in Tools, LSP!Start(g)
      PROVE  Step
  BY <1>1, ToolIsQuiet, ToolIsQuietToo, NewMakes, StoreStores DEF LSP!Start, Step
<1>2. ASSUME NEW g \in Tools, LSP!Notify(g)
      PROVE  Step
  BY <1>2, ToolIsQuiet, ToolIsQuietToo, WhoTakes, DidOpenOpens, WhoNotes, DidChangeChanges, WaitRests
     DEF LSP!Notify, Step
<1>3. ASSUME NEW g \in Tools, LSP!EndContext(g)
      PROVE  Step
  BY <1>3 DEF LSP!EndContext, Step, Still, LSP!documents, LSP!map, LSP!local
<1>4. ASSUME NEW g \in LSP!Actors, LSP!Close(g)
      PROVE  Step
  BY <1>4, CloseIsQuiet, CloseEmpties, ShutdownStops, DeleteRemoves DEF LSP!Close, Step
<1>5. CASE LSP!StopAll \/ LSP!KillAll \/ LSP!Restart
  BY <1>5, WhoTakes DEF Step
<1>6. CASE LSP!Recreate \/ LSP!Reinitialize \/ LSP!BecomeReadyAgain
  BY <1>6, RestartIsQuiet, RecreateRevives DEF Step
<1>7. ASSUME NEW p \in DOMAIN servers, LSP!Crash(p) \/ LSP!Hang(p)
      PROVE  Step
  BY <1>0, <1>7, FailureBreaks DEF Step
<1>8. CASE UNCHANGED LSP!vars
  BY <1>8 DEF LSP!vars, Step, Still
<1> QED
  BY <1>1, <1>2, <1>3, <1>4, <1>5, <1>6, <1>7, <1>8 DEF LSP!Next

-----------------------------------------------------------------------------
(* The invariant is kept *)

\* A step moves a goroutine, or none.
LEMMA OneMoves ==
  ASSUME [LSP!Next]_(LSP!vars)
  PROVE  \/ \E g \in LSP!Actors, l \in Labels : LSP!Goto(g, l)
         \/ overlapped' = overlapped /\ pc' = pc
<1> USE KindsDiffer
<1>1. ASSUME NEW g \in Tools, LSP!Start(g) \/ LSP!Notify(g)
      PROVE  \E l \in Labels : LSP!Goto(g, l)
  BY <1>1 DEF LSP!Start, LSP!StartServer, LSP!CheckAgain, LSP!New, LSP!Compare, LSP!Store, LSP!MarkStarting, LSP!Initialize, LSP!BecomeReady,
     LSP!Notify, LSP!Use, LSP!OpenFileOnDemand, LSP!DidOpen, LSP!NoteOpen, LSP!NextVersion, LSP!DidChange, LSP!WaitForDiagnostics,
     Labels, ToolLabels
<1>2. ASSUME NEW g \in LSP!Actors, LSP!Close(g)
      PROVE  \E l \in Labels : LSP!Goto(g, l)
  BY <1>2 DEF LSP!Close, LSP!CloseAllFiles, LSP!Shutdown, LSP!MarkStopped, LSP!Delete, LSP!Tell, LSP!AfterShutdown, Labels, ToolLabels,
     RestarterLabels
<1>3. ASSUME LSP!StopAll \/ LSP!KillAll \/ LSP!Restart \/ LSP!Recreate \/ LSP!Reinitialize \/ LSP!BecomeReadyAgain
      PROVE  \E g \in LSP!Actors, l \in Labels : LSP!Goto(g, l)
  BY <1>3 DEF LSP!StopAll, LSP!KillAll, LSP!Restart, LSP!Recreate, LSP!Reinitialize, LSP!BecomeReadyAgain, Labels, ToolLabels,
     RestarterLabels
<1>4. CASE \/ \E g \in Tools : LSP!EndContext(g)
           \/ \E p \in DOMAIN servers : LSP!Crash(p) \/ LSP!Hang(p)
           \/ UNCHANGED LSP!vars
  BY <1>4 DEF LSP!EndContext, LSP!Crash, LSP!Hang, LSP!vars
<1> QED
  BY <1>1, <1>2, <1>3, <1>4 DEF LSP!Next

\* What was noted stays noted.
LEMMA HistoriesGrow ==
  ASSUME TypeInv, [LSP!Next]_(LSP!vars)
  PROVE  overlapped \subseteq overlapped' /\ lost \subseteq lost' /\ (faults' = 0 => faults = 0)
<1>1. overlapped \subseteq overlapped'
  BY OneMoves, GotoMonotone
<1>2. lost \subseteq lost' /\ (faults' = 0 => faults = 0)
  BY NextIsStep DEF Step, QuietStep, Quiet, Keeps, Empties, Stops, Removes, Takes, Makes, Stores, Opens,
     Notes, Changes, Rests, Revives, Breaks, Still
<1> QED
  BY <1>1, <1>2

LEMMA CrowdIsKept ==
  ASSUME TypeInv, CrowdInv, [LSP!Next]_(LSP!vars)
  PROVE  CrowdInv'
<1>1. pc \in [LSP!Actors -> Labels]
  BY DEF TypeInv, PlaceInv
<1>2. CASE overlapped' = overlapped /\ pc' = pc
  BY <1>2 DEF CrowdInv, Alone, NoManagerMet, Works
<1> QED
  BY <1>1, <1>2, OneMoves, GotoKeepsCrowd

LEMMA DataIsKept ==
  ASSUME TypeInv, [LSP!Next]_(LSP!vars)
  PROVE  DataInv'
<1> USE KindsDiffer
<1>1. ASSUME NEW g \in LSP!Actors, QuietStep(g)
      PROVE  DataInv'
  BY <1>1 DEF TypeInv, DataInv, QuietStep, Quiet, Keeps, Sees
<1>2. ASSUME NEW g \in LSP!Actors, Empties(g) \/ Stops(g) \/ Removes(g)
      PROVE  DataInv'
  <2>1. CASE Empties(g)
    BY <2>1 DEF TypeInv, DataInv, Empties, SameClients, SameServers
  <2>2. CASE Stops(g)
    BY <2>2 DEF TypeInv, DataInv, Stops, SameServers
  <2>3. CASE Removes(g)
    BY <2>3 DEF TypeInv, DataInv, Removes
  <2> QED
    BY <1>2, <2>1, <2>2, <2>3
<1>3. ASSUME NEW g \in LSP!Actors, NEW b, Takes(g, b)
      PROVE  DataInv'
  BY <1>3 DEF TypeInv, DataInv, Takes
<1>4. ASSUME NEW g \in Tools, Makes(g)
      PROVE  DataInv'
  <2>1. /\ clients \in Seq(Client) /\ servers \in Seq(Process)
        /\ \A c \in 1..Len(clients) : clients[c].server \in 1..Len(servers)
    BY DEF TypeInv, DataInv
  <2>2. \A c \in 1..Len(clients') : clients'[c].server \in 1..Len(servers')
    BY <1>4, <2>1 DEF Makes
  <2>3. /\ clients' \in Seq(Client) /\ servers' \in Seq(Process) /\ Len(clients) \in Nat
        /\ Len(clients') = Len(clients) + 1
    BY <1>4, <2>1 DEF Makes
  <2>4. /\ entry' \in 0..Len(clients') /\ seen' \in [LSP!Actors -> Nat] /\ faults' \in Nat
        /\ hand' \in [LSP!Actors -> 0..Len(clients')]
    BY <1>4, <2>3 DEF Makes, TypeInv, DataInv
  <2> QED
    BY <2>2, <2>3, <2>4 DEF DataInv
<1>5. ASSUME NEW g \in Tools, Stores(g) \/ Opens(g) \/ Changes(g) \/ Rests(g)
      PROVE  DataInv'
  <2>1. CASE Stores(g)
    BY <2>1 DEF TypeInv, DataInv, Stores
  <2>2. CASE Opens(g) \/ Changes(g)
    BY <2>2 DEF TypeInv, DataInv, Opens, Changes, SameServers
  <2>3. CASE Rests(g)
    BY <2>3 DEF TypeInv, DataInv, Rests
  <2> QED
    BY <1>5, <2>1, <2>2, <2>3
<1>6. ASSUME NEW g \in Tools, NEW n \in Nat \ {0}, Notes(g, n)
      PROVE  DataInv'
  <2>1. seen' \in [LSP!Actors -> Nat]
    BY <1>6 DEF TypeInv, DataInv, Notes
  <2>2. /\ clients' \in Seq(Client) /\ Len(clients') = Len(clients)
        /\ \A c \in 1..Len(clients) : clients'[c].server = clients[c].server
        /\ servers' = servers /\ hand' = hand /\ faults' = faults /\ entry' = entry
    BY <1>6 DEF Notes, SameClients
  <2> QED
    BY <2>1, <2>2 DEF TypeInv, DataInv
<1>7. CASE Revives
  BY <1>7 DEF TypeInv, DataInv, Revives
<1>8. ASSUME NEW p \in 1..Len(servers), Breaks(p)
      PROVE  DataInv'
  BY <1>8 DEF TypeInv, DataInv, Breaks, SameServers
<1>9. CASE Still
  BY <1>9 DEF TypeInv, DataInv, Still
<1> QED
  BY NextIsStep, <1>1, <1>2, <1>3, <1>4, <1>5, <1>6, <1>7, <1>8, <1>9 DEF Step

\* Goroutine g goes on at a place where its kind may be, with a client if it needs one.
LEMMA WalkKeepsPlace ==
  ASSUME PlaceInv, NEW g \in LSP!Actors, NEW b, pc' = [pc EXCEPT ![g] = b],
         b \in IF g \in Tools THEN ToolLabels
               ELSE IF g = "restarter" THEN RestarterLabels ELSE StopperLabels,
         \A h \in LSP!Actors \ {g} : hand'[h] = hand[h],
         b \in Handling => hand'[g] # 0
  PROVE  PlaceInv'
BY KindsDiffer DEF PlaceInv, Labels, ToolLabels, RestarterLabels, StopperLabels

LEMMA PlaceIsKept ==
  ASSUME TypeInv, [LSP!Next]_(LSP!vars)
  PROVE  PlaceInv'
<1> USE KindsDiffer
<1>1. ASSUME NEW g \in LSP!Actors, QuietStep(g)
      PROVE  PlaceInv'
  <2>1. PICK a \in Labels, b \in Labels : Quiet(g, a, b)
    BY <1>1 DEF QuietStep
  <2>2. b \in IF g \in Tools THEN ToolLabels
              ELSE IF g = "restarter" THEN RestarterLabels ELSE StopperLabels
    BY <2>1 DEF Quiet, Moves, ToolMove, RestarterMove, StopperMove, ToolLabels, RestarterLabels,
       StopperLabels
  <2>3. b \in Handling => a \in Handling
    BY <2>1 DEF Quiet, Moves, ToolMove, RestarterMove, StopperMove, Handling
  <2> QED
    BY <2>1, <2>2, <2>3, WalkKeepsPlace DEF Quiet, Moves, Keeps, TypeInv, PlaceInv
<1>2. ASSUME NEW g \in LSP!Actors, Empties(g) \/ Stops(g) \/ Removes(g)
      PROVE  PlaceInv'
  <2>1. PICK b : /\ pc' = [pc EXCEPT ![g] = b] /\ hand' = hand
                 /\ b \in {"shutdown", "stopped", "tell", "delete"}
                 /\ pc[g] \in {"close", "shutdown", "delete"}
                 /\ g \in Tools => b # "stopped"
                 /\ g \notin Tools => b # "delete" /\ (b = "tell" => pc[g] = "delete")
    BY <1>2 DEF Empties, Stops, Removes, Walks, LSP!AfterShutdown
  <2>2. b \in IF g \in Tools THEN ToolLabels
              ELSE IF g = "restarter" THEN RestarterLabels ELSE StopperLabels
    BY <2>1 DEF TypeInv, PlaceInv, ToolLabels, RestarterLabels, StopperLabels
  <2> QED
    BY <2>1, <2>2, WalkKeepsPlace DEF TypeInv, PlaceInv, Handling
<1>3. ASSUME NEW g \in LSP!Actors, NEW b, Takes(g, b)
      PROVE  PlaceInv'
  <2>1. /\ pc' = [pc EXCEPT ![g] = b] /\ hand' = [hand EXCEPT ![g] = entry]
        /\ b \in Handling => entry # 0
        /\ b \in IF g \in Tools THEN ToolLabels
                 ELSE IF g = "restarter" THEN RestarterLabels ELSE StopperLabels
    BY <1>3 DEF Takes, Walks, ToolLabels, RestarterLabels, StopperLabels, Handling
  <2> QED
    BY <2>1, WalkKeepsPlace DEF TypeInv, PlaceInv, DataInv
<1>4. ASSUME NEW g \in Tools, Makes(g) \/ Stores(g) \/ Opens(g) \/ Changes(g) \/ Rests(g)
                              \/ \E n \in Nat \ {0} : Notes(g, n)
      PROVE  PlaceInv'
  <2>1. PICK b : pc' = [pc EXCEPT ![g] = b] /\ b \in ToolLabels
    BY <1>4 DEF Makes, Stores, Opens, Changes, Rests, Notes, Walks, ToolLabels
  <2>2. hand'[g] # 0 \/ pc'[g] = "done"
    BY <1>4 DEF Makes, Stores, Opens, Changes, Rests, Notes, Walks, TypeInv, DataInv, PlaceInv, Handling
  <2>3. \A h \in LSP!Actors \ {g} : hand'[h] = hand[h]
    BY <1>4 DEF Makes, Stores, Opens, Changes, Rests, Notes, TypeInv, DataInv
  <2>4. b \in Handling => b # "done" /\ pc'[g] = b
    BY <2>1 DEF TypeInv, PlaceInv, Handling
  <2> QED
    BY <2>1, <2>2, <2>3, <2>4, WalkKeepsPlace DEF TypeInv
<1>5. CASE Revives
  <2>1. hand' = hand /\ pc' = [pc EXCEPT !["restarter"] = "reinit"] /\ pc["restarter"] = "recreate"
    BY <1>5 DEF Revives, Walks
  <2>2. hand'["restarter"] # 0 /\ "reinit" \in RestarterLabels
    BY <2>1 DEF TypeInv, PlaceInv, Handling, RestarterLabels
  <2> QED
    BY <2>1, <2>2, WalkKeepsPlace DEF TypeInv
<1>6. CASE (\E p \in 1..Len(servers) : Breaks(p)) \/ Still
  BY <1>6 DEF TypeInv, PlaceInv, Breaks, Still
<1> QED
  BY NextIsStep, <1>1, <1>2, <1>3, <1>4, <1>5, <1>6 DEF Step

LEMMA TypeIsKept ==
  ASSUME TypeInv, [LSP!Next]_(LSP!vars)
  PROVE  TypeInv'
BY DataIsKept, PlaceIsKept DEF TypeInv

\* Two clients never have the same process.
LEMMA DistinctIsKept ==
  ASSUME TypeInv, DistinctInv, [LSP!Next]_(LSP!vars)
  PROVE  DistinctInv'
<1> USE KindsDiffer
<1>0. \A c \in 1..Len(clients) : clients[c].server \in 1..Len(servers)
  BY DEF TypeInv, DataInv
<1>1. CASE /\ Len(clients') = Len(clients)
           /\ \A c \in 1..Len(clients) : clients'[c].server = clients[c].server
  BY <1>1 DEF DistinctInv
<1>2. ASSUME NEW g \in Tools, Makes(g)
      PROVE  DistinctInv'
  <2>1. clients \in Seq(Client) /\ servers \in Seq(Process)
    BY DEF TypeInv, DataInv
  <2> QED
    BY <1>0, <1>2, <2>1 DEF Makes, DistinctInv
<1>3. CASE Revives
  <2>1. clients \in Seq(Client) /\ servers \in Seq(Process)
    BY DEF TypeInv, DataInv
  <2>2. PICK r : r = hand["restarter"]
    OBVIOUS
  <2>3. /\ Len(clients') = Len(clients)
        /\ \A d \in 1..Len(clients) \ {r} : clients'[d].server = clients[d].server
        /\ r \in 1..Len(clients) => clients'[r].server = Len(servers) + 1
    BY <1>3, <2>2 DEF Revives
  <2>4. \A d \in 1..Len(clients) : clients[d].server # Len(servers) + 1
    BY <1>0, <2>1
  <2> QED
    BY <2>3, <2>4 DEF DistinctInv
<1>4. ASSUME NEW g \in LSP!Actors, \/ QuietStep(g) \/ Empties(g) \/ Stops(g) \/ Removes(g)
                               \/ \E b : Takes(g, b)
      PROVE  DistinctInv'
  BY <1>1, <1>4 DEF QuietStep, Quiet, Keeps, Empties, Stops, Removes, Takes, SameClients
<1>5. ASSUME NEW g \in Tools, \/ Stores(g) \/ Opens(g) \/ Changes(g) \/ Rests(g)
                              \/ \E n : Notes(g, n)
      PROVE  DistinctInv'
  BY <1>1, <1>5 DEF Stores, Opens, Changes, Rests, Notes, SameClients
<1>6. CASE (\E p \in 1..Len(servers) : Breaks(p)) \/ Still
  BY <1>1, <1>6 DEF Breaks, Still
<1> QED
  BY NextIsStep, <1>2, <1>3, <1>4, <1>5, <1>6 DEF Step

\* Nobody has the client that another is about to store.
LEMMA UnsharedIsKept ==
  ASSUME TypeInv, DistinctInv, UnsharedInv, [LSP!Next]_(LSP!vars)
  PROVE  UnsharedInv'
<1> USE KindsDiffer
<1>0. /\ pc \in [LSP!Actors -> Labels] /\ hand \in [LSP!Actors -> 0..Len(clients)] /\ seen \in [LSP!Actors -> Nat]
      /\ clients \in Seq(Client) /\ servers \in Seq(Process)
      /\ \A c \in 1..Len(clients) : clients[c].server \in 1..Len(servers)
      /\ entry \in 0..Len(clients)
      /\ \A h \in LSP!Actors : pc[h] \in Handling => hand[h] # 0
      /\ \A h \in LSP!Actors : Unshared(h) => hand[h] \in 1..Len(clients)
  BY DEF TypeInv, DataInv, PlaceInv, Handling, Unshared
<1>1. ASSUME NEW g \in LSP!Actors, QuietStep(g)
      PROVE  UnsharedInv'
  <2>1. PICK a \in Labels, b \in Labels : Quiet(g, a, b)
    BY <1>1 DEF QuietStep
  <2>2. \A h \in LSP!Actors \ {g} : pc'[h] = pc[h] /\ seen'[h] = seen[h]
    BY <1>0, <2>1 DEF Quiet, Moves, Sees
  <2>3. \A h \in Tools : pc'[h] \in {"store", "mark", "init", "ready"} => seen'[h] = 0
    BY <1>0, <2>1, <2>2 DEF Quiet, Moves, Sees, Knows, ToolMove, UnsharedInv
  <2>4. \A h \in LSP!Actors : Unshared(h)' => Unshared(h)
    BY <1>0, <2>1, <2>2, <2>3 DEF Quiet, Moves, Sees, Knows, ToolMove, UnsharedInv, Unshared
  <2>5. \A h \in LSP!Actors : pc'[h] \in {"compare", "store"} => pc[h] \in {"compare", "store"}
    BY <1>0, <2>1, <2>2 DEF Quiet, Moves, ToolMove, RestarterMove, StopperMove
  <2>6. \A h \in LSP!Actors : Unshared(h) =>
          clients'[hand[h]].open = 0 /\ LSP!Server(hand[h])' = LSP!Server(hand[h])
    BY <1>0, <2>1 DEF Quiet, Keeps, UnsharedInv, LSP!Server
  <2>7. entry' = entry /\ hand' = hand /\ (faults' = 0 => faults = 0)
    BY <2>1 DEF Quiet, Keeps
  <2> QED
    BY <2>3, <2>4, <2>5, <2>6, <2>7 DEF UnsharedInv
<1>2. ASSUME NEW g \in LSP!Actors, Empties(g)
      PROVE  UnsharedInv'
  <2>1. \A h \in LSP!Actors : Unshared(h)' => Unshared(h)
    BY <1>0, <1>2 DEF Empties, Walks, Unshared
  <2>2. \A h \in LSP!Actors : pc'[h] \in {"compare", "store", "mark", "init", "ready"} => pc'[h] = pc[h]
    BY <1>0, <1>2 DEF Empties, Walks
  <2>3. ASSUME NEW h \in LSP!Actors, Unshared(h)
        PROVE  clients'[hand[h]].open = 0 /\ (LSP!Server(hand[h])'.up <=> LSP!Server(hand[h]).up)
    <3>1. PICK c \in 1..Len(clients) : c = hand[h]
      BY <1>0, <2>3
    <3>2. clients[c].open = 0 /\ clients[c].server \in 1..Len(servers)
      BY <1>0, <2>3, <3>1 DEF UnsharedInv
    <3>3. clients'[c].open = 0
      BY <1>2, <3>2 DEF Empties
    <3>4. clients'[c].server = clients[c].server
      BY <1>2 DEF Empties, SameClients
    <3>5. servers'[clients[c].server].up = servers[clients[c].server].up
      BY <1>2, <3>2 DEF Empties
    <3>6. hand' = hand
      BY <1>2 DEF Empties
    <3> QED
      BY <3>1, <3>3, <3>4, <3>5, <3>6 DEF LSP!Server
  <2>4. entry' = entry /\ hand' = hand /\ seen' = seen /\ faults' = faults
    BY <1>2 DEF Empties
  <2> QED
    BY <2>1, <2>2, <2>3, <2>4 DEF UnsharedInv
<1>3. ASSUME NEW g \in LSP!Actors, Stops(g)
      PROVE  UnsharedInv'
  <2>1. \A h \in LSP!Actors : Unshared(h)' => Unshared(h) /\ h # g
    BY <1>0, <1>3 DEF Stops, Walks, Unshared, LSP!AfterShutdown
  <2>2. \A h \in LSP!Actors : pc'[h] \in {"compare", "store", "mark", "init", "ready"} => pc'[h] = pc[h]
    BY <1>0, <1>3 DEF Stops, Walks, LSP!AfterShutdown
  <2>3. hand[g] \in 1..Len(clients)
    BY <1>0, <1>3 DEF Stops, Walks, Handling
  <2>4. \A h \in LSP!Actors : Unshared(h)' => clients[hand[h]].server # clients[hand[g]].server
    BY <1>0, <2>1, <2>3 DEF UnsharedInv, DistinctInv
  <2>5. /\ clients' = clients /\ hand' = hand /\ seen' = seen /\ faults' = faults /\ entry' = entry
        /\ \A p \in 1..Len(servers) : p # clients[hand[g]].server => servers'[p] = servers[p]
    BY <1>3 DEF Stops
  <2>6. ASSUME NEW h \in LSP!Actors, Unshared(h)'
        PROVE  /\ entry' # hand'[h] /\ clients'[hand'[h]].open = 0
               /\ \A i \in LSP!Actors \ {h} : hand'[i] # hand'[h]
               /\ pc'[h] \in {"compare", "store"} /\ faults' = 0 => LSP!Server(hand[h])'.up
    <3>1. Unshared(h)
      BY <2>1, <2>6
    <3>2. hand[h] \in 1..Len(clients) /\ clients[hand[h]].server \in 1..Len(servers)
      BY <1>0, <3>1
    <3>3. LSP!Server(hand[h])' = LSP!Server(hand[h])
      BY <2>4, <2>5, <2>6, <3>2 DEF LSP!Server
    <3>4. pc'[h] \in {"compare", "store"} => pc'[h] = pc[h]
      BY <2>2
    <3> QED
      BY <2>5, <3>1, <3>3, <3>4 DEF UnsharedInv
  <2>7. \A h \in Tools : pc'[h] \in {"store", "mark", "init", "ready"} => seen'[h] = 0
    BY <2>2, <2>5 DEF UnsharedInv
  <2> QED
    BY <2>5, <2>6, <2>7 DEF UnsharedInv
<1>4. ASSUME NEW g \in LSP!Actors, Removes(g)
      PROVE  UnsharedInv'
  <2>1. \A h \in LSP!Actors : Unshared(h)' => Unshared(h)
    BY <1>0, <1>4 DEF Removes, Walks, Unshared
  <2>2. \A h \in LSP!Actors : pc'[h] \in {"compare", "store", "mark", "init", "ready"} => pc'[h] = pc[h]
    BY <1>0, <1>4 DEF Removes, Walks
  <2> QED
    BY <1>0, <1>4, <2>1, <2>2 DEF Removes, UnsharedInv, LSP!Server
<1>5. ASSUME NEW g \in LSP!Actors, NEW b, Takes(g, b)
      PROVE  UnsharedInv'
  <2>1. \A h \in LSP!Actors : Unshared(h)' => Unshared(h) /\ h # g
    BY <1>0, <1>5 DEF Takes, Walks, Unshared
  <2>2. \A h \in LSP!Actors : pc'[h] \in {"compare", "store", "mark", "init", "ready"} => pc'[h] = pc[h]
    BY <1>0, <1>5 DEF Takes, Walks
  <2> QED
    BY <1>0, <1>5, <2>1, <2>2 DEF Takes, UnsharedInv, LSP!Server
<1>6. ASSUME NEW g \in Tools, Makes(g)
      PROVE  UnsharedInv'
  <2>1. \A h \in LSP!Actors : Unshared(h)' => h = g \/ Unshared(h)
    BY <1>0, <1>6 DEF Makes, Walks, Unshared
  <2>2. \A h \in LSP!Actors \ {g} : pc'[h] = pc[h] /\ hand'[h] = hand[h] /\ hand[h] # Len(clients) + 1
    BY <1>0, <1>6 DEF Makes, Walks
  <2>3. pc'[g] = "compare" /\ hand'[g] = Len(clients) + 1 /\ entry' # hand'[g]
    BY <1>0, <1>6 DEF Makes, Walks
  <2>4. /\ clients'[hand'[g]].open = 0 /\ LSP!Server(hand[g])'.up
        /\ \A h \in LSP!Actors : Unshared(h) => clients'[hand[h]] = clients[hand[h]]
        /\ \A h \in LSP!Actors : Unshared(h) => servers'[clients[hand[h]].server] = LSP!Server(hand[h])
    BY <1>0, <1>6, <2>3 DEF Makes, LSP!Server
  <2>5. ASSUME NEW h \in LSP!Actors \ {g}, Unshared(h)'
        PROVE  /\ entry' # hand'[h] /\ clients'[hand'[h]].open = 0
               /\ \A i \in LSP!Actors \ {h} : hand'[i] # hand'[h]
               /\ pc'[h] \in {"compare", "store"} /\ faults' = 0 => LSP!Server(hand[h])'.up
    <3>1. Unshared(h)
      BY <2>1, <2>5
    <3>2. \A i \in LSP!Actors \ {h} : hand[i] # hand[h]
      BY <3>1 DEF UnsharedInv
    <3>3. \A i \in LSP!Actors \ {h} : hand'[i] # hand'[h]
      BY <1>0, <2>2, <2>3, <3>1, <3>2
    <3> QED
      BY <1>6, <2>2, <2>4, <3>1, <3>3 DEF Makes, UnsharedInv, LSP!Server
  <2>6. \A i \in LSP!Actors \ {g} : hand'[i] # hand'[g]
    BY <2>2, <2>3
  <2>7. \A h \in Tools : pc'[h] \in {"store", "mark", "init", "ready"} => seen'[h] = 0
    BY <1>6, <2>2, <2>3 DEF Makes, UnsharedInv
  <2> QED
    BY <2>3, <2>4, <2>5, <2>6, <2>7 DEF UnsharedInv
<1>7. ASSUME NEW g \in Tools, Stores(g)
      PROVE  UnsharedInv'
  <2>1. \A h \in LSP!Actors : Unshared(h)' => Unshared(h) /\ h # g
    BY <1>0, <1>7 DEF Stores, Walks, Unshared
  <2>2. \A h \in LSP!Actors : pc'[h] \in {"compare", "store", "mark", "init", "ready"} =>
          pc'[h] = pc[h] \/ (h = g /\ pc[g] = "store")
    BY <1>0, <1>7 DEF Stores, Walks
  <2>3. /\ clients' = clients /\ servers' = servers /\ hand' = hand /\ seen' = seen /\ faults' = faults
        /\ entry' = hand[g]
    BY <1>7 DEF Stores
  <2>4. \A h \in LSP!Actors : Unshared(h)' => entry' # hand'[h]
    BY <2>1, <2>3 DEF UnsharedInv
  <2>5. ASSUME NEW h \in LSP!Actors, Unshared(h)'
        PROVE  /\ clients'[hand'[h]].open = 0
               /\ \A i \in LSP!Actors \ {h} : hand'[i] # hand'[h]
               /\ pc'[h] \in {"compare", "store"} /\ faults' = 0 => LSP!Server(hand[h])'.up
    <3>1. Unshared(h) /\ h # g
      BY <2>1, <2>5
    <3>2. pc'[h] \in {"compare", "store"} => pc[h] = pc'[h]
      BY <2>2, <3>1
    <3>3. LSP!Server(hand[h])' = LSP!Server(hand[h])
      BY <2>3 DEF LSP!Server
    <3> QED
      BY <2>3, <3>1, <3>2, <3>3 DEF UnsharedInv
  <2>6. \A h \in Tools : pc'[h] \in {"store", "mark", "init", "ready"} => seen'[h] = 0
    BY <2>2, <2>3 DEF UnsharedInv
  <2> QED
    BY <2>3, <2>4, <2>5, <2>6 DEF UnsharedInv
<1>8. ASSUME NEW g \in Tools, Opens(g) \/ Changes(g)
      PROVE  UnsharedInv'
  <2>1. \A h \in LSP!Actors : Unshared(h)' => Unshared(h)
    BY <1>0, <1>8 DEF Opens, Changes, Walks, Unshared
  <2>2. \A h \in LSP!Actors : pc'[h] \in {"compare", "store", "mark", "init", "ready"} => pc'[h] = pc[h]
    BY <1>0, <1>8 DEF Opens, Changes, Walks
  <2>3. \A p \in 1..Len(servers) : servers[p].up => servers'[p].up
    BY <1>0, <1>8 DEF Opens, Changes
  <2>4. clients' = clients /\ hand' = hand /\ seen' = seen /\ faults' = faults /\ entry' = entry
    BY <1>8 DEF Opens, Changes
  <2>5. ASSUME NEW h \in LSP!Actors, Unshared(h)'
        PROVE  /\ entry' # hand'[h] /\ clients'[hand'[h]].open = 0
               /\ \A i \in LSP!Actors \ {h} : hand'[i] # hand'[h]
               /\ pc'[h] \in {"compare", "store"} /\ faults' = 0 => LSP!Server(hand[h])'.up
    <3>1. Unshared(h) /\ (pc'[h] \in {"compare", "store"} => pc'[h] = pc[h])
      BY <2>1, <2>2, <2>5
    <3>2. hand[h] \in 1..Len(clients) /\ clients[hand[h]].server \in 1..Len(servers)
      BY <1>0, <3>1
    <3>3. LSP!Server(hand[h]).up => LSP!Server(hand[h])'.up
      BY <2>3, <2>4, <3>2 DEF LSP!Server
    <3> QED
      BY <2>4, <3>1, <3>3 DEF UnsharedInv
  <2>6. \A h \in Tools : pc'[h] \in {"store", "mark", "init", "ready"} => seen'[h] = 0
    BY <2>2, <2>4 DEF UnsharedInv
  <2> QED
    BY <2>4, <2>5, <2>6 DEF UnsharedInv
<1>9. ASSUME NEW g \in Tools, NEW n, Notes(g, n)
      PROVE  UnsharedInv'
  <2>1. \A h \in LSP!Actors : Unshared(h)' => Unshared(h) /\ h # g
    BY <1>0, <1>9 DEF Notes, Walks, Unshared
  <2>2. \A h \in LSP!Actors : pc'[h] \in {"compare", "store", "mark", "init", "ready"} =>
          pc'[h] = pc[h] /\ seen'[h] = seen[h]
    BY <1>0, <1>9 DEF Notes, Walks
  <2>3. \A h \in LSP!Actors : Unshared(h) /\ h # g =>
          clients'[hand[h]].open = 0 /\ (LSP!Server(hand[h])'.up <=> LSP!Server(hand[h]).up)
    BY <1>0, <1>9 DEF Notes, SameClients, UnsharedInv, LSP!Server
  <2>4. entry' = entry /\ hand' = hand /\ faults' = faults
    BY <1>9 DEF Notes
  <2> QED
    BY <2>1, <2>2, <2>3, <2>4 DEF UnsharedInv
<1>10. ASSUME NEW g \in Tools, Rests(g)
       PROVE  UnsharedInv'
  <2>1. \A h \in LSP!Actors : Unshared(h)' => Unshared(h) /\ h # g
    BY <1>0, <1>10 DEF Rests, Walks, Unshared
  <2>2. \A h \in LSP!Actors : pc'[h] \in {"compare", "store", "mark", "init", "ready"} =>
          pc'[h] = pc[h] /\ seen'[h] = seen[h]
    BY <1>0, <1>10 DEF Rests, Walks
  <2> QED
    BY <1>0, <1>10, <2>1, <2>2 DEF Rests, UnsharedInv, LSP!Server
<1>11. CASE Revives
  <2>1. \A h \in LSP!Actors : Unshared(h)' => Unshared(h) /\ h # "restarter"
    BY <1>0, <1>11 DEF Revives, Walks, Unshared
  <2>2. \A h \in LSP!Actors : pc'[h] \in {"compare", "store", "mark", "init", "ready"} => pc'[h] = pc[h]
    BY <1>0, <1>11 DEF Revives, Walks
  <2>3. \A h \in LSP!Actors : Unshared(h) /\ h # "restarter" =>
          clients'[hand[h]] = clients[hand[h]] /\ LSP!Server(hand[h])' = LSP!Server(hand[h])
    BY <1>0, <1>11 DEF Revives, UnsharedInv, LSP!Server
  <2>4. entry' = entry /\ hand' = hand /\ seen' = seen /\ faults' = faults
    BY <1>11 DEF Revives
  <2> QED
    BY <2>1, <2>2, <2>3, <2>4 DEF UnsharedInv
<1>12. CASE (\E p \in 1..Len(servers) : Breaks(p)) \/ Still
  BY <1>12 DEF Breaks, Still, UnsharedInv, Unshared, LSP!Server
<1> QED
  BY NextIsStep, <1>1, <1>2, <1>3, <1>4, <1>5, <1>6, <1>7, <1>8, <1>9, <1>10, <1>11, <1>12 DEF Step

\* The facts on types that the next lemmas use.
LEMMA TypesAre ==
  ASSUME TypeInv
  PROVE  /\ pc \in [LSP!Actors -> Labels] /\ hand \in [LSP!Actors -> 0..Len(clients)] /\ seen \in [LSP!Actors -> Nat]
         /\ clients \in Seq(Client) /\ servers \in Seq(Process)
         /\ Len(clients) \in Nat /\ Len(servers) \in Nat
         /\ \A c \in 1..Len(clients) : clients[c].server \in 1..Len(servers)
         /\ entry \in 0..Len(clients)
         /\ \A h \in LSP!Actors : pc[h] \in Handling => hand[h] \in 1..Len(clients)
         /\ \A h \in LSP!Actors : pc[h] \in Ended => pc[h] \in Handling
         /\ \A h \in LSP!Actors : pc[h] = "recreate" => h = "restarter"
<1>1. /\ pc \in [LSP!Actors -> Labels] /\ hand \in [LSP!Actors -> 0..Len(clients)] /\ seen \in [LSP!Actors -> Nat]
      /\ clients \in Seq(Client) /\ servers \in Seq(Process)
      /\ \A c \in 1..Len(clients) : clients[c].server \in 1..Len(servers)
      /\ entry \in 0..Len(clients)
  BY DEF TypeInv, DataInv, PlaceInv
<1>2. \A h \in LSP!Actors : pc[h] \in Handling => hand[h] \in 1..Len(clients)
  BY <1>1 DEF TypeInv, PlaceInv
<1>3. \A h \in LSP!Actors : pc[h] \in Ended => pc[h] \in Handling
  BY DEF Handling, Ended
<1>4. \A h \in LSP!Actors : pc[h] = "recreate" => h = "restarter"
  BY KindsDiffer DEF TypeInv, PlaceInv, ToolLabels, StopperLabels
<1> QED
  BY <1>1, <1>2, <1>3, <1>4

\* Where a goroutine has ended a process, and none was lost or no manager met
\* another goroutine, the process is down.
LEMMA DownIsKept ==
  ASSUME TypeInv, CrowdInv, DownInv, [LSP!Next]_(LSP!vars)
  PROVE  DownInv'
<1> USE KindsDiffer, TypesAre
<1>0. DownInv' \/ lost = {} \/ NoManagerMet
  BY HistoriesGrow DEF DownInv, NoManagerMet
<1>1. ASSUME lost = {} \/ NoManagerMet
      PROVE  \A h \in LSP!Actors : pc[h] \in Ended => ~LSP!Server(hand[h]).up
  BY <1>1 DEF DownInv
<1>2. ASSUME NEW g \in LSP!Actors, QuietStep(g)
      PROVE  DownInv'
  <2>1. PICK a \in Labels, b \in Labels : Quiet(g, a, b)
    BY <1>2 DEF QuietStep
  <2>2. \A h \in LSP!Actors : pc'[h] \in Ended => pc[h] \in Ended
    BY <2>1 DEF Quiet, Moves, ToolMove, RestarterMove, StopperMove, Ended
  <2>3. \A h \in LSP!Actors : pc[h] \in Ended => LSP!Server(hand[h])' = LSP!Server(hand[h])
    BY <2>1 DEF Quiet, Keeps, LSP!Server
  <2> QED
    BY <1>0, <1>1, <2>2, <2>3 DEF DownInv
<1>3. ASSUME NEW g \in LSP!Actors, Stops(g)
      PROVE  DownInv'
  <2>1. \A h \in LSP!Actors : pc'[h] \in Ended => pc[h] \in Ended \/ h = g
    BY <1>3 DEF Stops, Walks
  <2>2. ~LSP!Server(hand[g])'.up
    BY <1>3 DEF Stops, LSP!Server
  <2>3. \A h \in LSP!Actors : pc[h] \in Ended => (LSP!Server(hand[h])'.up => LSP!Server(hand[h]).up)
    BY <1>3 DEF Stops, LSP!Server
  <2> QED
    BY <1>0, <1>1, <2>1, <2>2, <2>3 DEF DownInv
<1>4. ASSUME NEW g \in LSP!Actors, \/ Empties(g) \/ Removes(g) \/ (\E b : Takes(g, b))
                               \/ Stores(g) \/ Opens(g) \/ Changes(g) \/ Rests(g)
                               \/ \E n : Notes(g, n)
      PROVE  DownInv'
  <2>1. \A h \in LSP!Actors : pc'[h] \in Ended => pc[h] \in Ended /\ h # g
    <3>1. \E b : Walks(g, pc[g], b) /\ b \notin Ended
      <4>1. CASE \E b : Takes(g, b)
        BY <4>1 DEF Takes, Walks, Ended
      <4>2. CASE Empties(g) \/ Removes(g) \/ Stores(g)
        BY <4>2 DEF Empties, Removes, Stores, Walks, Ended
      <4>3. CASE Opens(g) \/ Changes(g) \/ Rests(g)
        BY <4>3 DEF Opens, Changes, Rests, Walks, Ended
      <4>4. CASE \E n : Notes(g, n)
        <5>1. Walks(g, pc[g], "change") \/ Walks(g, pc[g], "didchange")
          BY <4>4 DEF Notes, Walks
        <5> QED
          BY <5>1 DEF Ended
      <4> QED
        BY <1>4, <4>1, <4>2, <4>3, <4>4
    <3> QED
      BY <3>1 DEF Walks
  <2>2. \A h \in LSP!Actors \ {g} : hand'[h] = hand[h]
    BY <1>4 DEF Empties, Removes, Takes, Stores, Opens, Changes, Rests, Notes
  <2>3. \A p \in 1..Len(servers) : servers'[p].up => servers[p].up
    BY <1>4 DEF Empties, Removes, Takes, Stores, Opens, Changes, Rests, Notes
  <2>4. \A c \in 1..Len(clients) : clients'[c].server = clients[c].server
    BY <1>4 DEF Empties, Removes, Takes, Stores, Opens, Changes, Rests, Notes, SameClients
  <2>5. \A h \in LSP!Actors : pc'[h] \in Ended => (LSP!Server(hand[h])'.up => LSP!Server(hand[h]).up)
    BY <2>1, <2>2, <2>3, <2>4 DEF LSP!Server
  <2> QED
    BY <1>0, <1>1, <2>1, <2>5 DEF DownInv
<1>5. ASSUME NEW g \in Tools, Makes(g)
      PROVE  DownInv'
  <2>1. \A h \in LSP!Actors : pc'[h] \in Ended => pc[h] \in Ended /\ h # g
    BY <1>5 DEF Makes, Walks, Ended
  <2>2. \A h \in LSP!Actors : pc'[h] \in Ended => LSP!Server(hand[h])' = LSP!Server(hand[h])
    BY <1>5, <2>1 DEF Makes, LSP!Server
  <2> QED
    BY <1>0, <1>1, <2>1, <2>2 DEF DownInv
<1>6. CASE Revives
  <2>1. \A h \in LSP!Actors : pc'[h] \in Ended => pc[h] \in Ended /\ h # "restarter"
    BY <1>6 DEF Revives, Walks, Ended
  <2>2. ASSUME NEW h \in LSP!Actors, pc'[h] \in Ended, lost' = {} \/ NoManagerMet'
        PROVE  hand[h] # hand["restarter"]
    <3>1. CASE lost' = {}
      <4>1. ~LSP!Ends(h, hand["restarter"])
        BY <1>6, <2>1, <2>2, <3>1 DEF Revives
      <4> QED
        BY <2>1, <2>2, <4>1 DEF LSP!Ends, Ended
    <3>2. CASE NoManagerMet'
      <4>1. NoManagerMet
        BY <3>2, HistoriesGrow DEF NoManagerMet
      <4>2. Works(h) /\ Works("restarter")
        BY <1>6, <2>1, <2>2 DEF Works, Ended, Revives, Walks
      <4> QED
        BY <2>1, <2>2, <4>1, <4>2 DEF CrowdInv
    <3> QED
      BY <2>2, <3>1, <3>2
  <2>3. \A h \in LSP!Actors : pc'[h] \in Ended /\ hand[h] # hand["restarter"] =>
          LSP!Server(hand[h])' = LSP!Server(hand[h])
    BY <1>6, <2>1 DEF Revives, LSP!Server
  <2> QED
    BY <1>0, <1>1, <2>1, <2>2, <2>3 DEF DownInv
<1>7. CASE (\E p \in 1..Len(servers) : Breaks(p)) \/ Still
  <2>1. \A h \in LSP!Actors : pc[h] \in Ended => (LSP!Server(hand[h])'.up => LSP!Server(hand[h]).up)
    BY <1>7 DEF Breaks, Still, LSP!Server
  <2>2. pc' = pc
    BY <1>7 DEF Breaks, Still
  <2> QED
    BY <1>0, <1>1, <2>1, <2>2 DEF DownInv
<1> QED
  BY NextIsStep, <1>2, <1>3, <1>4, <1>5, <1>6, <1>7 DEF Step

\* It is enough that no process starts and whoever holds a running one keeps it.
LEMMA ReachStays ==
  ASSUME TypeInv, ReachInv, lost' = {} => lost = {}, entry' = entry,
         Len(clients') = Len(clients), Len(servers') = Len(servers),
         \A c \in 1..Len(clients) : clients'[c].server = clients[c].server,
         \A p \in 1..Len(servers) : servers'[p].up => servers[p].up,
         \A c \in 1..Len(clients) : lost = {} /\ LSP!Held(c) /\ LSP!Server(c)'.up => LSP!Held(c)'
  PROVE  ReachInv'
<1> USE TypesAre
<1>1. ASSUME lost' = {}, NEW p \in 1..Len(servers), servers'[p].up
      PROVE  \/ entry' # 0 /\ clients'[entry'].server = p
             \/ \E c \in 1..Len(clients) : clients'[c].server = p /\ LSP!Held(c)'
  <2>1. \/ entry # 0 /\ clients[entry].server = p
        \/ \E c \in 1..Len(clients) : clients[c].server = p /\ LSP!Held(c)
    BY <1>1 DEF ReachInv
  <2>2. CASE entry # 0 /\ clients[entry].server = p
    BY <2>2
  <2>3. ASSUME NEW c \in 1..Len(clients), clients[c].server = p, LSP!Held(c)
        PROVE  clients'[c].server = p /\ LSP!Held(c)'
    <3>1. LSP!Server(c)'.up
      BY <1>1, <2>3 DEF LSP!Server
    <3> QED
      BY <1>1, <2>3, <3>1
  <2> QED
    BY <2>1, <2>2, <2>3
<1> QED
  BY <1>1 DEF ReachInv

\* A process that runs is the one in the map or in somebody's hands.
LEMMA ReachIsKept ==
  ASSUME TypeInv, DownInv, ReachInv, DistinctInv, [LSP!Next]_(LSP!vars)
  PROVE  ReachInv'
<1> USE KindsDiffer, TypesAre
<1> DEFINE Reached(p) == \/ entry # 0 /\ clients[entry].server = p
                         \/ \E c \in 1..Len(clients) : clients[c].server = p /\ LSP!Held(c)
<1>0. ReachInv' \/ lost = {}
  BY HistoriesGrow DEF ReachInv
<1>1. ASSUME lost = {}
      PROVE  /\ \A p \in 1..Len(servers) : servers[p].up => Reached(p)
             /\ \A h \in LSP!Actors : pc[h] \in Ended => ~LSP!Server(hand[h]).up
  BY <1>1 DEF ReachInv, DownInv
<1>2. ASSUME NEW g \in LSP!Actors, QuietStep(g)
      PROVE  ReachInv'
  <2>1. PICK a \in Labels, b \in Labels : Quiet(g, a, b)
    BY <1>2 DEF QuietStep
  <2>2. ASSUME NEW c \in 1..Len(clients), LSP!Held(c), LSP!Server(c).up, lost = {}
        PROVE  LSP!Held(c)'
    <3>1. PICK h \in LSP!Actors : hand[h] = c /\ pc[h] \in
                {"compare", "store", "close", "shutdown", "stopped", "recreate"}
      BY <2>2 DEF LSP!Held
    <3>2. pc[h] \notin {"stopped", "recreate"}
      BY <1>1, <2>2, <3>1 DEF Ended
    <3>3. pc'[h] \in {"compare", "store", "close", "shutdown", "stopped", "recreate"}
      BY <2>1, <3>1, <3>2 DEF Quiet, Moves, ToolMove, RestarterMove, StopperMove
    <3> QED
      BY <2>1, <3>1, <3>3 DEF Quiet, Keeps, LSP!Held
  <2>3. /\ entry' = entry /\ servers' = servers /\ Len(clients') = Len(clients)
        /\ \A c \in 1..Len(clients) : clients'[c].server = clients[c].server
    BY <2>1 DEF Quiet, Keeps
  <2>4. \A c \in 1..Len(clients) : LSP!Server(c)' = LSP!Server(c)
    BY <2>3 DEF LSP!Server
  <2> QED
    BY <2>2, <2>3, <2>4, HistoriesGrow, ReachStays
<1>3. ASSUME NEW g \in LSP!Actors, Empties(g)
      PROVE  ReachInv'
  <2>1. \A c \in 1..Len(clients) : LSP!Held(c) => LSP!Held(c)'
    BY <1>3 DEF Empties, Walks, LSP!Held
  <2> QED
    BY <1>3, <2>1, HistoriesGrow, ReachStays DEF Empties, SameClients, SameServers
<1>4. ASSUME NEW g \in LSP!Actors, Stops(g)
      PROVE  ReachInv'
  <2>1. \A c \in 1..Len(clients) : LSP!Held(c) /\ c # hand[g] => LSP!Held(c)'
    BY <1>4 DEF Stops, Walks, LSP!Held
  <2> QED
    BY <1>0, <1>1, <1>4, <2>1 DEF ReachInv, Stops, SameServers
<1>5. ASSUME NEW g \in LSP!Actors, Removes(g)
      PROVE  ReachInv'
  <2>1. \A c \in 1..Len(clients) : LSP!Held(c) => LSP!Held(c)'
    BY <1>5 DEF Removes, Walks, LSP!Held
  <2>2. lost' = {} /\ entry # 0 => ~LSP!Server(entry).up
    <3>1. pc[g] \in Ended
      BY <1>5 DEF Removes, Walks, Ended
    <3>2. lost' = {} => lost = {} /\ entry \in {0, hand[g]}
      BY <1>5 DEF Removes
    <3> QED
      BY <1>1, <3>1, <3>2
  <2> QED
    BY <1>0, <1>1, <1>5, <2>1, <2>2 DEF ReachInv, Removes, LSP!Server
<1>6. ASSUME NEW g \in LSP!Actors, NEW b, Takes(g, b)
      PROVE  ReachInv'
  <2>1. \A c \in 1..Len(clients) : LSP!Held(c) => LSP!Held(c)'
    BY <1>6 DEF Takes, Walks, LSP!Held
  <2> QED
    BY <1>0, <1>1, <1>6, <2>1 DEF ReachInv, Takes
<1>7. ASSUME NEW g \in Tools, Makes(g)
      PROVE  ReachInv'
  <2>1. \A c \in 1..Len(clients) : LSP!Held(c) => LSP!Held(c)'
    BY <1>7 DEF Makes, Walks, LSP!Held
  <2> DEFINE n == Len(clients) + 1
  <2>2. \E h \in LSP!Actors : hand'[h] = n /\ pc'[h] \in
             {"compare", "store", "close", "shutdown", "stopped", "recreate"}
    <3>1. hand'[g] = n /\ pc'[g] = "compare"
      BY <1>7 DEF Makes, Walks
    <3> QED
      BY <3>1
  <2>3. /\ n \in 1..Len(clients') /\ clients'[n].server = Len(servers) + 1
        /\ \A c \in 1..Len(clients) : c \in 1..Len(clients') /\ clients'[c] = clients[c]
        /\ \A p \in 1..Len(servers') : p = Len(servers) + 1 \/ p \in 1..Len(servers)
        /\ \A p \in 1..Len(servers) : servers'[p] = servers[p]
        /\ entry' = entry /\ lost' = lost
    BY <1>7 DEF Makes
  <2>4. ASSUME lost' = {}, NEW p \in 1..Len(servers'), servers'[p].up
        PROVE  \/ entry' # 0 /\ clients'[entry'].server = p
               \/ \E c \in 1..Len(clients') : clients'[c].server = p /\ LSP!Held(c)'
    <3>1. CASE p = Len(servers) + 1
      BY <2>2, <2>3, <3>1 DEF LSP!Held
    <3>2. CASE p \in 1..Len(servers)
      <4>1. Reached(p)
        BY <1>1, <2>3, <2>4, <3>2
      <4>2. CASE entry # 0 /\ clients[entry].server = p
        BY <2>3, <4>2
      <4>3. CASE \E c \in 1..Len(clients) : clients[c].server = p /\ LSP!Held(c)
        BY <2>1, <2>3, <4>3
      <4> QED
        BY <4>1, <4>2, <4>3
    <3> QED
      BY <2>3, <3>1, <3>2
  <2> QED
    BY <2>4 DEF ReachInv
<1>8. ASSUME NEW g \in Tools, Stores(g)
      PROVE  ReachInv'
  <2>1. \A c \in 1..Len(clients) : LSP!Held(c) => LSP!Held(c)' \/ c = entry'
    BY <1>8 DEF Stores, Walks, LSP!Held
  <2>2. entry' # 0
    BY <1>8 DEF Stores, Walks, Handling
  <2>3. lost' = {} => entry = 0 \/ ~LSP!Server(entry).up
    BY <1>8 DEF Stores
  <2> QED
    BY <1>0, <1>1, <1>8, <2>1, <2>2, <2>3 DEF ReachInv, Stores, LSP!Server
<1>9. ASSUME NEW g \in Tools, \/ Opens(g) \/ Changes(g) \/ Rests(g)
                              \/ \E n : Notes(g, n)
      PROVE  ReachInv'
  <2>1. \A c \in 1..Len(clients) : LSP!Held(c) => LSP!Held(c)'
    <3>1. PICK a, b : Walks(g, a, b) /\ a \notin {"compare", "store", "close", "shutdown", "stopped", "recreate"}
      BY <1>9 DEF Opens, Changes, Rests, Notes, Walks
    <3>2. \A h \in LSP!Actors \ {g} : pc'[h] = pc[h] /\ hand'[h] = hand[h]
      BY <1>9, <3>1 DEF Opens, Changes, Rests, Notes, Walks
    <3> QED
      BY <3>1, <3>2 DEF Walks, LSP!Held
  <2>2. /\ entry' = entry /\ Len(clients') = Len(clients) /\ Len(servers') = Len(servers)
        /\ \A c \in 1..Len(clients) : clients'[c].server = clients[c].server
        /\ \A p \in 1..Len(servers) : servers'[p].up => servers[p].up
    BY <1>9 DEF Opens, Changes, Rests, Notes, SameClients, SameServers
  <2> QED
    BY <2>1, <2>2, HistoriesGrow, ReachStays
<1>10. CASE Revives
  <2> DEFINE r == hand["restarter"]
  <2>1. \A c \in 1..Len(clients) : LSP!Held(c) /\ c # r => LSP!Held(c)'
    BY <1>10 DEF Revives, Walks, LSP!Held
  <2>2. r \in 1..Len(clients) /\ (lost = {} => ~LSP!Server(r).up)
    BY <1>1, <1>10 DEF Revives, Walks, Handling, Ended
  <2>3. lost' = {} => entry' = r /\ entry = r
    BY <1>10 DEF Revives
  <2>4. /\ Len(clients') = Len(clients) /\ Len(servers') = Len(servers) + 1
        /\ \A c \in 1..Len(clients) : c # r => clients'[c].server = clients[c].server
        /\ clients'[r].server = Len(servers) + 1
        /\ \A p \in 1..Len(servers) : servers'[p] = servers[p]
    BY <1>10, <2>2 DEF Revives
  <2> HIDE DEF r
  <2>5. ASSUME lost' = {}, NEW p \in 1..Len(servers), servers[p].up
        PROVE  \E c \in 1..Len(clients) : clients'[c].server = p /\ LSP!Held(c)'
    <3>1. lost = {} /\ clients[r].server # p /\ Reached(p)
      BY <1>1, <1>10, <2>2, <2>5, HistoriesGrow DEF LSP!Server
    <3> QED
      BY <2>1, <2>3, <2>4, <2>5, <3>1
  <2>6. ASSUME lost' = {}, NEW p \in 1..Len(servers'), servers'[p].up
        PROVE  \/ entry' # 0 /\ clients'[entry'].server = p
               \/ \E c \in 1..Len(clients') : clients'[c].server = p /\ LSP!Held(c)'
    <3>1. CASE p = Len(servers) + 1
      BY <2>2, <2>3, <2>4, <2>6, <3>1
    <3>2. CASE p \in 1..Len(servers)
      BY <2>4, <2>5, <2>6, <3>2
    <3> QED
      BY <2>4, <3>1, <3>2
  <2> QED
    BY <2>6 DEF ReachInv
<1>11. CASE (\E p \in 1..Len(servers) : Breaks(p)) \/ Still
  <2>1. /\ entry' = entry /\ clients' = clients /\ pc' = pc /\ hand' = hand
        /\ Len(servers') = Len(servers)
        /\ \A p \in 1..Len(servers) : servers'[p].up => servers[p].up
    BY <1>11 DEF Breaks, Still, SameServers
  <2> QED
    BY <1>0, <1>1, <2>1 DEF ReachInv, LSP!Held
<1> QED
  BY NextIsStep, <1>2, <1>3, <1>4, <1>5, <1>6, <1>7, <1>8, <1>9, <1>10, <1>11 DEF Step

\* Who is at work when nobody has met another is alone, before a step and
\* after it.
LEMMA OnlyOne ==
  ASSUME TypeInv, CrowdInv, Alone', [LSP!Next]_(LSP!vars), NEW g \in LSP!Actors, NEW a, NEW b, Walks(g, a, b),
         a \notin {"idle", "done"} \/ b \notin {"idle", "done"}
  PROVE  Alone /\ \A h \in LSP!Actors \ {g} : pc'[h] = pc[h] /\ pc[h] \in {"idle", "done"}
<1>1. Alone /\ CrowdInv'
  BY HistoriesGrow, CrowdIsKept DEF Alone
<1>2. \A h \in LSP!Actors \ {g} : pc'[h] = pc[h]
  BY TypesAre DEF Walks
<1>3. pc[g] = a /\ pc'[g] = b
  BY TypesAre DEF Walks
<1> QED
  BY <1>1, <1>2, <1>3 DEF CrowdInv, Works

\* The same of a manager, and of whoever works beside one.
LEMMA NoManagerBeside ==
  ASSUME TypeInv, CrowdInv, NoManagerMet', [LSP!Next]_(LSP!vars), NEW g \in LSP!Actors, NEW a, NEW b, Walks(g, a, b),
         a \notin {"idle", "done"} \/ b \notin {"idle", "done"},
         NEW h \in LSP!Actors \ {g}, pc[h] \notin {"idle", "done"}
  PROVE  NoManagerMet /\ g \in Tools /\ h \in Tools
<1>1. NoManagerMet /\ CrowdInv'
  BY HistoriesGrow, CrowdIsKept DEF NoManagerMet
<1>2. pc'[h] = pc[h] /\ pc[g] = a /\ pc'[g] = b
  BY TypesAre DEF Walks
<1> QED
  BY <1>1, <1>2 DEF CrowdInv, Works

\* A manager works at the client of the map; without faults the process of that
\* client is down only while someone stops it.
LEMMA EntryIsKept ==
  ASSUME TypeInv, CrowdInv, DownInv, DistinctInv, UnsharedInv, EntryInv, [LSP!Next]_(LSP!vars)
  PROVE  EntryInv'
<1> USE KindsDiffer, TypesAre
<1> DEFINE Managed == \A h \in LSP!Managers : pc[h] \in Ending => entry = hand[h]
           Stopped == faults = 0 /\ entry # 0 /\ ~LSP!Server(entry).up =>
                        \E h \in LSP!Actors : hand[h] = entry /\ pc[h] \in Ended
           Emptied == faults = 0 /\ pc["restarter"] \in Ending \ {"close"} =>
                        clients[hand["restarter"]].open = 0
<1>0. /\ EntryInv' \/ (NoManagerMet /\ NoManagerMet')
      /\ NoManagerMet => Managed /\ Stopped /\ Emptied
      /\ faults' = 0 => faults = 0
  BY HistoriesGrow DEF EntryInv, NoManagerMet
<1>1. ASSUME NEW g \in LSP!Actors, QuietStep(g)
      PROVE  EntryInv'
  <2>1. PICK a \in Labels, b \in Labels : Quiet(g, a, b)
    BY <1>1 DEF QuietStep
  <2>2. Walks(g, a, b) /\ (a \notin {"idle", "done"} \/ b \notin {"idle", "done"})
    BY <2>1 DEF Quiet, Moves, Walks, ToolMove, RestarterMove, StopperMove
  <2>3. /\ entry' = entry /\ hand' = hand /\ servers' = servers
        /\ \A c \in 1..Len(clients) : /\ clients'[c].server = clients[c].server
                                      /\ clients'[c].open = clients[c].open
    BY <2>1 DEF Quiet, Keeps
  <2>4. NoManagerMet' => Managed'
    <3>1. \A h \in LSP!Managers : pc'[h] \in Ending => pc[h] \in Ending
      BY <2>1 DEF Quiet, Moves, RestarterMove, StopperMove, Ending
    <3> QED
      BY <1>0, <2>3, <3>1, HistoriesGrow DEF NoManagerMet
  <2>5. NoManagerMet' => Stopped'
    <3>1. \A h \in LSP!Actors : pc[h] \in Ended /\ faults' = 0 => pc'[h] \in Ended
      BY <2>1 DEF Quiet, Moves, Knows, ToolMove, RestarterMove, StopperMove, Ended
    <3> QED
      BY <1>0, <2>3, <3>1, HistoriesGrow DEF NoManagerMet, LSP!Server
  <2>6. NoManagerMet' => Emptied'
    <3>1. SUFFICES ASSUME NoManagerMet', faults' = 0, pc'["restarter"] \in Ending \ {"close"}
                   PROVE  clients[hand["restarter"]].open = 0
      <4>1. pc'["restarter"] \in Ending => pc["restarter"] \in Ending
        BY <2>1 DEF Quiet, Moves, RestarterMove, Ending
      <4> QED
        BY <2>3, <4>1 DEF Ending, Handling
    <3>2. NoManagerMet
      BY <3>1, HistoriesGrow DEF NoManagerMet
    <3>3. CASE pc["restarter"] \in Ending \ {"close"}
      BY <1>0, <3>1, <3>2, <3>3
    <3>4. CASE pc["restarter"] \notin Ending \ {"close"}
      <4>1. g = "restarter" /\ a = "close" /\ b = "shutdown"
        BY <2>1, <3>1, <3>4 DEF Quiet, Moves, RestarterMove, Ending
      <4>2. clients[hand[g]].open = 0 \/ ~LSP!Server(hand[g]).up
        BY <2>1, <4>1 DEF Quiet, Knows
      <4>3. entry = hand[g] /\ hand[g] # 0
        BY <1>0, <2>2, <3>2, <4>1 DEF Walks, Ending, Handling
      <4>4. LSP!Server(entry).up
        <5>1. \A h \in LSP!Actors : pc[h] \notin Ended
          BY <2>2, <3>1, <4>1, NoManagerBeside DEF Walks, Ended
        <5> QED
          BY <1>0, <3>1, <3>2, <4>3, <5>1
      <4> QED
        BY <4>1, <4>2, <4>3, <4>4
    <3> QED
      BY <3>3, <3>4
  <2> QED
    BY <2>4, <2>5, <2>6 DEF EntryInv
<1>2. ASSUME NEW g \in LSP!Actors, Empties(g)
      PROVE  EntryInv'
  <2>1. Walks(g, "close", "shutdown")
    BY <1>2 DEF Empties
  <2>2. /\ entry' = entry /\ hand' = hand /\ faults' = faults
        /\ \A c \in 1..Len(clients) : /\ clients'[c].server = clients[c].server
                                      /\ clients'[c].open = IF c = hand[g] THEN 0 ELSE clients[c].open
        /\ \A p \in 1..Len(servers) : servers[p].up => servers'[p].up
    BY <1>2 DEF Empties, SameClients
  <2>3. NoManagerMet' => Managed'
    BY <1>0, <2>1, <2>2, HistoriesGrow DEF NoManagerMet, Walks, Ending
  <2>4. NoManagerMet' => Stopped'
    BY <1>0, <2>1, <2>2, HistoriesGrow DEF NoManagerMet, Walks, Ended, LSP!Server
  <2>5. NoManagerMet' => Emptied'
    BY <1>0, <2>1, <2>2, HistoriesGrow DEF NoManagerMet, Walks, Ending, Handling
  <2> QED
    BY <2>3, <2>4, <2>5 DEF EntryInv
<1>3. ASSUME NEW g \in LSP!Actors, Stops(g)
      PROVE  EntryInv'
  <2>1. pc[g] = "shutdown" /\ \A h \in LSP!Actors \ {g} : pc'[h] = pc[h]
    BY <1>3 DEF Stops, Walks
  <2>2. entry' = entry /\ hand' = hand /\ faults' = faults /\ clients' = clients
    BY <1>3 DEF Stops
  <2>3. NoManagerMet' => Managed'
    BY <1>0, <2>1, <2>2, HistoriesGrow DEF NoManagerMet, Ending
  <2>4. ASSUME NoManagerMet', faults' = 0, entry' # 0, ~LSP!Server(entry)'.up
        PROVE  \E h \in LSP!Actors : hand'[h] = entry' /\ pc'[h] \in Ended
    <3>1. CASE ~LSP!Server(entry).up
      <4>1. \E h \in LSP!Actors : hand[h] = entry /\ pc[h] \in Ended
        BY <1>0, <2>2, <2>4, <3>1, HistoriesGrow DEF NoManagerMet
      <4> QED
        BY <2>1, <2>2, <4>1 DEF Ended
    <3>2. CASE LSP!Server(entry).up
      <4>1. hand[g] = entry
        <5>1. hand[g] \in 1..Len(clients) /\ entry \in 1..Len(clients)
          BY <2>1, <2>2, <2>4 DEF Handling
        <5>2. clients[entry].server = clients[hand[g]].server
          BY <1>3, <2>2, <2>4, <3>2 DEF Stops, LSP!Server
        <5> QED
          BY <5>1, <5>2 DEF DistinctInv
      <4>2. pc'[g] \in Ended
        BY <1>3, <2>1, <4>1 DEF Stops, Walks, LSP!AfterShutdown, Ended, UnsharedInv, Unshared
      <4> QED
        BY <2>2, <4>1, <4>2
    <3> QED
      BY <3>1, <3>2
  <2>5. NoManagerMet' => Emptied'
    BY <1>0, <2>1, <2>2, HistoriesGrow DEF NoManagerMet, Ending
  <2> QED
    BY <2>3, <2>4, <2>5 DEF EntryInv
<1>4. ASSUME NEW g \in LSP!Actors, Removes(g)
      PROVE  EntryInv'
  <2>1. Walks(g, "delete", "tell") /\ entry' = 0
    BY <1>4 DEF Removes
  <2>2. NoManagerMet' => \A h \in LSP!Managers : pc'[h] \notin Ending
    <3>1. NoManagerMet' => \A h \in LSP!Managers \ {g} : pc[h] \notin Ending
      BY <2>1, NoManagerBeside DEF Ending
    <3> QED
      BY <2>1, <3>1 DEF Walks, Ending
  <2> QED
    BY <2>1, <2>2 DEF EntryInv
<1>5. ASSUME NEW g \in LSP!Actors, NEW b, Takes(g, b)
      PROVE  EntryInv'
  <2>1. pc[g] \in {"idle", "use"} /\ \A h \in LSP!Actors \ {g} : pc'[h] = pc[h] /\ hand'[h] = hand[h]
    BY <1>5 DEF Takes, Walks
  <2>2. /\ entry' = entry /\ servers' = servers /\ faults' = faults /\ clients' = clients
        /\ hand'[g] = entry
    BY <1>5 DEF Takes
  <2>3. NoManagerMet' => Managed'
    BY <1>0, <2>1, <2>2, HistoriesGrow DEF NoManagerMet
  <2>4. NoManagerMet' => Stopped'
    BY <1>0, <2>1, <2>2, HistoriesGrow DEF NoManagerMet, Ended, LSP!Server
  <2>5. pc'["restarter"] \in Ending \ {"close"} => g # "restarter"
    BY <1>5 DEF Takes, Walks
  <2>6. NoManagerMet' => Emptied'
    BY <1>0, <2>1, <2>2, <2>5, HistoriesGrow DEF NoManagerMet
  <2> QED
    BY <2>3, <2>4, <2>6 DEF EntryInv
<1>6. ASSUME NEW g \in Tools, Makes(g)
      PROVE  EntryInv'
  <2>1. pc[g] = "new" /\ \A h \in LSP!Actors \ {g} : pc'[h] = pc[h] /\ hand'[h] = hand[h]
    BY <1>6 DEF Makes, Walks
  <2>2. /\ entry' = entry /\ faults' = faults
        /\ \A c \in 1..Len(clients) : clients'[c] = clients[c] /\ LSP!Server(c)' = LSP!Server(c)
    BY <1>6 DEF Makes, LSP!Server
  <2>3. NoManagerMet' => Managed'
    BY <1>0, <2>1, <2>2, HistoriesGrow DEF NoManagerMet
  <2>4. NoManagerMet' => Stopped'
    <3>1. entry # 0 => LSP!Server(entry)' = LSP!Server(entry)
      BY <1>6 DEF Makes, LSP!Server
    <3> QED
      BY <1>0, <2>1, <2>2, <3>1, HistoriesGrow DEF NoManagerMet, Ended
  <2>5. NoManagerMet' => Emptied'
    BY <1>0, <2>1, <2>2, HistoriesGrow DEF NoManagerMet, Ending, Handling
  <2> QED
    BY <2>3, <2>4, <2>5 DEF EntryInv
<1>7. ASSUME NEW g \in Tools, Stores(g)
      PROVE  EntryInv'
  <2>1. Walks(g, "store", "mark") /\ entry' = hand[g] /\ servers' = servers /\ clients' = clients
        /\ faults' = faults
    BY <1>7 DEF Stores
  <2>2. faults' = 0 => LSP!Server(entry)'.up
    BY <2>1 DEF Walks, UnsharedInv, Unshared, LSP!Server
  <2>3. \A h \in LSP!Actors \ {g} : pc'[h] = pc[h]
    BY <2>1 DEF Walks
  <2>4. NoManagerMet' => \A h \in LSP!Managers \ {g} : pc[h] \notin Ending
    <3>1. Walks(g, "store", "mark")
      BY <2>1
    <3> QED
      BY <3>1, NoManagerBeside DEF Ending
  <2> QED
    BY <2>1, <2>2, <2>3, <2>4 DEF EntryInv, Ending
<1>8. ASSUME NEW g \in Tools, \/ Opens(g) \/ Changes(g) \/ Rests(g)
                              \/ \E n : Notes(g, n)
      PROVE  EntryInv'
  <2>1. PICK a, b : /\ Walks(g, a, b) /\ a \notin {"idle", "done"} /\ a \notin Ended
    BY <1>8 DEF Opens, Changes, Rests, Notes, Walks, Ended
  <2>2. /\ entry' = entry /\ faults' = faults /\ \A h \in LSP!Actors \ {g} : hand'[h] = hand[h]
        /\ \A c \in 1..Len(clients) : clients'[c].server = clients[c].server
        /\ \A p \in 1..Len(servers) : servers[p].up => servers'[p].up
    BY <1>8 DEF Opens, Changes, Rests, Notes, SameClients
  <2>3. \A h \in LSP!Actors \ {g} : pc'[h] = pc[h]
    BY <2>1 DEF Walks
  <2>4. NoManagerMet' => \A h \in LSP!Managers : pc'[h] \notin Ending
    <3>1. SUFFICES ASSUME NoManagerMet', NEW h \in LSP!Managers
                   PROVE  pc'[h] \notin Ending
      OBVIOUS
    <3>2. h \in LSP!Actors \ {g} /\ h \notin Tools
      OBVIOUS
    <3>3. pc[h] \in {"idle", "done"}
      BY <2>1, <3>1, <3>2, NoManagerBeside
    <3> QED
      BY <2>3, <3>2, <3>3 DEF Ending
  <2>5. ASSUME NoManagerMet', faults' = 0, entry' # 0, ~LSP!Server(entry)'.up
        PROVE  \E h \in LSP!Actors : hand'[h] = entry' /\ pc'[h] \in Ended
    <3>1. ~LSP!Server(entry).up
      BY <2>2, <2>5 DEF LSP!Server
    <3>2. PICK h \in LSP!Actors : hand[h] = entry /\ pc[h] \in Ended
      BY <1>0, <2>2, <2>5, <3>1, HistoriesGrow DEF NoManagerMet
    <3>3. h # g
      BY <2>1, <3>2 DEF Walks
    <3> QED
      BY <2>2, <2>3, <3>2, <3>3
  <2> QED
    BY <2>4, <2>5 DEF EntryInv, Ending
<1>9. CASE Revives
  <2> DEFINE r == hand["restarter"]
  <2>1. Walks("restarter", "recreate", "reinit") /\ entry' = entry /\ hand' = hand
    BY <1>9 DEF Revives
  <2>2. LSP!Server(r)'.up
    BY <1>9, <2>1 DEF Revives, Walks, Handling, LSP!Server
  <2>3. NoManagerMet => entry = r
    BY <1>0, <2>1 DEF Walks, Ending
  <2>4. NoManagerMet' => \A h \in LSP!Managers : pc'[h] \notin Ending
    <3>1. NoManagerMet' => \A h \in LSP!Managers \ {"restarter"} : pc[h] \notin Ending
      BY <2>1, NoManagerBeside DEF Ending
    <3> QED
      BY <2>1, <3>1 DEF Walks, Ending
  <2> QED
    BY <1>0, <2>1, <2>2, <2>3, <2>4 DEF EntryInv
<1>10. ASSUME NEW p \in 1..Len(servers), Breaks(p)
       PROVE  EntryInv'
  <2>1. faults' # 0 /\ pc' = pc /\ entry' = entry /\ hand' = hand /\ overlapped' = overlapped
    BY <1>10 DEF Breaks
  <2> QED
    BY <1>0, <2>1 DEF EntryInv, NoManagerMet
<1>11. CASE Still
  BY <1>11 DEF Still, EntryInv, NoManagerMet, LSP!Server
<1> QED
  BY NextIsStep, <1>1, <1>2, <1>3, <1>4, <1>5, <1>6, <1>7, <1>8, <1>9, <1>10, <1>11 DEF Step

\* What has to hold after a step of goroutine g, when it is the only one at work.
LEMMA SoleFrom ==
  ASSUME NEW g \in LSP!Actors, \A h \in LSP!Actors \ {g} : pc'[h] \in {"idle", "done"},
         lost' \subseteq {"errored"},
         pc'[g] \in {"new", "compare", "store"} => ~LSP!Usable(entry)',
         pc'[g] \in {"mark", "init", "ready"} \cup Ending => entry' = hand'[g],
         entry' # 0 /\ clients'[entry'].state = "stopped" /\ LSP!Server(entry)'.up => pc'[g] = "mark"
  PROVE  SoleInv'
BY DEF SoleInv, Ending

\* While no two were at work at once, whoever works has the client of the map,
\* and a process is lost with a client in the error state only.
LEMMA SoleIsKept ==
  ASSUME TypeInv, CrowdInv, DownInv, SoleInv, [LSP!Next]_(LSP!vars)
  PROVE  SoleInv'
<1> USE KindsDiffer, TypesAre
<1>0. SoleInv' \/ (Alone' /\ Alone)
  BY HistoriesGrow DEF SoleInv, Alone
<1>1. ASSUME Alone
      PROVE  /\ lost \subseteq {"errored"}
             /\ \A h \in LSP!Actors :
                  /\ pc[h] \in {"new", "compare", "store"} => ~LSP!Usable(entry)
                  /\ pc[h] \in {"mark", "init", "ready"} \cup Ending => entry = hand[h]
             /\ entry # 0 /\ clients[entry].state = "stopped" /\ LSP!Server(entry).up =>
                  \E h \in LSP!Actors : pc[h] = "mark"
             /\ \A h \in LSP!Actors : pc[h] \in Ended => ~LSP!Server(hand[h]).up
  BY <1>1 DEF SoleInv, DownInv, Alone, NoManagerMet
<1>2. ASSUME NEW g \in LSP!Actors, QuietStep(g)
      PROVE  SoleInv'
  <2>1. PICK a \in Labels, b \in Labels : Quiet(g, a, b)
    BY <1>2 DEF QuietStep
  <2>2. Walks(g, a, b) /\ (a \notin {"idle", "done"} \/ b \notin {"idle", "done"})
    BY <2>1 DEF Quiet, Moves, Walks, ToolMove, RestarterMove, StopperMove
  <2>3. SUFFICES ASSUME Alone', Alone
                 PROVE  SoleInv'
    BY <1>0
  <2>4. \A h \in LSP!Actors \ {g} : pc'[h] = pc[h] /\ pc[h] \in {"idle", "done"}
    BY <2>2, <2>3, OnlyOne
  <2>5. pc[g] = a /\ pc'[g] = b
    BY <2>2 DEF Walks
  <2>6. /\ entry' = entry /\ hand' = hand /\ servers' = servers /\ lost' = lost
        /\ \A c \in 1..Len(clients) : clients'[c].server = clients[c].server
    BY <2>1 DEF Quiet, Keeps
  <2>7. b \in {"new", "compare", "store"} => ~LSP!Usable(entry)'
    BY <2>1, <2>6 DEF Quiet, Moves, Marks, Knows, ToolMove, RestarterMove, StopperMove, LSP!Usable
  <2>8. b \in {"mark", "init", "ready"} \cup Ending => entry = hand[g]
    <3>1. b \in {"mark", "init", "ready"} \cup Ending =>
            \/ a \in {"mark", "init", "ready"} \cup Ending
            \/ a = "compare" /\ LSP!Usable(entry)
      BY <2>1 DEF Quiet, Moves, Knows, ToolMove, RestarterMove, StopperMove, Ending
    <3> QED
      BY <1>1, <2>3, <2>5, <3>1
  <2>9. entry' # 0 /\ clients'[entry'].state = "stopped" /\ LSP!Server(entry)'.up => b = "mark"
    <3>1. SUFFICES ASSUME entry # 0, clients'[entry].state = "stopped", LSP!Server(entry)'.up
                   PROVE  FALSE
      BY <2>6
    <3>2. LSP!Server(entry).up /\ entry \in 1..Len(clients)
      BY <2>6, <3>1 DEF LSP!Server
    <3>3. CASE clients[entry].state = "stopped"
      <4>1. a = "mark"
        BY <1>1, <2>3, <2>4, <2>5, <3>1, <3>2, <3>3
      <4>2. b = "init" /\ entry = hand[g]
        BY <1>1, <2>1, <2>3, <2>5, <4>1 DEF Quiet, Moves, ToolMove, RestarterMove, StopperMove
      <4> QED
        BY <2>1, <3>1, <4>2 DEF Quiet, Marks
    <3>4. CASE clients[entry].state # "stopped"
      <4>1. entry = hand[g] /\ a = "stopped"
        BY <2>1, <3>1, <3>2, <3>4 DEF Quiet, Marks
      <4> QED
        BY <1>1, <2>3, <2>5, <3>2, <4>1 DEF Ended
    <3> QED
      BY <3>3, <3>4
  <2> QED
    BY <1>1, <2>3, <2>4, <2>5, <2>6, <2>7, <2>8, <2>9, SoleFrom
<1>3. ASSUME NEW g \in LSP!Actors, Empties(g) \/ Stops(g)
      PROVE  SoleInv'
  <2>1. /\ Walks(g, pc[g], pc'[g]) /\ pc[g] \in Ending
        /\ pc'[g] \notin {"new", "compare", "store", "idle", "done"}
    BY <1>3 DEF Empties, Stops, Ending, LSP!AfterShutdown, Walks
  <2>2. SUFFICES ASSUME Alone', Alone
                 PROVE  SoleInv'
    BY <1>0
  <2>3. \A h \in LSP!Actors \ {g} : pc'[h] = pc[h] /\ pc[h] \in {"idle", "done"}
    BY <2>1, <2>2, OnlyOne
  <2>4. /\ entry' = entry /\ hand' = hand /\ lost' = lost
        /\ \A c \in 1..Len(clients) :
             clients'[c].server = clients[c].server /\ clients'[c].state = clients[c].state
        /\ \A p \in 1..Len(servers) : servers'[p].up => servers[p].up
    BY <1>3 DEF Empties, Stops, SameClients
  <2>5. entry = hand[g]
    BY <1>1, <2>1, <2>2
  <2>6. entry # 0 => /\ clients'[entry].state = clients[entry].state
                     /\ LSP!Server(entry)'.up => LSP!Server(entry).up
    <3>1. entry # 0 => entry \in 1..Len(clients) /\ clients[entry].server \in 1..Len(servers)
      OBVIOUS
    <3> QED
      BY <2>4, <3>1 DEF LSP!Server
  <2>7. ~(entry' # 0 /\ clients'[entry'].state = "stopped" /\ LSP!Server(entry)'.up)
    <3>1. \A h \in LSP!Actors : pc[h] # "mark"
      BY <2>1, <2>3 DEF Ending
    <3> QED
      BY <1>1, <2>2, <2>4, <2>6, <3>1
  <2>8. lost' \subseteq {"errored"}
    BY <1>1, <2>2, <2>4
  <2> QED
    BY <2>1, <2>3, <2>4, <2>5, <2>7, <2>8, SoleFrom
<1>4. ASSUME NEW g \in LSP!Actors, Removes(g)
      PROVE  SoleInv'
  <2>1. Walks(g, "delete", "tell") /\ entry' = 0
        /\ lost' = IF entry \in {0, hand[g]} THEN lost ELSE lost \cup {"deleted"}
    BY <1>4 DEF Removes
  <2>2. SUFFICES ASSUME Alone', Alone
                 PROVE  SoleInv'
    BY <1>0
  <2>3. \A h \in LSP!Actors \ {g} : pc'[h] = pc[h] /\ pc[h] \in {"idle", "done"}
    BY <2>1, <2>2, OnlyOne
  <2>4. pc[g] = "delete" /\ pc'[g] = "tell"
    BY <2>1 DEF Walks
  <2>5. lost' \subseteq {"errored"}
    BY <1>1, <2>1, <2>2, <2>4 DEF Ending
  <2>6. pc'[g] \notin {"new", "compare", "store", "mark", "init", "ready"} \cup Ending
    BY <2>4 DEF Ending
  <2> QED
    BY <2>1, <2>3, <2>5, <2>6, SoleFrom
<1>5. ASSUME NEW g \in LSP!Actors, NEW b, Takes(g, b)
      PROVE  SoleInv'
  <2>1. PICK a : Walks(g, a, b) /\ a \in {"idle", "use"} /\ (a = "idle" => b \in {"close", "shutdown"})
                 /\ (a = "use" => b \in {"done", "ondemand"})
    BY <1>5 DEF Takes
  <2>2. SUFFICES ASSUME Alone', Alone
                 PROVE  SoleInv'
    BY <1>0
  <2>3. \A h \in LSP!Actors \ {g} : pc'[h] = pc[h] /\ pc[h] \in {"idle", "done"}
    BY <2>1, <2>2, OnlyOne
  <2>4. pc[g] = a /\ pc'[g] = b
    BY <2>1 DEF Walks
  <2>5. /\ entry' = entry /\ lost' = lost /\ hand'[g] = entry /\ clients' = clients
        /\ servers' = servers
    BY <1>5 DEF Takes
  <2>6. ~(entry' # 0 /\ clients'[entry'].state = "stopped" /\ LSP!Server(entry)'.up)
    BY <1>1, <2>1, <2>2, <2>3, <2>4, <2>5 DEF LSP!Server
  <2>7. lost' \subseteq {"errored"}
    BY <1>1, <2>2, <2>5
  <2>8. \A h \in LSP!Actors \ {g} : pc'[h] \in {"idle", "done"}
    BY <2>3
  <2>9. pc'[g] \notin {"new", "compare", "store", "mark"}
    BY <2>1, <2>4
  <2>10. entry' = hand'[g]
    BY <2>5
  <2> QED
    BY <2>6, <2>7, <2>8, <2>9, <2>10, SoleFrom
<1>6. ASSUME NEW g \in Tools, Makes(g)
      PROVE  SoleInv'
  <2>1. Walks(g, "new", "compare")
    BY <1>6 DEF Makes
  <2>2. SUFFICES ASSUME Alone', Alone
                 PROVE  SoleInv'
    BY <1>0
  <2>3. \A h \in LSP!Actors \ {g} : pc'[h] = pc[h] /\ pc[h] \in {"idle", "done"}
    BY <2>1, <2>2, OnlyOne
  <2>4. pc[g] = "new" /\ pc'[g] = "compare"
    BY <2>1 DEF Walks
  <2>5. /\ entry' = entry /\ lost' = lost
        /\ entry # 0 => clients'[entry] = clients[entry] /\ LSP!Server(entry)' = LSP!Server(entry)
    BY <1>6 DEF Makes, LSP!Server
  <2>6. ~(entry' # 0 /\ clients'[entry'].state = "stopped" /\ LSP!Server(entry)'.up)
    BY <1>1, <2>2, <2>3, <2>4, <2>5
  <2>7. ~LSP!Usable(entry)'
    BY <1>1, <2>2, <2>4, <2>5 DEF LSP!Usable
  <2>8. lost' \subseteq {"errored"} /\ g \in LSP!Actors
    BY <1>1, <2>2, <2>5
  <2>9. pc'[g] \notin {"mark", "init", "ready"} \cup Ending
    BY <2>4 DEF Ending
  <2> QED
    BY <2>3, <2>6, <2>7, <2>8, <2>9, SoleFrom
<1>7. ASSUME NEW g \in Tools, Stores(g)
      PROVE  SoleInv'
  <2>1. Walks(g, "store", "mark") /\ entry' = hand[g] /\ hand' = hand
    BY <1>7 DEF Stores
  <2>2. SUFFICES ASSUME Alone', Alone
                 PROVE  SoleInv'
    BY <1>0
  <2>3. \A h \in LSP!Actors \ {g} : pc'[h] = pc[h] /\ pc[h] \in {"idle", "done"}
    BY <2>1, <2>2, OnlyOne
  <2>4. pc[g] = "store" /\ pc'[g] = "mark"
    BY <2>1 DEF Walks
  <2>5. entry # 0 /\ LSP!Server(entry).up => clients[entry].state = "error"
    <3>1. SUFFICES ASSUME entry # 0, LSP!Server(entry).up
                   PROVE  clients[entry].state = "error"
      OBVIOUS
    <3>2. clients[entry] \in Client
      BY <3>1, ElementOfSeq
    <3>3. clients[entry].state \in LSP!States
      BY <3>2 DEF Client
    <3>4. clients[entry].state # "stopped"
      BY <1>1, <2>2, <2>3, <2>4, <3>1
    <3>5. ~LSP!Usable(entry)
      BY <1>1, <2>2, <2>4
    <3> QED
      BY <3>1, <3>3, <3>4, <3>5 DEF LSP!Usable, LSP!States
  <2>6. lost' \subseteq {"errored"}
    BY <1>1, <1>7, <2>2, <2>5 DEF Stores
  <2>7. g \in LSP!Actors /\ entry' = hand'[g] /\ pc'[g] \notin {"new", "compare", "store"}
    BY <2>1, <2>4
  <2> QED
    BY <2>3, <2>4, <2>6, <2>7, SoleFrom
<1>8. ASSUME NEW g \in Tools, \/ Opens(g) \/ Changes(g) \/ Rests(g)
                              \/ \E n : Notes(g, n)
      PROVE  SoleInv'
  <2>1. PICK a, b : Walks(g, a, b) /\ a \in {"open", "didchange", "wait", "noteopen", "change"}
                    /\ b \in {"noteopen", "wait", "done", "change", "didchange"}
    BY <1>8 DEF Opens, Changes, Rests, Notes
  <2>2. SUFFICES ASSUME Alone', Alone
                 PROVE  SoleInv'
    BY <1>0
  <2>3. \A h \in LSP!Actors \ {g} : pc'[h] = pc[h] /\ pc[h] \in {"idle", "done"}
    BY <2>1, <2>2, OnlyOne
  <2>4. /\ entry' = entry /\ lost' = lost
        /\ \A c \in 1..Len(clients) :
             clients'[c].server = clients[c].server /\ clients'[c].state = clients[c].state
        /\ \A p \in 1..Len(servers) : servers'[p].up => servers[p].up
    BY <1>8 DEF Opens, Changes, Rests, Notes, SameClients
  <2>5. pc[g] # "mark" /\ pc'[g] \notin {"new", "compare", "store", "mark", "init", "ready"} \cup Ending
    BY <2>1 DEF Walks, Ending
  <2>6. entry # 0 => /\ clients'[entry].state = clients[entry].state
                     /\ LSP!Server(entry)'.up => LSP!Server(entry).up
    <3>1. entry # 0 => entry \in 1..Len(clients) /\ clients[entry].server \in 1..Len(servers)
      OBVIOUS
    <3> QED
      BY <2>4, <3>1 DEF LSP!Server
  <2>7. ~(entry' # 0 /\ clients'[entry'].state = "stopped" /\ LSP!Server(entry)'.up)
    <3>1. \A h \in LSP!Actors : pc[h] # "mark"
      BY <2>3, <2>5
    <3> QED
      BY <1>1, <2>2, <2>4, <2>6, <3>1
  <2>8. lost' \subseteq {"errored"} /\ g \in LSP!Actors
    BY <1>1, <2>2, <2>4
  <2> QED
    BY <2>3, <2>5, <2>7, <2>8, SoleFrom
<1>9. CASE Revives
  <2> DEFINE r == hand["restarter"]
  <2>1. Walks("restarter", "recreate", "reinit") /\ entry' = entry /\ hand' = hand
    BY <1>9 DEF Revives
  <2>2. SUFFICES ASSUME Alone', Alone
                 PROVE  SoleInv'
    BY <1>0
  <2>3. \A h \in LSP!Actors \ {"restarter"} : pc'[h] = pc[h] /\ pc[h] \in {"idle", "done"}
    BY <2>1, <2>2, OnlyOne
  <2>4. pc["restarter"] = "recreate" /\ pc'["restarter"] = "reinit"
    BY <2>1 DEF Walks
  <2>5. entry = r /\ r \in 1..Len(clients)
    BY <1>1, <2>2, <2>4 DEF Ending, Handling
  <2>6. lost' = lost
    <3>1. \A h \in LSP!Actors \ {"restarter"} : ~LSP!Ends(h, r)
      BY <2>3 DEF LSP!Ends
    <3> QED
      BY <1>9, <2>5, <3>1 DEF Revives
  <2>7. clients'[entry'].state = "starting"
    BY <1>9, <2>1, <2>5 DEF Revives
  <2>8. lost' \subseteq {"errored"} /\ "restarter" \in LSP!Actors
    BY <1>1, <2>2, <2>6
  <2>9. pc'["restarter"] \notin {"new", "compare", "store", "mark", "init", "ready"} \cup Ending
    BY <2>4 DEF Ending
  <2> QED
    BY <2>3, <2>7, <2>8, <2>9, SoleFrom
<1>10. CASE (\E p \in 1..Len(servers) : Breaks(p)) \/ Still
  <2>1. /\ pc' = pc /\ entry' = entry /\ hand' = hand /\ clients' = clients /\ lost' = lost
        /\ \A p \in 1..Len(servers) : servers'[p].up => servers[p].up
    BY <1>10 DEF Breaks, Still
  <2> QED
    BY <1>0, <1>1, <2>1 DEF SoleInv, LSP!Server, LSP!Usable
<1> QED
  BY NextIsStep, <1>2, <1>3, <1>4, <1>5, <1>6, <1>7, <1>8, <1>9, <1>10 DEF Step

\* Unless a manager met another goroutine, a document that a client has as open
\* is open in its process.
LEMMA OpenIsKept ==
  ASSUME TypeInv, CrowdInv, DownInv, DistinctInv, UnsharedInv, EntryInv, OpenInv, [LSP!Next]_(LSP!vars)
  PROVE  OpenInv'
<1> USE KindsDiffer, TypesAre
<1>0. SUFFICES ASSUME NoManagerMet', faults' = 0, NEW c \in 1..Len(clients'), LSP!Server(c)'.up, ~LSP!Held(c)',
                      clients'[c].open # 0 \/ Noting(c)'
               PROVE  LSP!Server(c)'.opens # 0
  BY DEF OpenInv
<1>1. NoManagerMet /\ faults = 0
  BY <1>0, HistoriesGrow DEF NoManagerMet
<1>2. ASSUME c \in 1..Len(clients), LSP!Server(c).up, ~LSP!Held(c), clients[c].open # 0 \/ Noting(c)
      PROVE  LSP!Server(c).opens # 0
  BY <1>1, <1>2 DEF OpenInv
<1>3. \A h \in LSP!Actors : pc[h] \in Ended => ~LSP!Server(hand[h]).up
  BY <1>1 DEF DownInv
<1>4. ASSUME NEW g \in LSP!Actors, QuietStep(g)
      PROVE  LSP!Server(c)'.opens # 0
  <2>1. PICK a \in Labels, b \in Labels : Quiet(g, a, b)
    BY <1>4 DEF QuietStep
  <2>2. c \in 1..Len(clients) /\ clients'[c].open = clients[c].open /\ LSP!Server(c)' = LSP!Server(c)
    BY <1>0, <2>1 DEF Quiet, Keeps, LSP!Server
  <2>3. Noting(c)' => Noting(c)
    BY <2>1 DEF Quiet, Keeps, Moves, Noting, ToolMove, RestarterMove, StopperMove
  <2>4. ~LSP!Held(c)
    <3>1. SUFFICES ASSUME NEW h \in LSP!Actors, hand[h] = c, pc[h] \in
                            {"compare", "store", "close", "shutdown", "stopped", "recreate"}
                   PROVE  FALSE
      BY DEF LSP!Held
    <3>2. pc'[h] \notin {"compare", "store", "close", "shutdown", "stopped", "recreate"}
      BY <1>0, <2>1, <3>1 DEF LSP!Held, Quiet, Keeps
    <3>3. pc[h] \in {"stopped", "recreate"}
      BY <2>1, <3>1, <3>2 DEF Quiet, Moves, ToolMove, RestarterMove, StopperMove
    <3> QED
      BY <1>0, <1>3, <2>2, <3>1, <3>3 DEF Ended
  <2> QED
    BY <1>0, <1>2, <2>2, <2>3, <2>4
<1>5. ASSUME NEW g \in LSP!Actors, Empties(g)
      PROVE  LSP!Server(c)'.opens # 0
  <2>1. c \in 1..Len(clients) /\ hand[g] \in 1..Len(clients)
    BY <1>0, <1>5 DEF Empties, SameClients, Walks, Handling
  <2>2. c # hand[g]
    BY <1>0, <1>5 DEF Empties, Walks, LSP!Held
  <2>3. clients'[c].open = clients[c].open /\ LSP!Server(c)' = LSP!Server(c)
    BY <1>5, <2>1, <2>2 DEF Empties, SameClients, LSP!Server, DistinctInv
  <2>4. (Noting(c)' => Noting(c)) /\ (LSP!Held(c) => LSP!Held(c)')
    BY <1>5 DEF Empties, Walks, Noting, LSP!Held
  <2> QED
    BY <1>0, <1>2, <2>1, <2>3, <2>4
<1>6. ASSUME NEW g \in LSP!Actors, Stops(g)
      PROVE  LSP!Server(c)'.opens # 0
  <2>1. c \in 1..Len(clients) /\ hand[g] \in 1..Len(clients)
    BY <1>0, <1>6 DEF Stops, Walks, Handling
  <2>2. c # hand[g]
    BY <1>0, <1>6 DEF Stops, LSP!Server
  <2>3. clients'[c].open = clients[c].open /\ LSP!Server(c)' = LSP!Server(c)
    BY <1>6, <2>1, <2>2 DEF Stops, LSP!Server, DistinctInv
  <2>4. (Noting(c)' => Noting(c)) /\ (LSP!Held(c) => LSP!Held(c)')
    BY <1>6, <2>2 DEF Stops, Walks, LSP!AfterShutdown, Noting, LSP!Held
  <2> QED
    BY <1>0, <1>2, <2>1, <2>3, <2>4
<1>7. ASSUME NEW g \in LSP!Actors, Removes(g) \/ \E b : Takes(g, b)
      PROVE  LSP!Server(c)'.opens # 0
  <2>1. c \in 1..Len(clients) /\ clients' = clients /\ servers' = servers
    BY <1>0, <1>7 DEF Removes, Takes
  <2>2. (Noting(c)' => Noting(c)) /\ (LSP!Held(c) => LSP!Held(c)')
    <3>1. CASE Removes(g)
      BY <3>1 DEF Removes, Walks, Noting, LSP!Held
    <3>2. CASE \E b : Takes(g, b)
      BY <3>2 DEF Takes, Walks, Noting, LSP!Held
    <3> QED
      BY <1>7, <3>1, <3>2
  <2> QED
    BY <1>0, <1>2, <2>1, <2>2 DEF LSP!Server
<1>8. ASSUME NEW g \in Tools, Makes(g)
      PROVE  LSP!Server(c)'.opens # 0
  <2>1. c # Len(clients) + 1
    BY <1>0, <1>8 DEF Makes, Walks, LSP!Held
  <2>2. c \in 1..Len(clients)
    BY <1>8, <2>1 DEF Makes
  <2>3. clients'[c] = clients[c] /\ LSP!Server(c)' = LSP!Server(c)
    BY <1>8, <2>2 DEF Makes, LSP!Server
  <2>4. (Noting(c)' => Noting(c)) /\ (LSP!Held(c) => LSP!Held(c)')
    BY <1>8, <2>1 DEF Makes, Walks, Noting, LSP!Held
  <2> QED
    BY <1>0, <1>2, <2>2, <2>3, <2>4
<1>9. ASSUME NEW g \in Tools, Stores(g)
      PROVE  LSP!Server(c)'.opens # 0
  <2>1. c \in 1..Len(clients) /\ clients' = clients /\ servers' = servers
    BY <1>0, <1>9 DEF Stores
  <2>2. Noting(c)' => Noting(c)
    BY <1>9 DEF Stores, Walks, Noting
  <2>3. c # hand[g]
    <3>1. Unshared(g)
      BY <1>9 DEF Stores, Walks, Unshared
    <3>2. clients[hand[g]].open = 0 /\ \A h \in LSP!Actors \ {g} : hand[h] # hand[g]
      BY <3>1 DEF UnsharedInv
    <3>3. ~Noting(hand[g])
      BY <1>9, <3>2 DEF Noting, Stores, Walks
    <3> QED
      BY <1>0, <2>1, <2>2, <3>2, <3>3
  <2>4. LSP!Held(c) => LSP!Held(c)'
    BY <1>9, <2>3 DEF Stores, Walks, LSP!Held
  <2> QED
    BY <1>0, <1>2, <2>1, <2>2, <2>4 DEF LSP!Server
<1>10. ASSUME NEW g \in Tools, Opens(g)
       PROVE  LSP!Server(c)'.opens # 0
  <2>1. c \in 1..Len(clients) /\ hand[g] \in 1..Len(clients) /\ clients' = clients
    BY <1>0, <1>10 DEF Opens, Walks, Handling
  <2>2. CASE c = hand[g]
    <3>1. LSP!Server(c).opens \in Nat
      <4>1. LSP!Server(c) \in Process
        BY <2>1, ElementOfSeq DEF LSP!Server
      <4> QED
        BY <4>1 DEF Process
    <3>2. LSP!Server(c)'.opens = LSP!Server(c).opens + 1
      BY <1>10, <2>1, <2>2 DEF Opens, LSP!Server
    <3> QED
      BY <3>1, <3>2
  <2>3. CASE c # hand[g]
    <3>1. LSP!Server(c)' = LSP!Server(c)
      BY <1>10, <2>1, <2>3 DEF Opens, LSP!Server, DistinctInv
    <3>2. (Noting(c)' => Noting(c)) /\ (LSP!Held(c) => LSP!Held(c)')
      BY <1>10, <2>3 DEF Opens, Walks, Noting, LSP!Held
    <3> QED
      BY <1>0, <1>2, <2>1, <3>1, <3>2
  <2> QED
    BY <2>2, <2>3
<1>11. ASSUME NEW g \in Tools, NEW n, Notes(g, n)
       PROVE  LSP!Server(c)'.opens # 0
  <2>1. c \in 1..Len(clients) /\ servers' = servers /\ clients'[c].server = clients[c].server
    BY <1>0, <1>11 DEF Notes, SameClients
  <2>2. clients'[c].open # 0 \/ Noting(c)' => clients[c].open # 0 \/ Noting(c)
    BY <1>11, <2>1 DEF Notes, Walks, Noting
  <2>3. LSP!Held(c) => LSP!Held(c)'
    BY <1>11 DEF Notes, Walks, LSP!Held
  <2> QED
    BY <1>0, <1>2, <2>1, <2>2, <2>3 DEF LSP!Server
<1>12. ASSUME NEW g \in Tools, Changes(g) \/ Rests(g)
       PROVE  LSP!Server(c)'.opens # 0
  <2>1. /\ c \in 1..Len(clients) /\ clients' = clients
        /\ \A p \in 1..Len(servers) : /\ servers'[p].up => servers[p].up
                                      /\ servers'[p].opens = servers[p].opens
    BY <1>0, <1>12 DEF Changes, Rests
  <2>2. (Noting(c)' => Noting(c)) /\ (LSP!Held(c) => LSP!Held(c)')
    <3>1. /\ \A h \in LSP!Actors \ {g} : pc'[h] = pc[h] /\ hand'[h] = hand[h]
          /\ pc[g] \in {"didchange", "wait"} /\ pc'[g] \in {"wait", "done"}
      BY <1>12 DEF Changes, Rests, Walks
    <3> QED
      BY <3>1 DEF Noting, LSP!Held
  <2> QED
    BY <1>0, <1>2, <2>1, <2>2 DEF LSP!Server
<1>13. CASE Revives
  <2> DEFINE r == hand["restarter"]
  <2>1. /\ Walks("restarter", "recreate", "reinit") /\ c \in 1..Len(clients) /\ hand' = hand
        /\ r \in 1..Len(clients) /\ clients'[c].open = clients[c].open
    BY <1>0, <1>13 DEF Revives, Walks, Handling
  <2>2. Noting(c)' => Noting(c)
    BY <2>1 DEF Walks, Noting
  <2>3. c # r
    <3>1. clients[r].open = 0
      BY <1>1, <2>1 DEF EntryInv, Walks, Ending
    <3>2. ASSUME NEW h \in LSP!Actors, pc[h] = "noteopen"
          PROVE  FALSE
      <4>1. pc["restarter"] = "recreate" /\ "restarter" \in LSP!Actors /\ "restarter" \notin Tools
        BY <2>1 DEF Walks
      <4>2. h \in LSP!Actors \ {"restarter"} /\ pc[h] \notin {"idle", "done"}
        BY <3>2, <4>1
      <4>3. "restarter" \in Tools
        BY <1>0, <2>1, <4>1, <4>2, NoManagerBeside
      <4> QED
        BY <4>1, <4>3
    <3> QED
      BY <1>0, <2>1, <2>2, <3>1, <3>2 DEF Noting
  <2>4. LSP!Server(c)' = LSP!Server(c)
    BY <1>13, <2>1, <2>3 DEF Revives, LSP!Server
  <2>5. LSP!Held(c) => LSP!Held(c)'
    BY <2>1, <2>3 DEF Walks, LSP!Held
  <2> QED
    BY <1>0, <1>2, <2>1, <2>2, <2>4, <2>5
<1>14. CASE (\E p \in 1..Len(servers) : Breaks(p)) \/ Still
  BY <1>0, <1>2, <1>14 DEF Breaks, Still, Noting, LSP!Held, LSP!Server
<1> QED
  BY NextIsStep, <1>4, <1>5, <1>6, <1>7, <1>8, <1>9, <1>10, <1>11, <1>12, <1>13, <1>14 DEF Step

\* While no two were at work at once, it is open once, and the process knows no
\* later version than the client.
LEMMA OnceIsKept ==
  ASSUME TypeInv, CrowdInv, DistinctInv, EntryInv, OnceInv, [LSP!Next]_(LSP!vars)
  PROVE  OnceInv'
<1> USE KindsDiffer, TypesAre
<1> DEFINE Once(c) == LSP!Server(c).up =>
                        /\ clients[c].open = 0 /\ ~Noting(c) => LSP!Server(c).opens = 0
                        /\ clients[c].open # 0 => LSP!Server(c).version <= clients[c].open
                        /\ Noting(c) => LSP!Server(c).version <= 1
                        /\ clients[c].open # 0 \/ Noting(c) => LSP!Server(c).opens = 1
           Sent(g) == /\ pc[g] \in {"open", "noteopen"} => clients[hand[g]].open = 0
                      /\ pc[g] = "didchange" => seen[g] <= clients[hand[g]].open
<1>0. SUFFICES ASSUME Alone', faults' = 0
               PROVE  (\A c \in 1..Len(clients') : Once(c)') /\ \A g \in LSP!Actors : Sent(g)'
  BY DEF OnceInv
<1>1. Alone /\ NoManagerMet /\ faults = 0
  BY <1>0, HistoriesGrow DEF Alone, NoManagerMet
<1>2. (\A c \in 1..Len(clients) : Once(c)) /\ \A g \in LSP!Actors : Sent(g)
  BY <1>1 DEF OnceInv
<1>3. \A c \in 1..Len(clients) : LSP!Server(c) \in Process /\ clients[c] \in Client
  BY ElementOfSeq DEF LSP!Server
<1>4. ASSUME NEW g \in LSP!Actors, QuietStep(g)
      PROVE  (\A c \in 1..Len(clients') : Once(c)') /\ \A h \in LSP!Actors : Sent(h)'
  <2>1. PICK a \in Labels, b \in Labels : Quiet(g, a, b)
    BY <1>4 DEF QuietStep
  <2>2. /\ hand' = hand /\ Len(clients') = Len(clients)
        /\ \A c \in 1..Len(clients) : clients'[c].open = clients[c].open /\ LSP!Server(c)' = LSP!Server(c)
    BY <2>1 DEF Quiet, Keeps, LSP!Server
  <2>3. \A c \in 1..Len(clients) : Noting(c)' <=> Noting(c)
    BY <2>1 DEF Quiet, Keeps, Moves, Noting, ToolMove, RestarterMove, StopperMove
  <2>4. ASSUME NEW h \in LSP!Actors
        PROVE  Sent(h)'
    <3>1. pc'[h] \in {"open", "noteopen", "didchange"} =>
            \/ pc'[h] = pc[h] /\ seen'[h] = seen[h]
            \/ pc'[h] = "open" /\ clients[hand[h]].open = 0 /\ pc[h] = "ondemand"
      BY <2>1 DEF Quiet, Moves, Sees, Knows, ToolMove, RestarterMove, StopperMove
    <3> QED
      BY <1>2, <2>2, <3>1 DEF Handling
  <2>5. ASSUME NEW c \in 1..Len(clients)
        PROVE  Once(c)'
    <3>1. clients'[c].open = clients[c].open /\ LSP!Server(c)' = LSP!Server(c)
      BY <2>2
    <3>2. Noting(c)' <=> Noting(c)
      BY <2>3
    <3>3. Once(c)
      BY <1>2
    <3> QED
      BY <3>1, <3>2, <3>3
  <2> QED
    BY <2>2, <2>4, <2>5
<1>5. ASSUME NEW g \in LSP!Actors, NEW a, NEW b, Walks(g, a, b), a \notin {"idle", "done"} \/ b \notin {"idle", "done"},
             b \notin {"open", "noteopen", "didchange"}
      PROVE  /\ \A h \in LSP!Actors : Sent(h)'
             /\ \A c : ~Noting(c)'
             /\ \A c : Noting(c) => a = "noteopen" /\ hand[g] = c
  <2>1. \A h \in LSP!Actors \ {g} : pc'[h] = pc[h] /\ pc[h] \in {"idle", "done"}
    BY <1>0, <1>5, OnlyOne
  <2>2. pc[g] = a /\ pc'[g] = b
    BY <1>5 DEF Walks
  <2> QED
    BY <1>5, <2>1, <2>2 DEF Noting
<1>6. ASSUME NEW g \in LSP!Actors, Empties(g) \/ Stops(g)
      PROVE  (\A c \in 1..Len(clients') : Once(c)') /\ \A h \in LSP!Actors : Sent(h)'
  <2>1. /\ Walks(g, pc[g], pc'[g]) /\ pc[g] \in {"close", "shutdown"}
        /\ pc'[g] \in {"shutdown", "stopped", "tell", "delete"}
    BY <1>6 DEF Empties, Stops, LSP!AfterShutdown, Walks
  <2>0. PICK c \in 1..Len(clients) : c = hand[g]
    BY <2>1 DEF Handling
  <2>2. /\ \A h \in LSP!Actors : Sent(h)'
        /\ \A d : ~Noting(d)' /\ ~Noting(d)
    BY <1>5, <2>1
  <2>3. /\ c \in 1..Len(clients) /\ Len(clients') = Len(clients)
        /\ \A d \in 1..Len(clients) \ {c} : clients'[d].open = clients[d].open /\ LSP!Server(d)' = LSP!Server(d)
    BY <1>6, <2>0 DEF Empties, Stops, SameClients, LSP!Server, DistinctInv
  <2>4. LSP!Server(c)'.up => clients'[c].open = 0 /\ LSP!Server(c)'.opens = 0
    BY <1>6, <2>0 DEF Empties, Stops, SameClients, LSP!Server
  <2>5. Once(c)'
    BY <2>2, <2>4
  <2>6. \A d \in 1..Len(clients) \ {c} : Once(d)'
    BY <1>2, <2>2, <2>3
  <2> QED
    BY <2>2, <2>3, <2>5, <2>6
<1>7. ASSUME NEW g \in LSP!Actors, Removes(g) \/ Stores(g) \/ Rests(g) \/ \E b : Takes(g, b)
      PROVE  (\A c \in 1..Len(clients') : Once(c)') /\ \A h \in LSP!Actors : Sent(h)'
  <2>1. /\ Walks(g, pc[g], pc'[g]) /\ pc[g] \in {"delete", "store", "wait", "idle", "use"}
        /\ pc[g] \notin {"idle", "done"} \/ pc'[g] \notin {"idle", "done"}
        /\ pc'[g] \notin {"open", "noteopen", "didchange"}
        /\ clients' = clients /\ servers' = servers
    BY <1>7 DEF Removes, Stores, Rests, Takes, Walks
  <2>2. /\ \A h \in LSP!Actors : Sent(h)'
        /\ \A d : ~Noting(d)' /\ ~Noting(d)
    BY <1>5, <2>1
  <2> QED
    BY <1>2, <2>1, <2>2 DEF LSP!Server
<1>8. ASSUME NEW g \in Tools, Makes(g)
      PROVE  (\A c \in 1..Len(clients') : Once(c)') /\ \A h \in LSP!Actors : Sent(h)'
  <2>1. Walks(g, "new", "compare")
    BY <1>8 DEF Makes
  <2>2. /\ \A h \in LSP!Actors : Sent(h)'
        /\ \A d : ~Noting(d)' /\ ~Noting(d)
    BY <1>5, <2>1
  <2>3. \A c \in 1..Len(clients) : clients'[c] = clients[c] /\ LSP!Server(c)' = LSP!Server(c)
    BY <1>8 DEF Makes, LSP!Server
  <2>4. PICK n : n = Len(clients) + 1
    OBVIOUS
  <2>5. \A c \in 1..Len(clients') : c \in 1..Len(clients) \/ c = n
    BY <1>8, <2>4 DEF Makes
  <2>6. clients'[n].open = 0 /\ LSP!Server(n)'.opens = 0
    BY <1>8, <2>4 DEF Makes, LSP!Server
  <2>7. Once(n)'
    BY <2>2, <2>6
  <2>8. \A c \in 1..Len(clients) : Once(c)'
    BY <1>2, <2>2, <2>3
  <2> QED
    BY <2>2, <2>5, <2>7, <2>8
<1>9. ASSUME NEW g \in Tools, Opens(g)
      PROVE  (\A c \in 1..Len(clients') : Once(c)') /\ \A h \in LSP!Actors : Sent(h)'
  <2> DEFINE c == hand[g]
  <2>1. Walks(g, "open", "noteopen") /\ clients' = clients /\ hand' = hand
    BY <1>9 DEF Opens
  <2>2. /\ \A h \in LSP!Actors \ {g} : pc'[h] = pc[h] /\ pc[h] \in {"idle", "done"}
        /\ pc[g] = "open" /\ pc'[g] = "noteopen"
    BY <1>0, <2>1, OnlyOne DEF Walks
  <2>3. clients[c].open = 0 /\ c \in 1..Len(clients)
    BY <1>2, <2>2 DEF Handling
  <2>4. \A h \in LSP!Actors : Sent(h)'
    BY <2>1, <2>2, <2>3
  <2>5. (\A d : ~Noting(d)) /\ \A d : Noting(d)' <=> d = c
    BY <2>1, <2>2 DEF Noting
  <2>6. LSP!Server(c)'.opens = LSP!Server(c).opens + 1 /\ LSP!Server(c)'.version = 1 /\ LSP!Server(c).up
    BY <1>9, <2>1 DEF Opens, LSP!Server
  <2>7. Once(c)'
    BY <1>2, <2>1, <2>3, <2>5, <2>6
  <2>8. \A d \in 1..Len(clients) \ {c} : LSP!Server(d)' = LSP!Server(d)
    BY <1>9, <2>3 DEF Opens, LSP!Server, DistinctInv
  <2> QED
    BY <1>2, <2>1, <2>3, <2>4, <2>5, <2>7, <2>8
<1>10. ASSUME NEW g \in Tools, NEW n \in Nat \ {0}, Notes(g, n)
       PROVE  (\A c \in 1..Len(clients') : Once(c)') /\ \A h \in LSP!Actors : Sent(h)'
  <2> DEFINE c == hand[g]
  <2>1. /\ Walks(g, pc[g], pc'[g]) /\ hand' = hand /\ servers' = servers
        /\ \/ pc[g] = "noteopen" /\ pc'[g] = "change" /\ n = 1
           \/ /\ pc[g] = "change" /\ pc'[g] = "didchange" /\ n = clients[c].open + 1
              /\ clients[c].open # 0 /\ seen'[g] = n
        /\ Len(clients') = Len(clients)
        /\ \A d \in 1..Len(clients) :
             /\ clients'[d].server = clients[d].server
             /\ clients'[d].open = IF d = c THEN n ELSE clients[d].open
    BY <1>10 DEF Notes, Walks, SameClients
  <2>2. \A h \in LSP!Actors \ {g} : pc'[h] = pc[h] /\ pc[h] \in {"idle", "done"}
    BY <1>0, <2>1, OnlyOne
  <2>3. c \in 1..Len(clients) /\ clients'[c].open = n
    BY <2>1 DEF Handling
  <2>4. \A h \in LSP!Actors : Sent(h)'
    <3>1. \A h \in LSP!Actors \ {g} : Sent(h)'
      BY <2>2
    <3>2. Sent(g)'
      BY <2>1, <2>3
    <3> QED
      BY <3>1, <3>2
  <2>5. (\A d : ~Noting(d)') /\ \A d : Noting(d) => pc[g] = "noteopen" /\ d = c
    BY <2>1, <2>2 DEF Noting
  <2>6. \A d \in 1..Len(clients) : LSP!Server(d)' = LSP!Server(d)
    BY <2>1 DEF LSP!Server
  <2>7. Once(c)'
    <3>1. LSP!Server(c).version \in Nat /\ clients[c].open \in Nat
      BY <1>3, <2>3 DEF Process, Client
    <3>2. pc[g] = "noteopen" => Noting(c)
      BY DEF Noting
    <3> QED
      BY <1>2, <2>1, <2>3, <2>5, <2>6, <3>1, <3>2
  <2>8. ASSUME NEW d \in 1..Len(clients) \ {c}
        PROVE  Once(d)'
    <3>1. ~Noting(d)' /\ ~Noting(d)
      BY <2>5
    <3>2. clients'[d].open = clients[d].open
      BY <2>1
    <3>3. LSP!Server(d)' = LSP!Server(d)
      BY <2>6
    <3>4. Once(d)
      BY <1>2
    <3> QED
      BY <3>1, <3>2, <3>3, <3>4
  <2> QED
    BY <2>1, <2>4, <2>7, <2>8
<1>11. ASSUME NEW g \in Tools, Changes(g)
       PROVE  (\A c \in 1..Len(clients') : Once(c)') /\ \A h \in LSP!Actors : Sent(h)'
  <2> DEFINE c == hand[g]
  <2>0. Walks(g, "didchange", "wait")
    BY <1>11 DEF Changes
  <2>1. clients' = clients /\ hand' = hand
    BY <1>11 DEF Changes
  <2>2. /\ \A h \in LSP!Actors : Sent(h)'
        /\ \A d : ~Noting(d)' /\ ~Noting(d)
    BY <1>5, <2>0
  <2>3. pc[g] = "didchange" /\ c \in 1..Len(clients)
    BY <2>0 DEF Walks, Handling
  <2>4. seen[g] <= clients[c].open
    BY <1>2, <2>3
  <2>5. LSP!Server(c)'.version = seen[g] /\ LSP!Server(c)'.opens = LSP!Server(c).opens /\ LSP!Server(c).up
    BY <1>11, <2>1 DEF Changes, LSP!Server
  <2>6. Once(c)'
    BY <1>2, <2>1, <2>2, <2>3, <2>4, <2>5
  <2>7. \A d \in 1..Len(clients) \ {c} : LSP!Server(d)' = LSP!Server(d)
    BY <1>11, <2>3 DEF Changes, LSP!Server, DistinctInv
  <2> QED
    BY <1>2, <2>1, <2>2, <2>6, <2>7
<1>12. CASE Revives
  <2>0. Walks("restarter", "recreate", "reinit")
    BY <1>12 DEF Revives
  <2>1. PICK r \in 1..Len(clients) : r = hand["restarter"]
    BY <2>0 DEF Walks, Handling
  <2>2. /\ \A h \in LSP!Actors : Sent(h)'
        /\ \A d : ~Noting(d)' /\ ~Noting(d)
    <3>1. "restarter" \in LSP!Actors /\ "recreate" \notin {"idle", "done", "noteopen"}
          /\ "reinit" \notin {"open", "noteopen", "didchange"}
      OBVIOUS
    <3> QED
      BY <1>5, <2>0, <3>1
  <2>3. clients[r].open = 0
    BY <1>1, <2>0, <2>1 DEF EntryInv, Walks, Ending
  <2>4. clients'[r].open = 0 /\ LSP!Server(r)'.opens = 0
    BY <1>12, <2>1, <2>3 DEF Revives, LSP!Server
  <2>5. /\ Len(clients') = Len(clients)
        /\ \A d \in 1..Len(clients) \ {r} : clients'[d] = clients[d] /\ LSP!Server(d)' = LSP!Server(d)
    BY <1>12, <2>1 DEF Revives, LSP!Server
  <2>6. Once(r)'
    BY <2>2, <2>4
  <2>7. \A d \in 1..Len(clients) \ {r} : Once(d)'
    BY <1>2, <2>2, <2>5
  <2> QED
    BY <2>2, <2>5, <2>6, <2>7
<1>13. CASE (\E p \in 1..Len(servers) : Breaks(p)) \/ Still
  BY <1>0, <1>2, <1>13 DEF Breaks, Still, Noting, LSP!Server
<1> QED
  BY NextIsStep, <1>4, <1>6, <1>7, <1>8, <1>9, <1>10, <1>11, <1>12, <1>13 DEF Step

-----------------------------------------------------------------------------
(* Theorems *)

LEMMA InitInvariant ==
  ASSUME LSP!Init
  PROVE  IInv
<1> USE KindsDiffer
<1>1. /\ entry = 0 /\ clients = <<>> /\ servers = <<>> /\ faults = 0 /\ overlapped = {} /\ lost = {}
      /\ pc = [g \in LSP!Actors |-> "idle"]
      /\ hand = [g \in LSP!Actors |-> 0] /\ seen = [g \in LSP!Actors |-> 0]
  BY DEF LSP!Init
<1>2. Len(clients) = 0 /\ Len(servers) = 0 /\ clients \in Seq(Client) /\ servers \in Seq(Process)
  BY <1>1
<1>3. \A g \in LSP!Actors : pc[g] = "idle"
  BY <1>1
<1>4. TypeInv
  BY <1>1, <1>2, <1>3 DEF TypeInv, DataInv, PlaceInv, Labels, ToolLabels, RestarterLabels, StopperLabels,
     Handling
<1>5. CrowdInv /\ DownInv
  BY <1>3 DEF CrowdInv, DownInv, Works, Ended
<1>6. SoleInv
  BY <1>1, <1>3 DEF SoleInv, Ending
<1>7. ReachInv /\ DistinctInv
  BY <1>2 DEF ReachInv, DistinctInv
<1>8. UnsharedInv
  BY <1>3 DEF UnsharedInv, Unshared
<1>9. EntryInv
  BY <1>1, <1>3 DEF EntryInv, Ending
<1>10. OpenInv /\ OnceInv
  BY <1>2, <1>3 DEF OpenInv, OnceInv
<1> QED
  BY <1>4, <1>5, <1>6, <1>7, <1>8, <1>9, <1>10 DEF IInv

LEMMA StepInvariant ==
  ASSUME IInv, [LSP!Next]_(LSP!vars)
  PROVE  IInv'
BY TypeIsKept, CrowdIsKept, SoleIsKept, DownIsKept, ReachIsKept, DistinctIsKept, UnsharedIsKept, EntryIsKept,
   OpenIsKept, OnceIsKept DEF IInv

LEMMA InvariantImplies ==
  ASSUME IInv
  PROVE  LSP!ServersAreReachable /\ LSP!DocumentsAgree
<1> USE TypesAre DEF IInv
<1>1. DOMAIN clients = 1..Len(clients) /\ DOMAIN servers = 1..Len(servers)
  OBVIOUS
<1>2. LSP!ServersAreReachable
  BY <1>1 DEF SoleInv, Alone, ReachInv, LSP!ServersAreReachable
<1>3. ASSUME NEW c \in DOMAIN clients, clients[c].open # 0, LSP!Server(c).up, faults = 0, ~LSP!Held(c)
      PROVE  /\ "managers" \notin overlapped => LSP!Server(c).opens >= 1
             /\ overlapped = {} => LSP!Server(c).opens = 1 /\ LSP!Server(c).version <= clients[c].open
  <2>1. LSP!Server(c).opens \in Nat
    <3>1. LSP!Server(c) \in Process
      BY <1>1, ElementOfSeq DEF LSP!Server
    <3> QED
      BY <3>1 DEF Process
  <2> QED
    BY <1>1, <1>3, <2>1 DEF OpenInv, NoManagerMet, OnceInv, Alone
<1> QED
  BY <1>2, <1>3 DEF LSP!DocumentsAgree

\* A run of the App is a run of its language servers.
LEMMA AppRunsServers ==
  /\ AppInit => LSP!Init
  /\ [AppNext]_<<part, vars, languageServers>> => [LSP!Next]_(LSP!vars)
BY DEF AppInit, AppNext, Live, Serve, languageServers, LSP!vars

\* The invariant of the language servers: every process that runs is the one in
\* the map or in the hands of a goroutine that is about to store or close it.
THEOREM ServersInvariant == AppSpec => []IInv
<1>1. AppInit => IInv
  BY AppRunsServers, InitInvariant
<1>2. IInv /\ [AppNext]_<<part, vars, languageServers>> => IInv'
  BY AppRunsServers, StepInvariant
<1> QED
  BY <1>1, <1>2, PTL DEF AppSpec

\* KillAll reaches every process that runs, unless it was lost in one of the
\* four ways; with one goroutine at work, in one (manager.go:213, 328).
THEOREM ServersCanBeReached == AppSpec => []ServersAreReachable
<1>1. IInv => ServersAreReachable
  BY InvariantImplies DEF ServersAreReachable
<1> QED
  BY <1>1, ServersInvariant, PTL

\* Client and server agree on the documents that are open, as long as the
\* server does not fail (client.go:360, 428).
THEOREM OpenDocumentsAgree == AppSpec => []DocumentsAgree
<1>1. IInv => DocumentsAgree
  BY InvariantImplies DEF DocumentsAgree
<1> QED
  BY <1>1, ServersInvariant, PTL
=============================================================================

--------------------------- MODULE MultiplexProofs ---------------------------
(***************************************************************************)
(* Proofs about Multiplex: a result is complete and has every intent once,  *)
(* no intent is run twice but for its recoveries until the queue is written *)
(* from a stale read, and after Stop no worker runs a turn, for any number  *)
(* of workers and intents.  Proofs about the algorithms, for every input:   *)
(* of the partition with which the supervisor begins, of the loop           *)
(* detection, of the compaction, and of the edits of a document, which come *)
(* to what they are when all are made at once.  They share the lemmas about *)
(* least numbers, recursion and folds, and so this module.                  *)
(***************************************************************************)
EXTENDS Multiplex, Algorithms, FiniteSetTheorems, SequenceTheorems,
        WellFoundedInduction, TLAPS

-----------------------------------------------------------------------------
(* Sequences of results.                                                   *)

\* No two results of o are of one intent.
Distinct(o) == \A i, j \in DOMAIN o : i # j => o[i].intent # o[j].intent

\* All results of o are of the first n intents.
Among(o, n) == \A i \in DOMAIN o : o[i].intent <= n

\* No result of o is of the intent i.
Lacks(o, i) == \A k \in DOMAIN o : o[k].intent # i

\* The first n intents are as many as that.
LEMMA IntentsAreFinite ==
  /\ IntentBound \in Nat \ {0} /\ Intents \subseteq Nat
  /\ \A n \in Nat : IsFiniteSet(1..n) /\ Cardinality(1..n) = n
<1>1. IntentBound \in Nat \ {0} /\ Intents \subseteq Nat
  BY IntentBoundIsPositive DEF Intents
<1>2. ASSUME NEW n \in Nat PROVE IsFiniteSet(1..n) /\ Cardinality(1..n) = n
  BY FS_Interval
<1> QED
  BY <1>1, <1>2

\* A set that is mapped one to one into another has no more elements.
LEMMA OneToOne ==
  ASSUME NEW S, NEW T, IsFiniteSet(S), IsFiniteSet(T),
         NEW f \in [S -> T], \A x, y \in S : x # y => f[x] # f[y]
  PROVE  ~(Cardinality(T) < Cardinality(S))
<1> SUFFICES ASSUME Cardinality(T) < Cardinality(S) PROVE FALSE
  OBVIOUS
<1>1. \E x, y \in S : x # y /\ f[x] = f[y]
  BY FS_PigeonHole, Zenon
<1> QED
  BY <1>1

\* Distinct results of the first n intents are no more than n, and when they are
\* as many every intent is among them.
LEMMA DistinctAreAll ==
  ASSUME NEW n \in Nat, NEW s \in Seq(Results), Distinct(s), Among(s, n)
  PROVE  /\ Len(s) <= n
         /\ Len(s) >= n => {s[i].intent : i \in DOMAIN s} = 1..n
<1> DEFINE D == 1..Len(s)
           N == 1..n
           f == [k \in D |-> s[k].intent]
<1>0. IsFiniteSet(N) /\ Cardinality(N) = n
  BY IntentsAreFinite
<1>1. /\ Len(s) \in Nat /\ DOMAIN s = D /\ \A k \in D : s[k] \in Results
      /\ IsFiniteSet(D) /\ Cardinality(D) = Len(s)
  <2>1. Len(s) \in Nat /\ DOMAIN s = D /\ \A k \in D : s[k] \in Results
    OBVIOUS
  <2> QED
    BY <2>1, IntentsAreFinite
<1>2. f \in [D -> N]
  <2>1. \A k \in D : s[k].intent \in Intents /\ s[k].intent <= n
    BY <1>1 DEF Results, Among
  <2>2. \A k \in D : s[k].intent \in N
    BY <2>1 DEF Intents
  <2> QED
    BY <2>2
<1>3. \A x, y \in D : x # y => f[x] # f[y]
  BY <1>1 DEF Distinct
<1>4. Len(s) <= n
  <2>1. ASSUME Cardinality(N) < Cardinality(D) PROVE FALSE
    <3>1. IsFiniteSet(D) /\ IsFiniteSet(N)
      BY <1>0, <1>1
    <3> HIDE DEF f, D, N
    <3> QED
      BY <1>2, <1>3, <2>1, <3>1, OneToOne
  <2> QED
    BY <1>0, <1>1, <2>1
<1>5. ASSUME Len(s) >= n, NEW i \in N, \A k \in D : f[k] # i
      PROVE  FALSE
  <2> DEFINE T == N \ {i}
  <2>1. IsFiniteSet(T) /\ Cardinality(T) = n - 1
    BY <1>0, FS_RemoveElement
  <2>2. f \in [D -> T]
    BY <1>2, <1>5
  <2>3. Cardinality(T) < Cardinality(D)
    BY <1>1, <1>5, <2>1
  <2>4. IsFiniteSet(D) /\ IsFiniteSet(T)
    BY <1>1, <2>1
  <2> HIDE DEF f, D, T
  <2> QED
    BY <1>3, <2>2, <2>3, <2>4, OneToOne
<1>6. ASSUME Len(s) >= n PROVE {s[i].intent : i \in DOMAIN s} = N
  <2>1. \A i \in N : \E k \in D : f[k] = i
    BY <1>5, <1>6
  <2>2. \A k \in D : f[k] = s[k].intent /\ f[k] \in N
    BY <1>2
  <2> QED
    BY <1>1, <2>1, <2>2
<1> QED
  BY <1>4, <1>6
\* A result that is handed over keeps what is known of the results.
LEMMA HandedOver ==
  ASSUME NEW s \in Seq(Results), NEW r \in Results, NEW n \in Nat,
         Distinct(s), Among(s, n), Lacks(s, r.intent), r.intent <= n
  PROVE  /\ Append(s, r) \in Seq(Results) /\ Distinct(Append(s, r)) /\ Among(Append(s, r), n)
         /\ \A i : Lacks(s, i) /\ i # r.intent => Lacks(Append(s, r), i)
<1> DEFINE t == Append(s, r)
<1>1. /\ t \in Seq(Results) /\ DOMAIN t = 1..(Len(s) + 1) /\ DOMAIN s = 1..Len(s) /\ Len(s) \in Nat
      /\ t[Len(s) + 1] = r /\ \A i \in 1..Len(s) : t[i] = s[i]
  OBVIOUS
<1> HIDE DEF t
<1>2. Distinct(t) /\ Among(t, n) /\ \A i : Lacks(s, i) /\ i # r.intent => Lacks(t, i)
  <2>1. \A k \in DOMAIN t : k \in DOMAIN s \/ k = Len(s) + 1
    BY <1>1
  <2>2. Distinct(t)
    BY <1>1, <2>1 DEF Distinct, Lacks
  <2>3. Among(t, n)
    BY <1>1, <2>1 DEF Among
  <2>4. \A i : Lacks(s, i) /\ i # r.intent => Lacks(t, i)
    BY <1>1, <2>1 DEF Lacks
  <2> QED
    BY <2>2, <2>3, <2>4
<1> QED
  BY <1>1, <1>2 DEF t

\* A result that is received goes from the head of the channel to the end of
\* the collected ones, one that is sent to the end of both.
LEMMA Received ==
  ASSUME NEW g \in Seq(Results), NEW c \in Seq(Results)
  PROVE  /\ c # <<>> => /\ Append(g, Head(c)) \o Tail(c) = g \o c
                        /\ Append(g, Head(c)) \in Seq(Results) /\ Tail(c) \in Seq(Results)
                        /\ Len(Tail(c)) = Len(c) - 1 /\ Len(Append(g, Head(c))) = Len(g) + 1
         /\ \A r \in Results : g \o Append(c, r) = Append(g \o c, r)
<1>1. ASSUME c # <<>>
      PROVE  /\ Append(g, Head(c)) \o Tail(c) = g \o c
             /\ Append(g, Head(c)) \in Seq(Results) /\ Tail(c) \in Seq(Results)
             /\ Len(Tail(c)) = Len(c) - 1 /\ Len(Append(g, Head(c))) = Len(g) + 1
  <2>1. Head(c) \in Results /\ Tail(c) \in Seq(Results) /\ Len(Tail(c)) = Len(c) - 1
    BY <1>1
  <2>2. Append(g, Head(c)) \o Tail(c) = g \o c
    BY <1>1, <2>1
  <2>3. Append(g, Head(c)) \in Seq(Results) /\ Len(Append(g, Head(c))) = Len(g) + 1
    BY <2>1
  <2> QED
    BY <2>1, <2>2, <2>3
<1>2. ASSUME NEW r \in Results PROVE g \o Append(c, r) = Append(g \o c, r)
  OBVIOUS
<1> QED
  BY <1>1, <1>2

\* What is known of a whole is known of its beginning.
LEMMA DistinctPrefix ==
  ASSUME NEW g \in Seq(Results), NEW c \in Seq(Results), Distinct(g \o c)
  PROVE  Distinct(g) /\ \A n : Among(g \o c, n) => Among(g, n)
<1>1. DOMAIN g \subseteq DOMAIN (g \o c) /\ \A i \in DOMAIN g : (g \o c)[i] = g[i]
  OBVIOUS
<1> QED
  BY <1>1 DEF Distinct, Among
-----------------------------------------------------------------------------
(* The invariant.                                                          *)

\* The intents that have been dispatched and are in the channel no more.
taken == sent - Len(intentChan)

\* The channel of intents holds the last ones that were dispatched, in order.
ChanInv ==
  /\ exec \in {"dispatching", "waiting", "stopping", "stopped"}
  /\ expected \in Intents
  /\ sent \in 0..expected /\ (exec = "dispatching" => sent < expected)
  /\ intentChan \in Seq(Intents) /\ Len(intentChan) <= PoolSize /\ Len(intentChan) <= sent
  /\ \A k \in DOMAIN intentChan : intentChan[k] = taken + k

\* The worker has an intent; its Run has a prompt.
Active(w) == wpc[w] \notin {"idle", "stopped"}
InRun(w) == wpc[w] \notin {"idle", "send", "stopped"}

\* Workers are at different intents that were taken.
WorkInv ==
  /\ wpc \in [Workers -> Phases] /\ job \in [Workers -> Intents \union {None}]
  /\ \A w \in Workers :
       /\ Active(w) => /\ job[w] \in Intents /\ job[w] <= taken
                       /\ \A v \in Workers : Active(v) /\ v # w => job[v] # job[w]
       /\ exec = "stopped" => wpc[w] = "stopped"

\* A Run is for a prompt, it has read one when it takes the next, and a result
\* that is sent is of the worker's intent.
RunInv ==
  /\ call \in [Workers -> Intents \union {None}] /\ res \in [Workers -> Results \union {None}]
  /\ local \in [Workers -> Seq(Intents)]
  /\ \A w \in Workers : /\ InRun(w) => call[w] \in Intents
                        /\ wpc[w] = "take" => local[w] # <<>>
                        /\ wpc[w] = "send" => res[w] \in Results /\ res[w].intent = job[w]

\* The entry is some worker's, and a worker does not rest while a Del of its
\* Runs is due.
FrameInv ==
  /\ frames \in [Workers -> Nat] /\ busy \in BOOLEAN
  /\ busy => \E w \in Workers : frames[w] # 0
  /\ \A w \in Workers : frames[w] # 0 => Active(w)

QueueInv ==
  /\ queue \in Seq(Intents) /\ retried \in Seq(Intents) /\ Len(retried) <= MaxRetries
  /\ runs \in [Intents -> Nat] /\ clobbered \in BOOLEAN

\* The results collected or under way are of different intents, which were
\* taken and at which no worker is any more.
ResultsInv ==
  /\ got \in Seq(Results) /\ resultChan \in Seq(Results) /\ Len(resultChan) <= PoolSize
  /\ Distinct(got \o resultChan) /\ Among(got \o resultChan, taken)
  /\ \A w \in Workers : Active(w) => Lacks(got \o resultChan, job[w])

\* The task is complete only with as many results as intents, and only then is
\* there a combination.
TaskInv ==
  /\ agg \in {"collecting", "notifying", "notified"} /\ collecting \in BOOLEAN
  /\ box \in Combined \union {None} /\ outcome \in Combined \union {None}
  /\ ctxDone \in BOOLEAN /\ supDone \in BOOLEAN
  /\ agg # "collecting" => Len(got) >= expected
  /\ box # None \/ outcome # None => agg = "notified"

IInv == ChanInv /\ WorkInv /\ RunInv /\ FrameInv /\ QueueInv /\ ResultsInv /\ TaskInv

\* The invariant holds initially.
LEMMA InvInit == Init => IInv
<1> SUFFICES ASSUME Init PROVE IInv
  OBVIOUS
<1>1. /\ IntentBound \in Nat \ {0} /\ PoolSize \in Nat /\ MaxRetries \in Nat
      /\ expected \in Intents /\ Intents \subseteq Nat \ {0}
  BY IntentsAreFinite, WorkersAreFinite, MaxRetriesIsNatural, FS_CardinalityType
     DEF Intents, PoolSize, Init
<1>2. ChanInv
  BY <1>1 DEF Init, ChanInv
<1>3. WorkInv /\ RunInv /\ FrameInv
  <2>1. WorkInv
    BY <1>1 DEF Init, WorkInv, Active, Phases
  <2>2. RunInv
    BY <1>1 DEF Init, RunInv, InRun, Phases
  <2>3. ~busy /\ busy \in BOOLEAN
    BY Zenon DEF Init
  <2>4. FrameInv
    BY <2>3 DEF Init, FrameInv
  <2> QED
    BY <2>1, <2>2, <2>4
<1>4. QueueInv
  <2>1. clobbered \in BOOLEAN
    BY Zenon DEF Init
  <2> QED
    BY <1>1, <2>1 DEF Init, QueueInv
<1>5. ResultsInv
  <2>1. <<>> \o <<>> = <<>> /\ Distinct(<<>>)
    BY DEF Distinct
  <2> QED
    BY <1>1, <2>1 DEF Init, ResultsInv, Distinct, Among, Lacks, Active
<1>6. TaskInv
  BY DEF Init, TaskInv
<1> QED
  BY <1>2, <1>3, <1>4, <1>5, <1>6 DEF IInv

\* A Run that goes on at its worker's intent.
LEMMA RunGoesOn ==
  ASSUME IInv, NEW w \in Workers, NEW l \in Phases, l \notin {"idle", "stopped"},
         Active(w), wpc' = [wpc EXCEPT ![w] = l],
         UNCHANGED <<supervisor, intentChan, resultChan, job, aggregator, ctxDone>>,
         RunInv', frames' = frames, busy' \in {busy, FALSE}, QueueInv'
  PROVE  IInv'
<1>1. /\ exec' = exec /\ expected' = expected /\ sent' = sent /\ intentChan' = intentChan
      /\ taken' = taken /\ resultChan' = resultChan /\ got' = got /\ job' = job
      /\ UNCHANGED <<outcome, supDone, agg, collecting, box, ctxDone>>
  BY DEF supervisor, aggregator, taken
<1>2. wpc' \in [Workers -> Phases] /\ \A v \in Workers : Active(v)' <=> Active(v)
  BY DEF Active, IInv, WorkInv
<1>3. ChanInv' /\ TaskInv'
  BY <1>1 DEF IInv, ChanInv, TaskInv
<1>4. ResultsInv'
  BY <1>1, <1>2 DEF IInv, ResultsInv
<1>5. exec # "stopped"
  BY DEF IInv, WorkInv, Active
<1>6. WorkInv'
  BY <1>1, <1>2, <1>5 DEF IInv, WorkInv
<1>7. FrameInv'
  <2>1. busy' \in BOOLEAN /\ (busy' => busy)
    <3>1. busy \in BOOLEAN /\ (busy' = busy \/ busy' = FALSE)
      BY DEF IInv, FrameInv
    <3>2. CASE busy' = busy
      BY <3>1, <3>2, SMT
    <3>3. CASE busy' = FALSE
      BY <3>3, Zenon
    <3> QED
      BY <3>1, <3>2, <3>3
  <2> QED
    BY <1>2, <2>1 DEF IInv, FrameInv
<1> QED
  BY <1>3, <1>4, <1>6, <1>7 DEF IInv

\* A queue that is read has intents only.
LEMMA QueueHasIntents ==
  ASSUME NEW q \in Seq(Intents)
  PROVE  /\ q # <<>> => Head(q) \in Intents /\ Tail(q) \in Seq(Intents)
         /\ \A i \in Intents : Append(q, i) \in Seq(Intents)
OBVIOUS

\* A write of the queue that is not from a stale read.
LEMMA Written ==
  ASSUME NEW w \in Workers, NEW q, WriteQueue(w, q)
  PROVE  /\ queue' = q /\ local' = [local EXCEPT ![w] = <<>>] /\ clobbered' \in BOOLEAN
         /\ ~clobbered' => ~clobbered /\ queue = local[w]
BY Zenon DEF WriteQueue

\* A Run moves on within itself, with the prompt i.
LEMMA MovesOn ==
  ASSUME IInv, NEW w \in Workers, NEW l \in Phases, l \notin {"idle", "send", "stopped"},
         InRun(w), Goto(w, l), NEW i \in Intents, call' = [call EXCEPT ![w] = i],
         NEW q \in Seq(Intents), local' = [local EXCEPT ![w] = q], l = "take" => q # <<>>,
         frames' = frames, busy' \in {busy, FALSE}, QueueInv'
  PROVE  IInv'
<1>1. /\ wpc' = [wpc EXCEPT ![w] = l] /\ res' = res /\ job' = job
      /\ UNCHANGED <<supervisor, intentChan, resultChan, job, aggregator, ctxDone>>
  BY DEF Goto
<1>2. wpc \in [Workers -> Phases] /\ Active(w)
  BY DEF IInv, WorkInv, InRun, Active
<1>3. /\ call' \in [Workers -> Intents \union {None}] /\ local' \in [Workers -> Seq(Intents)]
      /\ call'[w] = i /\ local'[w] = q /\ wpc'[w] = l
      /\ \A v \in Workers \ {w} : call'[v] = call[v] /\ local'[v] = local[v] /\ wpc'[v] = wpc[v]
  BY <1>1, <1>2 DEF IInv, RunInv
<1>4. RunInv'
  <2> SUFFICES ASSUME NEW v \in Workers
               PROVE  /\ InRun(v)' => call'[v] \in Intents
                      /\ wpc'[v] = "take" => local'[v] # <<>>
                      /\ wpc'[v] = "send" => res[v] \in Results /\ res[v].intent = job[v]
    BY <1>1, <1>3 DEF RunInv, IInv
  <2>1. CASE v = w
    BY <1>3, <2>1
  <2>2. CASE v # w
    BY <1>3, <2>2 DEF IInv, RunInv, InRun
  <2> QED
    BY <2>1, <2>2
<1> QED
  BY <1>1, <1>2, <1>4, RunGoesOn

\* A Run and its callers return.
LEMMA Finishes ==
  ASSUME IInv, NEW w \in Workers, InRun(w),
         NEW failed \in BOOLEAN, NEW text \in BOOLEAN, Finish(w, failed, text),
         NEW q \in Seq(Intents), local' = [local EXCEPT ![w] = q],
         frames' = frames, busy' = busy, QueueInv'
  PROVE  IInv'
<1> DEFINE r == [intent |-> job[w], failed |-> failed, text |-> text]
<1>1. /\ wpc' = [wpc EXCEPT ![w] = "send"] /\ res' = [res EXCEPT ![w] = r]
      /\ call' = [call EXCEPT ![w] = None] /\ job' = job
      /\ UNCHANGED <<supervisor, intentChan, resultChan, job, aggregator, ctxDone>>
  BY DEF Finish
<1>2. wpc \in [Workers -> Phases] /\ Active(w) /\ job[w] \in Intents
  BY DEF IInv, WorkInv, InRun, Active
<1>3. r \in Results /\ r.intent = job[w]
  BY <1>2 DEF Results
<1> HIDE DEF r
<1>4. /\ call' \in [Workers -> Intents \union {None}] /\ local' \in [Workers -> Seq(Intents)]
      /\ res' \in [Workers -> Results \union {None}] /\ res'[w] = r /\ wpc'[w] = "send"
      /\ \A v \in Workers \ {w} : /\ call'[v] = call[v] /\ local'[v] = local[v]
                                  /\ res'[v] = res[v] /\ wpc'[v] = wpc[v]
  BY <1>1, <1>2, <1>3 DEF IInv, RunInv
<1>5. RunInv'
  <2> SUFFICES ASSUME NEW v \in Workers
               PROVE  /\ InRun(v)' => call'[v] \in Intents
                      /\ wpc'[v] = "take" => local'[v] # <<>>
                      /\ wpc'[v] = "send" => res'[v] \in Results /\ res'[v].intent = job[v]
    BY <1>1, <1>4 DEF RunInv
  <2>1. CASE v = w
    BY <1>3, <1>4, <2>1 DEF InRun
  <2>2. CASE v # w
    BY <1>4, <2>2 DEF IInv, RunInv, InRun
  <2> QED
    BY <2>1, <2>2
<1>6. "send" \in Phases
  BY DEF Phases
<1> QED
  BY <1>1, <1>2, <1>5, <1>6, RunGoesOn

\* The steps of a Run but its registration and its Del.
LEMMA RunKeeps ==
  ASSUME IInv, NEW w \in Workers,
         \/ CheckBusy(w) \/ ReadToAppend(w) \/ Enqueue(w) \/ LoadFails(w)
         \/ ReadToDrain(w) \/ Drain(w) \/ TurnEnds(w) \/ TurnFails(w) \/ TurnRecovers(w)
         \/ ReadNext(w) \/ TakeNext(w) \/ Answer(w)
  PROVE  IInv'
<1>0. /\ wpc \in [Workers -> Phases] /\ local \in [Workers -> Seq(Intents)]
      /\ call \in [Workers -> Intents \union {None}]
      /\ queue \in Seq(Intents) /\ <<>> \in Seq(Intents) /\ local[w] \in Seq(Intents)
      /\ local = [local EXCEPT ![w] = local[w]] /\ call = [call EXCEPT ![w] = call[w]]
      /\ (InRun(w) => call[w] \in Intents)
  BY DEF IInv, WorkInv, RunInv, QueueInv
<1>1. CASE CheckBusy(w)
  <2>1. /\ wpc[w] = "run" /\ Goto(w, IF busy THEN "enqueue" ELSE "register")
        /\ UNCHANGED <<call, frames, local, runs, busy, queue, retried, clobbered>>
    BY <1>1 DEF CheckBusy, gate
  <2>2. PICK l \in {"enqueue", "register"} : Goto(w, l)
    BY <2>1
  <2>3. QueueInv' /\ InRun(w) /\ l \in Phases
    BY <2>1 DEF IInv, QueueInv, InRun, Phases
  <2> QED
    BY <1>0, <2>1, <2>2, <2>3, MovesOn
<1>2. CASE ReadToAppend(w)
  <2>1. /\ wpc[w] = "enqueue" /\ Goto(w, "append") /\ local' = [local EXCEPT ![w] = queue]
        /\ UNCHANGED <<call, frames, runs, busy, queue, retried, clobbered>>
    BY <1>2 DEF ReadToAppend, ReadQueue, gate
  <2>2. QueueInv' /\ InRun(w) /\ "append" \in Phases
    BY <2>1 DEF IInv, QueueInv, InRun, Phases
  <2>3. /\ "append" \notin {"idle", "send", "stopped"} /\ ("append" = "take" => queue # <<>>)
        /\ busy' \in {busy, FALSE}
        /\ call' = [call EXCEPT ![w] = call[w]] /\ local' = [local EXCEPT ![w] = queue]
    BY <1>0, <2>1
  <2> QED
    BY <1>0, <2>1, <2>2, <2>3, MovesOn, Zenon
<1>3. CASE Enqueue(w)
  <2>1. /\ wpc[w] = "append" /\ Finish(w, FALSE, FALSE) /\ local' = [local EXCEPT ![w] = <<>>]
        /\ queue' = Append(local[w], call[w]) /\ clobbered' \in BOOLEAN
        /\ UNCHANGED <<frames, runs, busy, retried>>
    BY <1>3, Written DEF Enqueue
  <2>2. InRun(w)
    BY <2>1 DEF InRun
  <2>3. QueueInv'
    BY <1>0, <2>1, <2>2, QueueHasIntents DEF IInv, QueueInv
  <2> QED
    BY <1>0, <2>1, <2>2, <2>3, Finishes
<1>4. CASE LoadFails(w) \/ TurnFails(w) \/ Answer(w)
  <2>1. /\ InRun(w) /\ UNCHANGED <<frames, local, runs, busy, queue, retried, clobbered>>
    BY <1>4 DEF LoadFails, TurnFails, Answer, gate, InRun
  <2>2. PICK failed \in BOOLEAN, text \in BOOLEAN : Finish(w, failed, text)
    BY <1>4 DEF LoadFails, TurnFails, Answer
  <2>3. QueueInv'
    BY <2>1 DEF IInv, QueueInv
  <2> QED
    BY <1>0, <2>1, <2>2, <2>3, Finishes
<1>5. CASE ReadToDrain(w)
  <2>1. /\ wpc[w] = "turn" /\ Goto(w, "drain") /\ local' = [local EXCEPT ![w] = queue]
        /\ UNCHANGED <<call, frames, runs, busy, queue, retried, clobbered>>
    BY <1>5 DEF ReadToDrain, ReadQueue, gate
  <2>2. QueueInv' /\ InRun(w) /\ "drain" \in Phases
    BY <2>1 DEF IInv, QueueInv, InRun, Phases
  <2>3. /\ "drain" \notin {"idle", "send", "stopped"} /\ ("drain" = "take" => queue # <<>>)
        /\ busy' \in {busy, FALSE}
        /\ call' = [call EXCEPT ![w] = call[w]] /\ local' = [local EXCEPT ![w] = queue]
    BY <1>0, <2>1
  <2> QED
    BY <1>0, <2>1, <2>2, <2>3, MovesOn, Zenon
<1>6. CASE Drain(w)
  <2>1. /\ wpc[w] = "drain" /\ Goto(w, "turn") /\ local' = [local EXCEPT ![w] = <<>>]
        /\ queue' = <<>> /\ clobbered' \in BOOLEAN
        /\ runs' = [i \in Intents |-> IF i \in ToSet(local[w]) THEN runs[i] + 1 ELSE runs[i]]
        /\ UNCHANGED <<call, frames, busy, retried>>
    BY <1>6, Written DEF Drain
  <2>2. QueueInv' /\ InRun(w) /\ "turn" \in Phases
    BY <1>0, <2>1 DEF IInv, QueueInv, InRun, Phases
  <2>3. /\ "turn" \notin {"idle", "send", "stopped"} /\ ("turn" = "take" => <<>> # <<>>)
        /\ busy' \in {busy, FALSE}
        /\ call' = [call EXCEPT ![w] = call[w]] /\ local' = [local EXCEPT ![w] = <<>>]
    BY <1>0, <2>1
  <2> QED
    BY <1>0, <2>1, <2>2, <2>3, MovesOn, Zenon
<1>7. CASE TurnEnds(w)
  <2>1. /\ wpc[w] = "turn" /\ Goto(w, "next") /\ busy' = FALSE
        /\ UNCHANGED <<call, frames, local, runs, queue, retried, clobbered>>
    BY <1>7 DEF TurnEnds
  <2>2. QueueInv' /\ InRun(w) /\ "next" \in Phases
    BY <2>1 DEF IInv, QueueInv, InRun, Phases
  <2>3. /\ "next" \notin {"idle", "send", "stopped"} /\ ("next" = "take" => local[w] # <<>>)
        /\ busy' \in {busy, FALSE}
        /\ call' = [call EXCEPT ![w] = call[w]] /\ local' = [local EXCEPT ![w] = local[w]]
    BY <1>0, <2>1
  <2> QED
    BY <1>0, <2>1, <2>2, <2>3, MovesOn, Zenon
<1>8. CASE TurnRecovers(w)
  <2>1. /\ wpc[w] = "turn" /\ Goto(w, "run") /\ Len(retried) < MaxRetries
        /\ retried' = Append(retried, call[w])
        /\ UNCHANGED <<call, frames, local, runs, busy, queue, clobbered>>
    BY <1>8 DEF TurnRecovers
  <2>2. InRun(w) /\ "run" \in Phases
    BY <2>1 DEF InRun, Phases
  <2>3. retried' \in Seq(Intents) /\ Len(retried') <= MaxRetries
    BY <1>0, <2>1, <2>2, MaxRetriesIsNatural DEF IInv, QueueInv
  <2>4. QueueInv'
    BY <2>1, <2>3 DEF IInv, QueueInv
  <2>5. /\ "run" \notin {"idle", "send", "stopped"} /\ ("run" = "take" => local[w] # <<>>)
        /\ busy' \in {busy, FALSE}
        /\ call' = [call EXCEPT ![w] = call[w]] /\ local' = [local EXCEPT ![w] = local[w]]
    BY <1>0, <2>1
  <2> QED
    BY <1>0, <2>1, <2>2, <2>4, <2>5, MovesOn, Zenon
<1>9. CASE ReadNext(w)
  <2>1. /\ wpc[w] = "next" /\ queue # <<>> /\ Goto(w, "take") /\ local' = [local EXCEPT ![w] = queue]
        /\ UNCHANGED <<call, frames, runs, busy, queue, retried, clobbered>>
    BY <1>9 DEF ReadNext, ReadQueue, gate
  <2>2. QueueInv' /\ InRun(w) /\ "take" \in Phases
    BY <2>1 DEF IInv, QueueInv, InRun, Phases
  <2> QED
    BY <1>0, <2>1, <2>2, MovesOn
<1>10. CASE TakeNext(w)
  <2>1. /\ wpc[w] = "take" /\ Goto(w, "run") /\ local' = [local EXCEPT ![w] = <<>>]
        /\ call' = [call EXCEPT ![w] = Head(local[w])]
        /\ queue' = Tail(local[w]) /\ clobbered' \in BOOLEAN
        /\ UNCHANGED <<frames, runs, busy, retried>>
    BY <1>10, Written DEF TakeNext
  <2>2. Head(local[w]) \in Intents /\ Tail(local[w]) \in Seq(Intents)
    BY <1>0, <2>1, QueueHasIntents DEF IInv, RunInv
  <2>3. QueueInv' /\ InRun(w) /\ "run" \in Phases
    BY <2>1, <2>2 DEF IInv, QueueInv, InRun, Phases
  <2> QED
    BY <1>0, <2>1, <2>2, <2>3, MovesOn
<1> QED
  BY <1>1, <1>2, <1>3, <1>4, <1>5, <1>6, <1>7, <1>8, <1>9, <1>10

\* A Run registers itself, or its Del removes the entry.
LEMMA FrameKeeps ==
  ASSUME IInv, NEW w \in Workers, Register(w) \/ Unwind(w)
  PROVE  IInv'
<1>0. /\ wpc \in [Workers -> Phases] /\ frames \in [Workers -> Nat] /\ Active(w)
      /\ \A v \in Workers : frames[v] # 0 => Active(v)
  BY DEF IInv, WorkInv, FrameInv, Register, Unwind, Active
<1>1. /\ exec' = exec /\ expected' = expected /\ sent' = sent /\ intentChan' = intentChan
      /\ taken' = taken /\ resultChan' = resultChan /\ got' = got /\ job' = job
      /\ UNCHANGED <<outcome, supDone, agg, collecting, box, ctxDone, call, res, local>>
      /\ UNCHANGED <<queue, retried, clobbered>>
  BY DEF Register, Unwind, Goto, supervisor, aggregator, taken
<1>2. /\ wpc' \in [Workers -> Phases] /\ \A v \in Workers : Active(v)' <=> Active(v)
      /\ \A v \in Workers : (InRun(v)' => InRun(v)) /\ wpc'[v] \in {wpc[v], "turn"}
  BY <1>0 DEF Register, Unwind, Goto, Active, InRun, Phases
<1>3. ChanInv' /\ TaskInv'
  BY <1>1 DEF IInv, ChanInv, TaskInv
<1>4. ResultsInv'
  BY <1>1, <1>2 DEF IInv, ResultsInv
<1>5. WorkInv'
  <2>1. exec # "stopped"
    BY <1>0 DEF IInv, WorkInv, Active
  <2> QED
    BY <1>1, <1>2, <2>1 DEF IInv, WorkInv
<1>6. RunInv'
  BY <1>1, <1>2 DEF IInv, RunInv
<1>7. QueueInv'
  <2>1. CASE Register(w)
    <3>1. call[w] \in Intents /\ runs' = [runs EXCEPT ![call[w]] = @ + 1]
      BY <2>1 DEF Register, IInv, RunInv, InRun
    <3> QED
      BY <1>1, <3>1 DEF IInv, QueueInv
  <2>2. CASE Unwind(w)
    BY <1>1, <2>2 DEF IInv, QueueInv, Unwind
  <2> QED
    BY <2>1, <2>2
<1>8. FrameInv'
  <2>1. \/ frames' = [frames EXCEPT ![w] = @ + 1] /\ busy' = TRUE
        \/ frames' = [frames EXCEPT ![w] = @ - 1] /\ busy' = FALSE /\ frames[w] > 0
    BY DEF Register, Unwind
  <2>2. /\ frames' \in [Workers -> Nat] /\ (frames'[w] # 0 \/ busy' = FALSE)
        /\ \A v \in Workers \ {w} : frames'[v] = frames[v]
    BY <1>0, <2>1
  <2>3. busy' \in BOOLEAN /\ (busy' => frames'[w] # 0)
    BY <2>1, <2>2, Zenon
  <2> QED
    BY <1>0, <1>2, <2>2, <2>3 DEF FrameInv
<1> QED
  BY <1>3, <1>4, <1>5, <1>6, <1>7, <1>8 DEF IInv

\* The numbers the actions compare.
LEMMA Numbers ==
  ASSUME ChanInv
  PROVE  /\ PoolSize \in Nat /\ expected \in Intents /\ expected \in Nat \ {0} /\ sent \in Nat
         /\ sent <= expected
         /\ Len(intentChan) \in Nat /\ taken \in Nat /\ taken + Len(intentChan) = sent
         /\ \A i \in Intents : i \in Nat
<1>1. PoolSize \in Nat
  BY WorkersAreFinite, FS_CardinalityType DEF PoolSize
<1>2. expected \in Intents /\ expected \in Nat \ {0}
  BY IntentsAreFinite DEF ChanInv, Intents
<1> QED
  BY <1>1, <1>2, IntentsAreFinite DEF ChanInv, taken

\* The dispatcher keeps the invariant.
LEMMA DispatchKeeps == IInv /\ Dispatch => IInv'
<1> SUFFICES ASSUME IInv, Dispatch PROVE IInv'
  OBVIOUS
<1> DEFINE c == intentChan
           d == Append(intentChan, sent + 1)
<1>0. /\ PoolSize \in Nat /\ expected \in Nat \ {0} /\ expected \in Intents /\ sent \in Nat
      /\ Len(c) \in Nat /\ taken \in Nat /\ taken + Len(c) = sent /\ sent < expected
      /\ c \in Seq(Intents) /\ \A k \in DOMAIN c : c[k] = taken + k
  BY Numbers DEF IInv, ChanInv, Dispatch
<1>1. /\ Len(intentChan) < PoolSize /\ intentChan' = d /\ sent' = sent + 1 /\ expected' = expected
      /\ exec' = (IF sent + 1 = expected THEN "waiting" ELSE exec) /\ exec = "dispatching"
      /\ resultChan' = resultChan /\ got' = got /\ wpc' = wpc /\ job' = job
      /\ UNCHANGED <<call, res, frames, local, runs, busy, queue, retried, clobbered>>
      /\ UNCHANGED <<agg, collecting, box, outcome, supDone, ctxDone>>
  BY DEF Dispatch, workers, aggregator, gate
<1>2. /\ d \in Seq(Intents) /\ Len(d) = Len(c) + 1 /\ DOMAIN d = 1..(Len(c) + 1)
      /\ d[Len(c) + 1] = sent + 1 /\ \A k \in 1..Len(c) : d[k] = c[k]
  <2>1. sent + 1 \in Intents
    BY <1>0, IntentsAreFinite DEF Intents
  <2> QED
    BY <1>0, <2>1
<1> HIDE DEF d
<1>3. taken' = taken
  BY <1>0, <1>1, <1>2 DEF taken
<1>4. ChanInv'
  <2>1. \A k \in DOMAIN d : d[k] = taken + k
    <3>1. \A k \in 1..Len(c) : k \in DOMAIN c
      BY <1>0
    <3>2. \A k \in DOMAIN d : k \in 1..Len(c) \/ k = Len(c) + 1
      BY <1>0, <1>2
    <3>3. \A k \in 1..Len(c) : d[k] = taken + k
      BY <1>0, <1>2, <3>1
    <3>4. d[Len(c) + 1] = taken + (Len(c) + 1)
      <4>1. sent + 1 = taken + (Len(c) + 1)
        BY <1>0
      <4> QED
        BY <1>2, <4>1
    <3> QED
      BY <3>2, <3>3, <3>4
  <2> QED
    BY <1>0, <1>1, <1>2, <1>3, <2>1 DEF ChanInv
<1>5. WorkInv' /\ RunInv' /\ FrameInv'
  <2>1. WorkInv'
    BY <1>1, <1>3 DEF IInv, WorkInv, Active
  <2>2. RunInv' /\ FrameInv'
    BY <1>1 DEF IInv, RunInv, FrameInv, InRun, Active
  <2> QED
    BY <2>1, <2>2
<1>6. QueueInv' /\ ResultsInv' /\ TaskInv'
  BY <1>1, <1>3 DEF IInv, QueueInv, ResultsInv, TaskInv, Active
<1> QED
  BY <1>4, <1>5, <1>6 DEF IInv

\* Execute returns, and Stop when every worker has stopped.
LEMMA ExecKeeps == IInv /\ (Receive \/ GiveUp \/ Timeout \/ StopReturns) => IInv'
<1> SUFFICES ASSUME IInv, Receive \/ GiveUp \/ Timeout \/ StopReturns PROVE IInv'
  OBVIOUS
<1>1. /\ exec' \in {"stopping", "stopped"} /\ (exec' = "stopped" => \A w \in Workers : wpc[w] = "stopped")
      /\ outcome' \in {outcome, box, None} /\ (outcome' = box => outcome' = outcome \/ box # None \/ outcome' = None)
      /\ supDone' \in BOOLEAN /\ expected' = expected
      /\ sent' = sent /\ intentChan' = intentChan /\ resultChan' = resultChan /\ got' = got
      /\ wpc' = wpc /\ job' = job /\ taken' = taken
      /\ UNCHANGED <<call, res, frames, local, runs, busy, queue, retried, clobbered>>
      /\ UNCHANGED <<agg, collecting, box, ctxDone>>
  BY DEF Receive, GiveUp, Timeout, StopReturns, Return, workers, aggregator, gate, taken, IInv, TaskInv
<1>2. ChanInv'
  BY <1>1 DEF IInv, ChanInv
<1>3. WorkInv' /\ RunInv' /\ FrameInv'
  <2>1. WorkInv'
    BY <1>1 DEF IInv, WorkInv, Active
  <2>2. RunInv' /\ FrameInv'
    BY <1>1 DEF IInv, RunInv, FrameInv, InRun, Active
  <2> QED
    BY <2>1, <2>2
<1>4. QueueInv' /\ ResultsInv'
  BY <1>1 DEF IInv, QueueInv, ResultsInv, Active
<1>5. TaskInv'
  BY <1>1 DEF IInv, TaskInv
<1> QED
  BY <1>2, <1>3, <1>4, <1>5 DEF IInv

\* A worker takes the next intent, which no other has had.
LEMMA TakeKeeps == ASSUME IInv, NEW w \in Workers, Take(w) PROVE IInv'
<1> DEFINE c == intentChan
           d == Tail(intentChan)
           i == Head(intentChan)
<1>0. /\ sent \in Nat /\ PoolSize \in Nat /\ Len(c) \in Nat /\ taken \in Nat
      /\ taken + Len(c) = sent /\ c \in Seq(Intents) /\ c # <<>>
      /\ Len(c) <= PoolSize /\ \A k \in DOMAIN c : c[k] = taken + k
      /\ \A n \in Intents : n \in Nat
  BY Numbers DEF IInv, ChanInv, Take
<1>1. /\ wpc[w] = "idle" /\ wpc' = [wpc EXCEPT ![w] = "run"]
      /\ job' = [job EXCEPT ![w] = i] /\ call' = [call EXCEPT ![w] = i] /\ intentChan' = d
      /\ exec' = exec /\ expected' = expected /\ sent' = sent
      /\ resultChan' = resultChan /\ got' = got
      /\ UNCHANGED <<res, frames, local, runs, busy, queue, retried, clobbered>>
      /\ UNCHANGED <<outcome, supDone, agg, collecting, box, ctxDone>>
  BY DEF Take, supervisor, aggregator, gate
<1>2. /\ d \in Seq(Intents) /\ Len(d) = Len(c) - 1 /\ DOMAIN d = 1..(Len(c) - 1)
      /\ \A k \in DOMAIN d : k + 1 \in DOMAIN c /\ d[k] = c[k + 1] /\ k \in Nat
      /\ 1 \in DOMAIN c /\ i = c[1] /\ i \in Intents
  BY <1>0
<1> HIDE DEF c, d, i
<1>3. i = taken + 1 /\ taken' = taken + 1
  <2>1. i = taken + 1
    BY <1>0, <1>2
  <2>2. taken' = sent - Len(d)
    BY <1>1 DEF taken
  <2> QED
    BY <1>0, <1>2, <2>1, <2>2
<1>4. ChanInv'
  <2>1. \A k \in DOMAIN d : d[k] = taken' + k
    BY <1>0, <1>2, <1>3
  <2>2. Len(d) <= PoolSize /\ Len(d) <= sent
    BY <1>0, <1>2
  <2> QED
    BY <1>0, <1>1, <1>2, <2>1, <2>2 DEF IInv, ChanInv
<1>5. /\ wpc'[w] = "run" /\ job'[w] = i /\ call'[w] = i
      /\ \A v \in Workers \ {w} : wpc'[v] = wpc[v] /\ job'[v] = job[v] /\ call'[v] = call[v]
      /\ wpc' \in [Workers -> Phases]
      /\ job' \in [Workers -> Intents \union {None}] /\ call' \in [Workers -> Intents \union {None}]
  BY <1>1, <1>2 DEF IInv, WorkInv, RunInv, Phases
<1>6. \A v \in Workers : Active(v) => job[v] \in Nat /\ job[v] <= taken /\ job[v] < i
  BY <1>0, <1>3 DEF IInv, WorkInv
<1>7. ~Active(w) /\ \A v \in Workers \ {w} : Active(v)' <=> Active(v)
  BY <1>1, <1>5 DEF Active
<1>8. WorkInv'
  <2>1. \A v \in Workers : Active(v)' =>
          /\ job'[v] \in Intents /\ job'[v] <= taken'
          /\ \A u \in Workers : Active(u)' /\ u # v => job'[u] # job'[v]
    <3>1. \A v \in Workers \ {w} : Active(v)' => job'[v] \in Nat /\ job'[v] <= taken' /\ job'[v] < i
      BY <1>0, <1>3, <1>5, <1>6, <1>7
    <3>2. job'[w] <= taken' /\ i \in Nat /\ job'[w] \in Intents
      BY <1>0, <1>2, <1>3, <1>5
    <3>3. /\ \A v, u \in Workers \ {w} : Active(v)' /\ Active(u)' /\ u # v => job'[u] # job'[v]
          /\ \A v \in Workers \ {w} : Active(v)' => job'[v] \in Intents
      BY <1>5, <1>7 DEF IInv, WorkInv
    <3> QED
      BY <1>5, <3>1, <3>2, <3>3
  <2>2. \A v \in Workers : exec' = "stopped" => wpc'[v] = "stopped"
    BY <1>1, <1>5 DEF IInv, WorkInv
  <2> QED
    BY <1>1, <1>5, <2>1, <2>2 DEF WorkInv
<1>9. ResultsInv'
  <2> DEFINE o == got \o resultChan
  <2>1. o' = o /\ \A k \in DOMAIN o : o[k].intent \in Nat /\ o[k].intent <= taken
    <3>1. o \in Seq(Results) /\ Among(o, taken) /\ o' = o
      BY <1>1 DEF IInv, ResultsInv
    <3> HIDE DEF o
    <3>2. \A k \in DOMAIN o : o[k] \in Results
      BY <3>1
    <3>3. \A k \in DOMAIN o : o[k].intent \in Intents
      BY <3>2 DEF Results
    <3> QED
      BY <1>0, <3>1, <3>3 DEF Among
  <2> HIDE DEF o
  <2>2. Among(o, taken') /\ Lacks(o, i)
    BY <1>0, <1>3, <2>1 DEF Among, Lacks
  <2>3. \A v \in Workers : Active(v)' => Lacks(o, job'[v])
    BY <1>5, <1>7, <2>2 DEF IInv, ResultsInv, o
  <2> QED
    BY <1>1, <2>1, <2>2, <2>3 DEF IInv, ResultsInv, o
<1>10. QueueInv' /\ TaskInv'
  BY <1>1 DEF IInv, QueueInv, TaskInv
<1>11. RunInv' /\ FrameInv'
  <2>1. \A v \in Workers : /\ InRun(v)' => call'[v] \in Intents
                           /\ wpc'[v] = "take" => local[v] # <<>>
                           /\ wpc'[v] = "send" => res[v] \in Results /\ res[v].intent = job'[v]
    BY <1>2, <1>5 DEF IInv, RunInv, InRun
  <2>2. RunInv'
    BY <1>1, <1>5, <2>1 DEF IInv, RunInv
  <2>3. FrameInv'
    BY <1>1, <1>5, <1>7 DEF IInv, FrameInv
  <2> QED
    BY <2>2, <2>3
<1> QED
  BY <1>4, <1>8, <1>9, <1>10, <1>11 DEF IInv

\* A worker that stops, hands its result over or drops it.
LEMMA SendKeeps ==
  ASSUME IInv, NEW w \in Workers, WorkerStops(w) \/ SendResult(w) \/ DropResult(w)
  PROVE  IInv'
<1>1. /\ exec' = exec /\ expected' = expected /\ sent' = sent
      /\ intentChan' = intentChan /\ taken' = taken /\ got' = got
      /\ UNCHANGED <<call, frames, local, runs, busy, queue, retried, clobbered>>
      /\ UNCHANGED <<outcome, supDone, agg, collecting, box, ctxDone>>
  BY DEF WorkerStops, SendResult, DropResult, supervisor, aggregator, gate, taken
<1>2. /\ wpc[w] \in {"idle", "send"} /\ wpc'[w] \in {"idle", "stopped"} /\ frames[w] = 0
      /\ \A v \in Workers \ {w} : wpc'[v] = wpc[v] /\ res'[v] = res[v] /\ job'[v] = job[v]
      /\ wpc' \in [Workers -> Phases] /\ job' \in [Workers -> Intents \union {None}]
      /\ res' \in [Workers -> Results \union {None}]
  BY DEF WorkerStops, SendResult, DropResult, IInv, WorkInv, RunInv, FrameInv, Active, Phases
<1>3. /\ ~Active(w)' /\ ~InRun(w)' /\ \A v \in Workers \ {w} : Active(v)' <=> Active(v)
  BY <1>2 DEF Active, InRun
<1>4. ChanInv' /\ QueueInv' /\ TaskInv'
  BY <1>1 DEF IInv, ChanInv, QueueInv, TaskInv
<1>5. exec # "stopped"
  BY <1>2 DEF IInv, WorkInv
<1>6. WorkInv'
  BY <1>1, <1>2, <1>3, <1>5 DEF IInv, WorkInv
<1>7. RunInv' /\ FrameInv'
  <2>1. RunInv'
    <3>1. \A v \in Workers : /\ InRun(v)' => call[v] \in Intents
                             /\ wpc'[v] = "take" => local[v] # <<>>
                             /\ wpc'[v] = "send" => res'[v] \in Results /\ res'[v].intent = job'[v]
      BY <1>2, <1>3 DEF IInv, RunInv, InRun
    <3> QED
      BY <1>1, <1>2, <3>1 DEF IInv, RunInv
  <2>2. FrameInv'
    BY <1>1, <1>2, <1>3 DEF IInv, FrameInv
  <2> QED
    BY <2>1, <2>2
<1>8. CASE resultChan' = resultChan
  <2>1. ResultsInv'
    BY <1>1, <1>2, <1>3, <1>8 DEF IInv, ResultsInv
  <2> QED
    BY <1>4, <1>6, <1>7, <2>1 DEF IInv
<1>9. CASE SendResult(w)
  <2> DEFINE o == got \o resultChan
             r == res[w]
  <2>1. /\ wpc[w] = "send" /\ Len(resultChan) < PoolSize /\ resultChan' = Append(resultChan, r)
    BY <1>9 DEF SendResult
  <2>2. r \in Results /\ r.intent = job[w] /\ Active(w)
    BY <2>1 DEF IInv, RunInv, Active
  <2>3. /\ o \in Seq(Results) /\ Distinct(o) /\ Among(o, taken) /\ Lacks(o, r.intent)
        /\ r.intent <= taken /\ taken \in Nat
    BY <2>2, Numbers DEF IInv, ResultsInv, WorkInv
  <2>4. got' \o resultChan' = Append(o, r)
    BY <1>1, <2>1, <2>2, Received DEF IInv, ResultsInv
  <2>5. resultChan' \in Seq(Results) /\ Len(resultChan') <= PoolSize
    BY <2>1, <2>2, Numbers DEF IInv, ResultsInv
  <2> HIDE DEF o, r
  <2>6. /\ Distinct(Append(o, r)) /\ Among(Append(o, r), taken)
        /\ \A i : Lacks(o, i) /\ i # r.intent => Lacks(Append(o, r), i)
    BY <2>2, <2>3, HandedOver
  <2>7. \A v \in Workers : Active(v)' => Lacks(Append(o, r), job'[v])
    <3>1. \A v \in Workers : Active(v)' => Active(v) /\ v # w /\ job'[v] = job[v]
      BY <1>2, <1>3
    <3>2. \A v \in Workers : Active(v) /\ v # w => Lacks(o, job[v]) /\ job[v] # r.intent
      BY <2>2 DEF IInv, ResultsInv, WorkInv, o
    <3> QED
      BY <2>6, <3>1, <3>2
  <2>8. ResultsInv'
    BY <1>1, <2>4, <2>5, <2>6, <2>7 DEF IInv, ResultsInv
  <2> QED
    BY <1>4, <1>6, <1>7, <2>8 DEF IInv
<1> QED
  BY <1>8, <1>9 DEF WorkerStops, DropResult

\* The aggregator, and whoever cancels.
LEMMA OthersKeep ==
  IInv /\ (Collect \/ AggregatorStops \/ Notify \/ CancelSession \/ CancelContext) => IInv'
<1> SUFFICES ASSUME IInv,
                    Collect \/ AggregatorStops \/ Notify \/ CancelSession \/ CancelContext
             PROVE  IInv'
  OBVIOUS
<1>1. /\ exec' = exec /\ expected' = expected /\ sent' = sent
      /\ intentChan' = intentChan /\ taken' = taken /\ wpc' = wpc /\ job' = job
      /\ UNCHANGED <<call, res, frames, local, runs, busy, retried, clobbered, outcome, supDone>>
      /\ queue' \in {queue, <<>>}
  BY DEF Collect, AggregatorStops, Notify, CancelSession, CancelContext, supervisor, workers, gate,
         aggregator, taken
<1>2. ChanInv' /\ WorkInv' /\ RunInv' /\ FrameInv'
  <2>1. ChanInv'
    BY <1>1 DEF IInv, ChanInv
  <2>2. WorkInv'
    BY <1>1 DEF IInv, WorkInv, Active
  <2>3. RunInv' /\ FrameInv'
    BY <1>1 DEF IInv, RunInv, FrameInv, InRun, Active
  <2> QED
    BY <2>1, <2>2, <2>3
<1>3. QueueInv'
  <2>1. queue \in Seq(Intents) /\ <<>> \in Seq(Intents)
    BY DEF IInv, QueueInv
  <2>2. queue' \in Seq(Intents)
    BY <1>1, <2>1
  <2> QED
    BY <1>1, <2>2 DEF IInv, QueueInv
<1>4. CASE AggregatorStops \/ CancelSession \/ CancelContext
  <2>1. /\ agg' = agg /\ box' = box /\ got' = got /\ resultChan' = resultChan
        /\ collecting' \in BOOLEAN /\ ctxDone' \in BOOLEAN
    <3>1. agg' = agg /\ box' = box /\ got' = got /\ resultChan' = resultChan
      BY <1>4 DEF AggregatorStops, CancelSession, CancelContext, aggregator
    <3>2. collecting' \in {collecting, FALSE} /\ ctxDone' \in {ctxDone, TRUE}
      BY <1>4, Zenon DEF AggregatorStops, CancelSession, CancelContext, aggregator
    <3>3. collecting \in BOOLEAN /\ ctxDone \in BOOLEAN
      BY DEF IInv, TaskInv
    <3> QED
      BY <3>1, <3>2, <3>3
  <2>2. ResultsInv'
    BY <1>1, <2>1 DEF IInv, ResultsInv, Active
  <2>3. TaskInv'
    BY <1>1, <2>1 DEF IInv, TaskInv
  <2> QED
    BY <1>2, <1>3, <2>2, <2>3 DEF IInv
<1>5. CASE Notify
  <2>1. /\ agg = "notifying" /\ agg' = "notified" /\ box' = Aggregate(got)
        /\ UNCHANGED <<got, resultChan, collecting, ctxDone>>
    BY <1>5 DEF Notify
  <2>2. Aggregate(got) \in Combined
    <3> DEFINE failed == \E i \in DOMAIN got : got[i].failed
               text == \A i \in DOMAIN got : got[i].text
    <3>1. failed \in BOOLEAN /\ text \in BOOLEAN
      BY Zenon
    <3>2. Aggregate(got) = [failed |-> failed, text |-> text]
      BY Zenon DEF Aggregate
    <3> HIDE DEF failed, text
    <3> QED
      BY <3>1, <3>2 DEF Combined
  <2>3. ResultsInv' /\ TaskInv'
    BY <1>1, <2>1, <2>2 DEF IInv, ResultsInv, TaskInv, Active
  <2> QED
    BY <1>2, <1>3, <2>3 DEF IInv
<1>6. CASE Collect
  <2>1. /\ resultChan # <<>> /\ resultChan' = Tail(resultChan) /\ got' = Append(got, Head(resultChan))
        /\ agg' = IF Len(got) + 1 >= expected /\ agg = "collecting" THEN "notifying" ELSE agg
        /\ UNCHANGED <<collecting, box, ctxDone>>
    BY <1>6 DEF Collect
  <2>2. /\ got' \o resultChan' = got \o resultChan
        /\ got' \in Seq(Results) /\ resultChan' \in Seq(Results)
        /\ Len(resultChan') = Len(resultChan) - 1 /\ Len(got') = Len(got) + 1
    BY <2>1, Received DEF IInv, ResultsInv
  <2>3. Len(resultChan') <= PoolSize
    <3>1. PoolSize \in Nat
      BY Numbers DEF IInv
    <3>2. Len(resultChan) \in Nat /\ Len(resultChan) <= PoolSize
      BY DEF IInv, ResultsInv
    <3> QED
      BY <2>2, <3>1, <3>2
  <2>4. ResultsInv'
    BY <1>1, <2>2, <2>3 DEF IInv, ResultsInv, Active
  <2>5. Len(got) \in Nat /\ expected \in Nat
    BY Numbers DEF IInv, ResultsInv
  <2>6. TaskInv'
    BY <1>1, <2>1, <2>2, <2>5 DEF IInv, TaskInv
  <2> QED
    BY <1>2, <1>3, <2>4, <2>6 DEF IInv
<1> QED
  BY <1>4, <1>5, <1>6

\* The invariant holds in every state.
THEOREM InvHolds == Spec => []IInv
<1>1. IInv /\ [Next]_vars => IInv'
  <2> SUFFICES ASSUME IInv, [Next]_vars PROVE IInv'
    OBVIOUS
  <2>1. CASE UNCHANGED vars
    <3>1. /\ UNCHANGED <<exec, expected, sent, outcome, supDone, intentChan, resultChan, wpc, job>>
          /\ UNCHANGED <<call, res, frames, local, runs, busy, queue, retried, clobbered>>
          /\ UNCHANGED <<got, agg, collecting, box, ctxDone>>
      BY <2>1 DEF vars, supervisor, workers, gate, aggregator
    <3>2. ChanInv' /\ WorkInv'
      BY <3>1 DEF IInv, ChanInv, WorkInv, Active, taken
    <3>3. RunInv' /\ FrameInv'
      BY <3>1 DEF IInv, RunInv, FrameInv, InRun, Active
    <3>4. QueueInv' /\ ResultsInv' /\ TaskInv'
      BY <3>1 DEF IInv, QueueInv, ResultsInv, TaskInv, Active, taken
    <3> QED
      BY <3>2, <3>3, <3>4 DEF IInv
  <2>2. ASSUME NEW w \in Workers, WorkerStep(w) \/ ReadToDrain(w) PROVE IInv'
    BY <2>2, RunKeeps, FrameKeeps, TakeKeeps, SendKeeps DEF WorkerStep
  <2> QED
    BY <2>1, <2>2, DispatchKeeps, ExecKeeps, OthersKeep DEF Next
<1> QED
  BY <1>1, InvInit, PTL DEF Spec

-----------------------------------------------------------------------------
(* How often an intent is run.                                             *)

Has(q, i) == \E k \in DOMAIN q : q[k] = i

Once(q) == \A j, k \in DOMAIN q : j # k => q[j] # q[k]

Recoveries(i) == Cardinality({k \in DOMAIN retried : retried[k] = i})

\* The innermost Run of w is for a prompt that has not had its turn yet ...
Begins(w) == wpc[w] \in {"run", "enqueue", "append", "register"}

\* ... or that is in its turn.
Runs(w) == Begins(w) \/ wpc[w] \in {"turn", "drain"}

\* A turn for the intent i is still to come.
Due(i) == \/ i > taken \/ Has(queue, i)
          \/ \E w \in Workers : Begins(w) /\ call[w] = i

\* An intent waits in the channel, waits in the queue or is some worker's, and
\* that only once.
PlaceInv ==
  /\ Once(queue) /\ \A i \in Intents : Has(queue, i) => i <= taken
  /\ \A w \in Workers : Runs(w) =>
       /\ call[w] <= taken /\ ~Has(queue, call[w])
       /\ \A v \in Workers : Runs(v) /\ v # w => call[v] # call[w]

\* It has had one turn and one for each recovery, the one that is due included.
CountInv ==
  \A i \in Intents : runs[i] <= 1 + Recoveries(i) /\ (Due(i) => runs[i] <= Recoveries(i))

RunsInv == PlaceInv /\ CountInv

\* So it is until the queue is written from a stale read.
RunsUnclobbered == ~clobbered => RunsInv

\* A queue to which a prompt is added, and one that gives up its first.
LEMMA Queued ==
  ASSUME NEW q \in Seq(Intents), NEW i \in Intents
  PROVE  /\ \A j : Has(Append(q, i), j) <=> Has(q, j) \/ j = i
         /\ Once(q) /\ ~Has(q, i) => Once(Append(q, i))
<1> DEFINE t == Append(q, i)
<1>1. /\ DOMAIN t = 1..(Len(q) + 1) /\ DOMAIN q = 1..Len(q) /\ Len(q) \in Nat
      /\ t[Len(q) + 1] = i /\ \A k \in 1..Len(q) : t[k] = q[k]
  OBVIOUS
<1> HIDE DEF t
<1>2. \A k \in DOMAIN t : k \in DOMAIN q \/ k = Len(q) + 1
  BY <1>1
<1>3. \A k \in DOMAIN q : k \in DOMAIN t /\ t[k] = q[k]
  BY <1>1
<1>4. Len(q) + 1 \in DOMAIN t /\ t[Len(q) + 1] = i
  BY <1>1
<1>5. \A j : Has(t, j) <=> Has(q, j) \/ j = i
  BY <1>2, <1>3, <1>4 DEF Has
<1>6. Once(q) /\ ~Has(q, i) => Once(t)
  BY <1>2, <1>3, <1>4 DEF Has, Once
<1> QED
  BY <1>5, <1>6 DEF t

LEMMA Unqueued ==
  ASSUME NEW q \in Seq(Intents), q # <<>>
  PROVE  /\ Has(q, Head(q)) /\ \A j : Has(Tail(q), j) => Has(q, j)
         /\ Once(q) => Once(Tail(q)) /\ ~Has(Tail(q), Head(q))
<1> DEFINE t == Tail(q)
<1>1. /\ DOMAIN t = 1..(Len(q) - 1) /\ DOMAIN q = 1..Len(q) /\ Len(q) \in Nat \ {0}
      /\ Head(q) = q[1] /\ \A k \in DOMAIN t : t[k] = q[k + 1]
  OBVIOUS
<1> HIDE DEF t
<1>2. /\ 1 \in DOMAIN q
      /\ \A k \in DOMAIN t : k \in Int /\ k + 1 \in DOMAIN q /\ k + 1 # 1
  BY <1>1
<1>3. \A j, k \in DOMAIN t : j # k => j + 1 # k + 1
  BY <1>2
<1> QED
  BY <1>1, <1>2, <1>3 DEF Has, Once, t

LEMMA EmptyQueue == Once(<<>>) /\ \A i : ~Has(<<>>, i)
BY DEF Once, Has

\* A recovery is counted for its own intent.
LEMMA Recovered ==
  ASSUME retried \in Seq(Intents), NEW i \in Intents, retried' = Append(retried, i)
  PROVE  /\ Recoveries(i)' = Recoveries(i) + 1
         /\ \A j \in Intents \ {i} : Recoveries(j)' = Recoveries(j)
<1> DEFINE t == Append(retried, i)
           n == Len(retried) + 1
           At(s, j) == {k \in DOMAIN s : s[k] = j}
<1>1. /\ DOMAIN t = 1..n /\ DOMAIN retried = 1..Len(retried) /\ Len(retried) \in Nat
      /\ t[n] = i /\ \A k \in 1..Len(retried) : t[k] = retried[k]
  OBVIOUS
<1> HIDE DEF t
<1>2. /\ \A k \in DOMAIN t : k \in DOMAIN retried \/ k = n
      /\ \A k \in DOMAIN retried : k \in DOMAIN t /\ t[k] = retried[k] /\ k # n
      /\ n \in DOMAIN t /\ n \notin DOMAIN retried
  BY <1>1
<1>3. At(t, i) = At(retried, i) \cup {n} /\ n \notin At(retried, i)
  BY <1>1, <1>2
<1>4. \A j \in Intents \ {i} : At(t, j) = At(retried, j)
  BY <1>1, <1>2
<1>5. IsFiniteSet(At(retried, i))
  <2>1. IsFiniteSet(1..Len(retried))
    BY <1>1, FS_Interval
  <2>2. At(retried, i) \subseteq 1..Len(retried)
    BY <1>1
  <2> QED
    BY <2>1, <2>2, FS_Subset
<1>6. Cardinality(At(t, i)) = Cardinality(At(retried, i)) + 1
  BY <1>3, <1>5, FS_AddElement
<1>7. \A j : Recoveries(j)' = Cardinality(At(t, j)) /\ Recoveries(j) = Cardinality(At(retried, j))
  BY DEF Recoveries, t
<1> QED
  BY <1>4, <1>6, <1>7

LEMMA RecoveriesAreCounted == QueueInv => \A i \in Intents : Recoveries(i) \in Nat
<1> SUFFICES ASSUME QueueInv, NEW i \in Intents PROVE Recoveries(i) \in Nat
  OBVIOUS
<1> DEFINE S == {k \in DOMAIN retried : retried[k] = i}
<1>1. Len(retried) \in Nat /\ S \subseteq 1..Len(retried)
  BY DEF QueueInv
<1>2. IsFiniteSet(1..Len(retried))
  BY <1>1, FS_Interval
<1> QED
  BY <1>1, <1>2, FS_Subset, FS_CardinalityType DEF Recoveries
\* A step that starts no Run and no turn, and adds nothing to the queue.
Rests == /\ UNCHANGED <<runs, retried>> /\ queue' \in {queue, <<>>} /\ taken' = taken
         /\ \A w \in Workers : Runs(w)' => /\ Runs(w) /\ call'[w] = call[w]
                                           /\ Begins(w)' => Begins(w)

LEMMA NothingIsRun == ASSUME RunsInv, Rests PROVE RunsInv'
<1>1. \A i : Has(queue', i) => Has(queue, i)
  BY EmptyQueue DEF Rests
<1>2. Once(queue')
  BY EmptyQueue DEF RunsInv, PlaceInv, Rests
<1>3. PlaceInv'
  BY <1>1, <1>2 DEF RunsInv, PlaceInv, Rests
<1>4. \A i \in Intents : Due(i)' => Due(i)
  <2> SUFFICES ASSUME NEW i \in Intents, Due(i)' PROVE Due(i)
    OBVIOUS
  <2>1. CASE \E w \in Workers : Begins(w)' /\ call'[w] = i
    <3>1. PICK w \in Workers : Begins(w)' /\ call'[w] = i
      BY <2>1
    <3>2. Begins(w) /\ call[w] = i
      BY <3>1 DEF Rests, Runs
    <3> QED
      BY <3>2 DEF Due
  <2> QED
    BY <1>1, <2>1 DEF Due, Rests
<1>5. \A i \in Intents : Recoveries(i)' = Recoveries(i)
  BY DEF Recoveries, Rests
<1> QED
  BY <1>3, <1>4, <1>5 DEF RunsInv, CountInv, Rests

\* The next intent of the channel is no worker's and not in the queue.
LEMMA TakenOnce == ASSUME IInv, RunsInv, NEW w \in Workers, Take(w) PROVE RunsInv'
<1>1. /\ intentChan \in Seq(Intents) /\ intentChan # <<>> /\ sent \in Nat
      /\ \A k \in DOMAIN intentChan : intentChan[k] = taken + k
      /\ intentChan' = Tail(intentChan) /\ sent' = sent
      /\ wpc \in [Workers -> Phases] /\ call \in [Workers -> Intents \union {None}]
      /\ wpc[w] = "idle" /\ wpc' = [wpc EXCEPT ![w] = "run"]
      /\ call' = [call EXCEPT ![w] = Head(intentChan)]
      /\ UNCHANGED <<runs, queue, retried>>
  BY Numbers DEF IInv, ChanInv, WorkInv, RunInv, Take, supervisor, gate
<1>2. taken \in Nat /\ Head(intentChan) = taken + 1 /\ taken' = taken + 1 /\ taken + 1 \in Intents
  <2>1. Len(Tail(intentChan)) = Len(intentChan) - 1 /\ 1 \in DOMAIN intentChan
        /\ Head(intentChan) = intentChan[1] /\ Len(intentChan) \in Nat
        /\ Head(intentChan) \in Intents
    BY <1>1
  <2>2. taken' = sent - Len(Tail(intentChan)) /\ taken \in Nat
    BY <1>1, Numbers DEF taken, IInv, ChanInv
  <2> QED
    BY <1>1, <2>1, <2>2 DEF taken
<1>3. /\ wpc'[w] = "run" /\ call'[w] = taken + 1 /\ ~Runs(w)
      /\ \A v \in Workers \ {w} : /\ wpc'[v] = wpc[v] /\ call'[v] = call[v]
                                  /\ Runs(v)' => Runs(v) /\ InRun(v)
                                  /\ Begins(v)' => Begins(v)
  BY <1>1, <1>2 DEF Runs, Begins, InRun
<1>4. \A i \in Intents : i \in Nat
  BY IntentsAreFinite
<1>5. /\ ~Has(queue, taken + 1)
      /\ \A v \in Workers \ {w} : Runs(v)' => call[v] \in Nat /\ call[v] <= taken
  <2>1. ~(taken + 1 <= taken)
    BY <1>2
  <2> QED
    BY <1>2, <1>3, <1>4, <2>1 DEF RunsInv, PlaceInv, IInv, RunInv
<1>6. PlaceInv'
  <2>1. \A v \in Workers \ {w} : Runs(v)' => call'[v] # call'[w] /\ call'[v] <= taken'
    BY <1>2, <1>3, <1>5
  <2>2. \A i \in Intents : Has(queue, i) => i <= taken'
    BY <1>2, <1>4 DEF RunsInv, PlaceInv
  <2>3. call'[w] <= taken'
    BY <1>2, <1>3
  <2> QED
    BY <1>1, <1>3, <1>5, <2>1, <2>2, <2>3 DEF RunsInv, PlaceInv
<1>7. \A i \in Intents : Due(i)' => Due(i)
  <2> SUFFICES ASSUME NEW i \in Intents, Due(i)' PROVE Due(i)
    OBVIOUS
  <2>1. i > taken' => i > taken
    BY <1>2, <1>4
  <2>2. taken + 1 > taken
    BY <1>2
  <2>3. CASE \E v \in Workers : Begins(v)' /\ call'[v] = i
    <3>1. PICK v \in Workers : Begins(v)' /\ call'[v] = i
      BY <2>3
    <3> QED
      BY <1>3, <2>2, <3>1 DEF Due
  <2> QED
    BY <1>1, <2>1, <2>3 DEF Due
<1>8. \A i \in Intents : Recoveries(i)' = Recoveries(i)
  BY <1>1 DEF Recoveries
<1> QED
  BY <1>1, <1>6, <1>7, <1>8 DEF RunsInv, CountInv

\* What the steps below know of the worker and of the counts.
LEMMA RunFacts ==
  ASSUME IInv, NEW w \in Workers
  PROVE  /\ wpc \in [Workers -> Phases] /\ call \in [Workers -> Intents \union {None}]
         /\ (Runs(w) => call[w] \in Intents)
         /\ queue \in Seq(Intents) /\ retried \in Seq(Intents) /\ runs \in [Intents -> Nat]
         /\ \A j \in Intents : Recoveries(j) \in Nat
BY RecoveriesAreCounted DEF IInv, WorkInv, RunInv, QueueInv, Runs, Begins, InRun

\* A Run gives its prompt to the queue because the session is busy.
LEMMA QueuedOnce ==
  ASSUME IInv, RunsInv, NEW w \in Workers, Enqueue(w), queue = local[w]
  PROVE  RunsInv'
<1>0. PICK i \in Intents : i = call[w]
  BY DEF IInv, RunInv, InRun, Enqueue
<1>1. /\ wpc \in [Workers -> Phases] /\ call \in [Workers -> Intents \union {None}]
      /\ queue \in Seq(Intents)
  BY RunFacts
<1>2. /\ queue' = Append(queue, i) /\ wpc[w] = "append" /\ wpc' = [wpc EXCEPT ![w] = "send"]
      /\ taken' = taken /\ call' = [call EXCEPT ![w] = None] /\ runs' = runs /\ retried' = retried
  BY <1>0, Written DEF Enqueue, Finish, taken, supervisor
<1>3. /\ Begins(w) /\ Runs(w) /\ ~Runs(w)' /\ ~Begins(w)'
      /\ \A v \in Workers \ {w} : /\ wpc'[v] = wpc[v] /\ call'[v] = call[v]
                                  /\ (Runs(v)' => Runs(v)) /\ (Begins(v)' => Begins(v))
  BY <1>1, <1>2 DEF Runs, Begins
<1>4. /\ \A j : Has(queue', j) <=> Has(queue, j) \/ j = i
      /\ Once(queue')
  BY <1>0, <1>1, <1>2, <1>3, Queued DEF RunsInv, PlaceInv
<1>5. PlaceInv'
  BY <1>0, <1>2, <1>3, <1>4 DEF RunsInv, PlaceInv
<1>6. \A j \in Intents : Due(j)' => Due(j)
  <2> SUFFICES ASSUME NEW j \in Intents, Due(j)' PROVE Due(j)
    OBVIOUS
  <2>1. CASE \E v \in Workers : Begins(v)' /\ call'[v] = j
    <3>1. PICK v \in Workers : Begins(v)' /\ call'[v] = j
      BY <2>1
    <3>2. v # w
      BY <1>3, <3>1
    <3> QED
      BY <1>3, <3>1, <3>2 DEF Due
  <2>2. Due(i)
    BY <1>0, <1>3 DEF Due
  <2> QED
    BY <1>2, <1>4, <2>1, <2>2 DEF Due
<1>7. \A j \in Intents : Recoveries(j)' = Recoveries(j)
  BY <1>2 DEF Recoveries
<1> QED
  BY <1>2, <1>5, <1>6, <1>7 DEF RunsInv, CountInv

\* A Run is recovered: one more turn of its prompt is due, and counted.
LEMMA RecoveredOnce ==
  ASSUME IInv, RunsInv, NEW w \in Workers, TurnRecovers(w)
  PROVE  RunsInv'
<1>0. PICK i \in Intents : i = call[w]
  BY DEF IInv, RunInv, InRun, TurnRecovers
<1>1. /\ wpc \in [Workers -> Phases] /\ retried \in Seq(Intents) /\ runs \in [Intents -> Nat]
      /\ \A j \in Intents : Recoveries(j) \in Nat
  BY RunFacts
<1>2. /\ wpc[w] = "turn" /\ wpc' = [wpc EXCEPT ![w] = "run"] /\ retried' = Append(retried, i)
      /\ taken' = taken /\ call' = call /\ runs' = runs /\ queue' = queue
  BY <1>0 DEF TurnRecovers, Goto, taken, supervisor
<1>3. /\ \A v \in Workers : Runs(v)' => Runs(v)
      /\ \A v \in Workers \ {w} : Begins(v)' => Begins(v)
  BY <1>1, <1>2 DEF Runs, Begins
<1>4. PlaceInv'
  BY <1>2, <1>3 DEF RunsInv, PlaceInv
<1>5. Recoveries(i)' = Recoveries(i) + 1 /\ \A j \in Intents \ {i} : Recoveries(j)' = Recoveries(j)
  BY <1>1, <1>2, Recovered
<1>6. \A j \in Intents \ {i} : Due(j)' => Due(j)
  <2> SUFFICES ASSUME NEW j \in Intents \ {i}, Due(j)' PROVE Due(j)
    OBVIOUS
  <2>1. CASE \E v \in Workers : Begins(v)' /\ call'[v] = j
    <3>1. PICK v \in Workers : Begins(v)' /\ call'[v] = j
      BY <2>1
    <3>2. v # w
      BY <1>0, <1>2, <3>1
    <3> QED
      BY <1>2, <1>3, <3>1, <3>2 DEF Due
  <2> QED
    BY <1>2, <2>1 DEF Due
<1>7. CountInv'
  <2> SUFFICES ASSUME NEW j \in Intents
               PROVE  runs[j] <= 1 + Recoveries(j)' /\ (Due(j)' => runs[j] <= Recoveries(j)')
    BY <1>2 DEF CountInv
  <2>1. runs[j] \in Nat /\ Recoveries(j) \in Nat /\ runs[j] <= 1 + Recoveries(j)
    BY <1>1 DEF RunsInv, CountInv
  <2>2. CASE j = i
    BY <1>5, <2>1, <2>2
  <2>3. CASE j # i
    BY <1>5, <1>6, <2>1, <2>3 DEF RunsInv, CountInv
  <2> QED
    BY <2>2, <2>3
<1> QED
  BY <1>4, <1>7 DEF RunsInv

\* A Run takes the first prompt of the queue.
LEMMA TakenFromQueue ==
  ASSUME IInv, RunsInv, NEW w \in Workers, TakeNext(w), queue = local[w]
  PROVE  RunsInv'
<1> DEFINE i == Head(queue)
<1>1. /\ wpc \in [Workers -> Phases] /\ call \in [Workers -> Intents \union {None}]
      /\ queue \in Seq(Intents) /\ queue # <<>>
  BY RunFacts DEF IInv, RunInv, TakeNext
<1>2. /\ queue' = Tail(queue) /\ wpc[w] = "take" /\ wpc' = [wpc EXCEPT ![w] = "run"]
      /\ taken' = taken /\ call' = [call EXCEPT ![w] = i] /\ UNCHANGED <<runs, retried>>
  BY Written DEF TakeNext, Goto, taken, supervisor
<1>3. /\ i \in Intents /\ Has(queue, i) /\ ~Has(queue', i) /\ Once(queue')
      /\ \A j : Has(queue', j) => Has(queue, j)
  BY <1>1, <1>2, Unqueued DEF RunsInv, PlaceInv
<1> HIDE DEF i
<1>4. /\ ~Runs(w) /\ wpc'[w] = "run" /\ call'[w] = i
      /\ \A v \in Workers \ {w} : /\ wpc'[v] = wpc[v] /\ call'[v] = call[v]
                                  /\ (Runs(v)' => Runs(v)) /\ (Begins(v)' => Begins(v))
  BY <1>1, <1>2 DEF Runs, Begins
<1>5. PlaceInv'
  <2>1. i <= taken /\ \A v \in Workers : Runs(v) => call[v] # i
    BY <1>3 DEF RunsInv, PlaceInv
  <2> QED
    BY <1>2, <1>3, <1>4, <2>1 DEF RunsInv, PlaceInv
<1>6. \A j \in Intents : Due(j)' => Due(j)
  <2> SUFFICES ASSUME NEW j \in Intents, Due(j)' PROVE Due(j)
    OBVIOUS
  <2>1. CASE \E v \in Workers : Begins(v)' /\ call'[v] = j
    <3>1. PICK v \in Workers : Begins(v)' /\ call'[v] = j
      BY <2>1
    <3> QED
      BY <1>3, <1>4, <3>1 DEF Due
  <2> QED
    BY <1>2, <1>3, <2>1 DEF Due
<1>7. \A j \in Intents : Recoveries(j)' = Recoveries(j)
  BY <1>2 DEF Recoveries
<1> QED
  BY <1>2, <1>5, <1>6, <1>7 DEF RunsInv, CountInv

\* A turn starts with its own prompt, or takes the whole queue.
LEMMA TurnTakes ==
  ASSUME IInv, RunsInv, NEW w \in Workers, Register(w) \/ (Drain(w) /\ queue = local[w])
  PROVE  RunsInv'
<1> DEFINE New(j) == \/ Register(w) /\ j = call[w]
                     \/ Drain(w) /\ Has(queue, j)
<1>1. /\ wpc \in [Workers -> Phases] /\ runs \in [Intents -> Nat] /\ queue \in Seq(Intents)
      /\ call[w] \in Intents /\ \A j \in Intents : Recoveries(j) \in Nat
  BY RunFacts DEF Runs, Begins, Register, Drain
<1>2. /\ taken' = taken /\ call' = call /\ retried' = retried /\ wpc' = [wpc EXCEPT ![w] = "turn"]
      /\ \/ /\ Register(w) /\ ~Drain(w) /\ queue' = queue /\ wpc[w] = "register"
            /\ runs' = [runs EXCEPT ![call[w]] = @ + 1]
         \/ /\ Drain(w) /\ ~Register(w) /\ queue' = <<>> /\ wpc[w] = "drain"
            /\ runs' = [j \in Intents |-> IF j \in ToSet(queue) THEN runs[j] + 1 ELSE runs[j]]
  BY Written DEF Register, Drain, Goto, taken, supervisor
<1>3. \A j : j \in ToSet(queue) <=> Has(queue, j)
  BY DEF ToSet, Has
<1>4. \A j \in Intents : runs'[j] = IF New(j) THEN runs[j] + 1 ELSE runs[j]
  BY <1>1, <1>2, <1>3
<1>5. /\ \A j : Has(queue', j) => Has(queue, j)
      /\ Once(queue') /\ Runs(w) /\ ~Begins(w)'
      /\ \A v \in Workers : (Runs(v)' => Runs(v)) /\ (Begins(v)' => Begins(v))
  BY <1>1, <1>2, EmptyQueue DEF Runs, Begins, RunsInv, PlaceInv
<1>6. PlaceInv'
  BY <1>2, <1>5 DEF RunsInv, PlaceInv
<1>7. ASSUME NEW j \in Intents, New(j) PROVE Due(j) /\ ~Due(j)'
  <2>1. j \in Nat /\ taken \in Nat
    BY Numbers DEF IInv
  <2>2. CASE Register(w) /\ j = call[w]
    <3>1. Due(j) /\ j <= taken /\ ~Has(queue, j)
      BY <1>2, <1>5, <2>2 DEF Due, RunsInv, PlaceInv, Begins
    <3>2. \A v \in Workers : Begins(v)' => call'[v] # j
      BY <1>2, <1>5, <2>2 DEF RunsInv, PlaceInv, Runs
    <3> QED
      BY <1>2, <1>5, <2>1, <3>1, <3>2 DEF Due
  <2>3. CASE Drain(w) /\ Has(queue, j)
    <3>1. Due(j) /\ j <= taken
      BY <2>3 DEF Due, RunsInv, PlaceInv
    <3>2. ~Has(queue', j)
      BY <1>2, <2>3, EmptyQueue
    <3>3. \A v \in Workers : Begins(v)' => call'[v] # j
      BY <1>2, <1>5, <2>3 DEF RunsInv, PlaceInv, Runs
    <3> QED
      BY <1>2, <2>1, <3>1, <3>2, <3>3 DEF Due
  <2> QED
    BY <1>7, <2>2, <2>3
<1>8. \A j \in Intents : (Due(j)' => Due(j)) /\ Recoveries(j)' = Recoveries(j)
  BY <1>2, <1>5 DEF Due, Recoveries
<1>9. CountInv'
  <2> SUFFICES ASSUME NEW j \in Intents
               PROVE  runs'[j] <= 1 + Recoveries(j) /\ (Due(j)' => runs'[j] <= Recoveries(j))
    BY <1>8 DEF CountInv
  <2>1. runs[j] \in Nat /\ Recoveries(j) \in Nat
    BY <1>1
  <2>2. CASE New(j)
    <3>1. Due(j) /\ ~Due(j)' /\ runs'[j] = runs[j] + 1
      BY <1>4, <1>7, <2>2
    <3> QED
      BY <2>1, <3>1 DEF RunsInv, CountInv
  <2>3. CASE ~New(j)
    <3>1. runs'[j] = runs[j] /\ (Due(j)' => Due(j))
      BY <1>4, <1>8, <2>3
    <3> QED
      BY <3>1 DEF RunsInv, CountInv
  <2> QED
    BY <2>2, <2>3
<1> QED
  BY <1>6, <1>9 DEF RunsInv

\* A write of the queue that leaves it unclobbered is as good as atomic.
LEMMA Unclobbered ==
  ASSUME [Next]_vars, ~clobbered'
  PROVE  /\ ~clobbered
         /\ \A w \in Workers : Enqueue(w) \/ Drain(w) \/ TakeNext(w) => queue = local[w]
<1>1. \A w \in Workers : \A q : WriteQueue(w, q) => ~clobbered /\ queue = local[w]
  BY Written
<1>2. \A w \in Workers : Enqueue(w) \/ Drain(w) \/ TakeNext(w) => ~clobbered /\ queue = local[w]
  BY <1>1, Zenon DEF Enqueue, Drain, TakeNext
<1>3. CASE UNCHANGED clobbered
  BY <1>2, <1>3
<1>4. ASSUME NEW w \in Workers, WorkerStep(w) \/ ReadToDrain(w),
             ~(Enqueue(w) \/ Drain(w) \/ TakeNext(w))
      PROVE  UNCHANGED clobbered
  BY <1>4 DEF WorkerStep, Take, WorkerStops, SendResult, DropResult, CheckBusy, ReadToAppend,
       Register, LoadFails, ReadToDrain, TurnEnds, TurnFails, TurnRecovers, ReadNext, Answer,
       Unwind, gate
<1>5. UNCHANGED clobbered \/ \E w \in Workers : Enqueue(w) \/ Drain(w) \/ TakeNext(w)
  BY <1>4 DEF Next, vars, Dispatch, Receive, GiveUp, Timeout, StopReturns, Return, Collect,
       AggregatorStops, Notify, CancelSession, CancelContext, gate
<1> QED
  BY <1>2, <1>3, <1>5

\* Every step keeps it.
LEMMA RunsStep == IInv /\ RunsUnclobbered /\ [Next]_vars => RunsUnclobbered'
<1> SUFFICES ASSUME IInv, RunsUnclobbered, [Next]_vars, ~clobbered' PROVE RunsInv'
  BY DEF RunsUnclobbered
<1>0. /\ RunsInv
      /\ \A w \in Workers : Enqueue(w) \/ Drain(w) \/ TakeNext(w) => queue = local[w]
  BY Unclobbered DEF RunsUnclobbered
<1>1. ASSUME Rests PROVE RunsInv'
  BY <1>0, <1>1, NothingIsRun
<1>2. CASE Dispatch
  <2>1. intentChan \in Seq(Intents) /\ Len(intentChan) \in Nat /\ sent \in Nat
    BY Numbers DEF IInv, ChanInv
  <2>2. Len(Append(intentChan, sent + 1)) = Len(intentChan) + 1
    BY <2>1
  <2>3. taken' = taken
    BY <1>2, <2>1, <2>2 DEF Dispatch, taken
  <2>4. Rests
    BY <1>2, <2>3 DEF Dispatch, workers, gate, Runs, Begins, Rests
  <2> QED
    BY <1>1, <2>4
<1>3. CASE Receive \/ GiveUp \/ Timeout \/ StopReturns
  <2>1. Rests
    BY <1>3 DEF Receive, GiveUp, Timeout, StopReturns, Return, workers, gate, taken, Runs, Begins, Rests
  <2> QED
    BY <1>1, <2>1
<1>4. CASE Collect \/ AggregatorStops \/ Notify \/ CancelSession \/ CancelContext
  <2>1. Rests
    BY <1>4 DEF Collect, AggregatorStops, Notify, CancelSession, CancelContext, supervisor, workers,
                gate, taken, Runs, Begins, Rests
  <2> QED
    BY <1>1, <2>1
<1>5. ASSUME NEW w \in Workers,
             \/ WorkerStops(w) \/ SendResult(w) \/ DropResult(w) \/ Unwind(w)
             \/ CheckBusy(w) \/ ReadToAppend(w) \/ LoadFails(w) \/ ReadToDrain(w)
             \/ TurnEnds(w) \/ TurnFails(w) \/ ReadNext(w) \/ Answer(w)
      PROVE  RunsInv'
  <2>0. wpc \in [Workers -> Phases] /\ call \in [Workers -> Intents \union {None}]
    BY RunFacts
  <2>1. UNCHANGED <<runs, retried, queue>> /\ taken' = taken
    BY <1>5 DEF WorkerStops, SendResult, DropResult, Unwind, CheckBusy, ReadToAppend, LoadFails,
                ReadToDrain, TurnEnds, TurnFails, ReadNext, Answer, Finish, Goto, supervisor, gate, taken
  <2>2. /\ \A v \in Workers \ {w} : wpc'[v] = wpc[v] /\ call'[v] = call[v]
        /\ Runs(w)' => Runs(w) /\ call'[w] = call[w] /\ (Begins(w)' => Begins(w))
    BY <1>5, <2>0 DEF WorkerStops, SendResult, DropResult, Unwind, CheckBusy, ReadToAppend, LoadFails,
                ReadToDrain, TurnEnds, TurnFails, ReadNext, Answer, Finish, Goto, Runs, Begins
  <2>3. \A v \in Workers \ {w} : (Runs(v)' => Runs(v)) /\ (Begins(v)' => Begins(v))
    BY <2>2 DEF Runs, Begins
  <2>4. Rests
    BY <2>1, <2>2, <2>3 DEF Rests
  <2> QED
    BY <1>1, <2>4
<1>6. CASE UNCHANGED vars
  <2>1. Rests
    BY <1>6 DEF vars, supervisor, workers, gate, taken, Runs, Begins, Rests
  <2> QED
    BY <1>1, <2>1
<1>7. ASSUME NEW w \in Workers, WorkerStep(w) \/ ReadToDrain(w) PROVE RunsInv'
  BY <1>0, <1>5, <1>7, TakenOnce, QueuedOnce, RecoveredOnce, TakenFromQueue, TurnTakes DEF WorkerStep
<1> QED
  BY <1>2, <1>3, <1>4, <1>6, <1>7 DEF Next

-----------------------------------------------------------------------------

\* No more results are collected than there are intents, and as many only of
\* every intent.
LEMMA CollectedAreAll ==
  ASSUME IInv
  PROVE  /\ Len(got) <= expected
         /\ Len(got) >= expected => /\ Len(got) = expected
                                    /\ {got[i].intent : i \in DOMAIN got} = 1..expected
<1>1. /\ got \in Seq(Results) /\ Distinct(got) /\ Among(got, taken) /\ taken \in Nat
      /\ taken <= expected /\ expected \in Nat
  BY DistinctPrefix, Numbers DEF IInv, ResultsInv
<1>2. \A i \in DOMAIN got : got[i] \in Results
  BY <1>1
<1>3. \A i \in DOMAIN got : got[i].intent \in Nat /\ got[i].intent <= taken
  BY <1>1, <1>2, IntentsAreFinite DEF Among, Results
<1>4. Among(got, expected)
  BY <1>1, <1>3 DEF Among
<1>5. /\ Len(got) <= expected /\ Len(got) \in Nat
      /\ Len(got) >= expected => {got[i].intent : i \in DOMAIN got} = 1..expected
  BY <1>1, <1>4, DistinctAreAll
<1> QED
  BY <1>1, <1>5

\* The variables of Multiplex keep their types: no more results are collected
\* than there are intents.
THEOREM TypeCorrect == Spec => []TypeOK
<1>1. IInv => TypeOK
  BY CollectedAreAll DEF IInv, ChanInv, WorkInv, RunInv, FrameInv, QueueInv, ResultsInv, TaskInv, TypeOK
<1> QED
  BY <1>1, InvHolds, PTL

\* Execute returns a result only when every intent has been reported, each once.
THEOREM ResultsAreWhole == Spec => []ResultIsWhole
<1>1. IInv => ResultIsWhole
  BY CollectedAreAll DEF ResultIsWhole, HasResult, IInv, TaskInv
<1> QED
  BY <1>1, InvHolds, PTL

\* When Stop has returned no worker runs a turn and the session is free.
THEOREM StopIsQuiet == Spec => []QuietAfterStop
<1>1. ASSUME IInv, exec = "stopped" PROVE ~busy /\ \A w \in Workers : wpc[w] = "stopped"
  <2>1. \A w \in Workers : wpc[w] = "stopped" /\ ~Active(w)
    BY <1>1 DEF IInv, WorkInv, Active
  <2>2. ~busy
    BY <2>1, <1>1 DEF IInv, FrameInv
  <2> QED
    BY <2>1, <2>2
<1> QED
  BY <1>1, InvHolds, PTL DEF QuietAfterStop

\* No prompt is run twice but for its recoveries, until a goroutine writes the
\* queue from a stale read.
THEOREM IntentsAreRunOnce == Spec => []NoIntentTwice
<1>1. Init => RunsUnclobbered
  <2> SUFFICES ASSUME Init PROVE RunsInv
    BY DEF RunsUnclobbered
  <2>1. IInv
    BY InvInit
  <2>2. \A w \in Workers : ~Runs(w)
    BY DEF Init, Runs, Begins
  <2>3. PlaceInv
    BY <2>2, EmptyQueue DEF Init, PlaceInv
  <2>4. CountInv
    BY <2>1, RecoveriesAreCounted DEF Init, CountInv, IInv
  <2> QED
    BY <2>3, <2>4 DEF RunsInv
<1>2. RunsUnclobbered => NoIntentTwice
  BY DEF RunsUnclobbered, RunsInv, CountInv, NoIntentTwice, Recoveries
<1> QED
  BY <1>1, <1>2, RunsStep, InvHolds, PTL DEF Spec

LEMMA Least ==
  ASSUME NEW T \in SUBSET Nat, T # {}
  PROVE  \E m \in T : \A k \in T : m <= k
<1>1. PICK R : R = OpToRel(<, Nat)
  OBVIOUS
<1>2. \A x, y \in Nat : x < y => <<x, y>> \in R
  BY <1>1 DEF OpToRel
<1>3. PICK m \in T : \A k \in T : ~(<<k, m>> \in R)
  BY <1>1, NatLessThanWellFounded, WFMin
<1>4. ASSUME NEW k \in T PROVE m <= k
  <2>1. ~(k < m)
    BY <1>2, <1>3
  <2> QED
    BY <2>1
<1> QED
  BY <1>4

\* Induction over the natural numbers, for a set in place of a predicate.
LEMMA Induction ==
  ASSUME NEW T \in SUBSET Nat, 0 \in T, \A n \in T : n + 1 \in T
  PROVE  T = Nat
<1> SUFFICES ASSUME T # Nat PROVE FALSE
  OBVIOUS
<1>1. PICK m \in Nat \ T : \A k \in Nat \ T : m <= k
  BY Least
<1>2. m # 0 /\ m - 1 \in Nat /\ ~(m <= m - 1)
  OBVIOUS
<1>3. m - 1 \in T
  BY <1>1, <1>2
<1> QED
  BY <1>2, <1>3


-----------------------------------------------------------------------------
(* Recursive functions: f ends on E with base, and is otherwise a step from  *)
(* the value of f at the next element, which has a smaller rank.             *)

\* Least, for the ranks of a set.
LEMMA LeastRank ==
  ASSUME NEW D, NEW rank \in [D -> Nat], NEW T \in SUBSET D, T # {}
  PROVE  \E d \in T : \A e \in T : rank[d] <= rank[e]
<1>1. PICK R \in SUBSET Nat : R = {rank[d] : d \in T}
  OBVIOUS
<1>2. R # {}
  BY <1>1
<1>3. PICK m \in R : \A k \in R : m <= k
  BY <1>2, Least
<1> QED
  BY <1>1, <1>3

Decreases(D, E, next, rank) == \A d \in D \ E : rank[next[d]] < rank[d]

Recurs(D, E, base, next, step, f) ==
  \A d \in D : f[d] = IF d \in E THEN base[d] ELSE step[<<d, f[next[d]]>>]

\* There is such a function.
LEMMA Recursion ==
  ASSUME NEW D, NEW P, NEW E \in SUBSET D, NEW base \in [D -> P], NEW next \in [D -> D],
         NEW step \in [D \X P -> P], NEW rank \in [D -> Nat],
         Decreases(D, E, next, rank)
  PROVE  \E f \in [D -> P] : Recurs(D, E, base, next, step, f)
<1> USE DEF Decreases
<1> DEFINE Value(f, d) == IF d \in E THEN base[d] ELSE step[<<d, f[next[d]]>>]
           Until(f, k) == \A d \in D : rank[d] < k => f[d] = Value(f, d)
           T == {k \in Nat : \E f \in [D -> P] : Until(f, k)}
<1>1. \A f \in [D -> P], d \in D : Value(f, d) \in P
  OBVIOUS
<1>2. T = Nat
  <2>1. 0 \in T
    <3>1. Until(base, 0)
      OBVIOUS
    <3> QED
      BY <3>1
  <2>2. ASSUME NEW k \in T PROVE k + 1 \in T
    <3>1. PICK f \in [D -> P] : Until(f, k)
      OBVIOUS
    <3>2. PICK h \in [D -> P] : h = [d \in D |-> IF rank[d] < k THEN f[d] ELSE Value(f, d)]
      BY <1>1
    <3>3. ASSUME NEW d \in D, rank[d] < k + 1 PROVE h[d] = Value(h, d)
      <4>1. h[d] = Value(f, d)
        BY <3>1, <3>2
      <4>2. CASE d \in E
        BY <4>1, <4>2
      <4>3. CASE d \notin E
        <5>1. next[d] \in D /\ rank[next[d]] \in Nat /\ rank[d] \in Nat /\ rank[next[d]] < k
          BY <3>3, <4>3
        <5>2. h[next[d]] = f[next[d]]
          BY <3>2, <5>1
        <5> QED
          BY <4>1, <5>2
      <4> QED
        BY <4>2, <4>3
    <3>4. Until(h, k + 1)
      BY <3>3
    <3> QED
      BY <3>4
  <2>3. T \in SUBSET Nat
    OBVIOUS
  <2> HIDE DEF T
  <2> QED
    BY <2>1, <2>2, <2>3, Induction
<1>3. ASSUME NEW f \in [D -> P], NEW h \in [D -> P], NEW k \in Nat, NEW m \in Nat,
             Until(f, k), Until(h, m)
      PROVE  \A d \in D : rank[d] < k /\ rank[d] < m => f[d] = h[d]
  <2> SUFFICES ASSUME NEW c \in D, rank[c] < k, rank[c] < m, f[c] # h[c] PROVE FALSE
    OBVIOUS
  <2>1. PICK U \in SUBSET D : U = {d \in D : rank[d] < k /\ rank[d] < m /\ f[d] # h[d]}
    OBVIOUS
  <2>2. PICK d \in U : \A e \in U : rank[d] <= rank[e]
    BY <2>1, LeastRank
  <2>3. d \in D /\ rank[d] < k /\ rank[d] < m /\ f[d] # h[d]
    BY <2>1
  <2>4. f[d] = Value(f, d) /\ h[d] = Value(h, d)
    BY <1>3, <2>3
  <2>5. d \notin E
    BY <2>3, <2>4
  <2>6. next[d] \in D /\ rank[next[d]] \in Nat /\ rank[d] \in Nat /\ rank[next[d]] < rank[d]
    BY <2>3, <2>5
  <2>7. next[d] \notin U
    BY <2>2, <2>6
  <2>8. f[next[d]] = h[next[d]]
    BY <2>1, <2>3, <2>6, <2>7
  <2> QED
    BY <2>3, <2>4, <2>8
<1>4. ASSUME NEW k \in Nat PROVE \E f \in [D -> P] : Until(f, k)
  BY <1>2
<1> HIDE DEF Until
<1>5. PICK F : F = [k \in Nat |-> CHOOSE f \in [D -> P] : Until(f, k)]
  OBVIOUS
<1>6. ASSUME NEW k \in Nat PROVE F[k] \in [D -> P] /\ Until(F[k], k)
  BY <1>4, <1>5
<1>7. PICK f : f = [d \in D |-> F[rank[d] + 1][d]]
  OBVIOUS
<1>8. ASSUME NEW d \in D PROVE f[d] \in P /\ f[d] = Value(f, d)
  <2>1. PICK k \in Nat : k = rank[d] + 1
    OBVIOUS
  <2>2. PICK g \in [D -> P] : g = F[k] /\ Until(g, k)
    BY <1>6
  <2>3. f[d] = g[d]
    BY <1>7, <2>1, <2>2
  <2>4. g[d] = Value(g, d)
    BY <2>1, <2>2 DEF Until
  <2>5. CASE d \in E
    BY <2>3, <2>4, <2>5
  <2>6. CASE d \notin E
    <3>1. PICK e \in D : e = next[d]
      OBVIOUS
    <3>2. rank[e] \in Nat /\ rank[d] \in Nat /\ rank[e] < rank[d]
      BY <2>6, <3>1
    <3>3. PICK m \in Nat : m = rank[e] + 1
      BY <3>2
    <3>4. PICK h \in [D -> P] : h = F[m] /\ Until(h, m)
      BY <1>6
    <3>5. f[e] = h[e]
      BY <1>7, <3>3, <3>4
    <3>6. h[e] = g[e]
      <4>1. rank[e] < m /\ rank[e] < k
        BY <2>1, <3>2, <3>3
      <4> QED
        BY <1>3, <2>2, <3>4, <4>1
    <3> QED
      BY <2>3, <2>4, <3>1, <3>5, <3>6
  <2> QED
    BY <2>5, <2>6
<1>9. f \in [D -> P]
  BY <1>7, <1>8
<1> QED
  BY <1>8, <1>9 DEF Recurs
-----------------------------------------------------------------------------
(* Loop detection *)

Signature(step) == Loop!getToolInteractionSignature(step)

\* The window of ss that begins at a has a signature too often.
LoopsAt(ss, a) ==
  \E i \in a..(a + windowSize - 1) :
    /\ Signature(ss[i]) # <<>>
    /\ Cardinality({j \in a..(a + windowSize - 1) : Signature(ss[j]) = Signature(ss[i])}) > maxRepeats

\* B is A, a places further on.
IsShifted(A, B, a) == (\A i \in A : a + i \in B) /\ \A b \in B : \E i \in A : b = a + i

LEMMA Shifted ==
  ASSUME NEW a \in Int, NEW w \in Nat, NEW A \in SUBSET (1..w), NEW B, IsShifted(A, B, a)
  PROVE  Cardinality(A) = Cardinality(B)
<1> USE DEF IsShifted
<1>1. IsFiniteSet(A)
  <2>1. IsFiniteSet(1..w)
    BY FS_Interval
  <2> QED
    BY <2>1, FS_Subset
<1>2. PICK f : f = [i \in A |-> a + i]
  OBVIOUS
<1>3. f \in Bijection(A, B)
  <2>1. f \in [A -> B]
    BY <1>2
  <2>2. \A i, j \in A : f[i] = f[j] => i = j
    BY <1>2
  <2>3. \A b \in B : \E i \in A : f[i] = b
    BY <1>2
  <2> QED
    BY <2>1, <2>2, <2>3 DEF Bijection, Injection, Surjection, IsInjective
<1> QED
  BY <1>1, <1>3, FS_Bijection DEF ExistsBijection

\* The detector looks at the last window.
LEMMA LastWindow ==
  ASSUME NEW S, NEW ss \in Seq(S), windowSize \in Nat \ {0}, Len(ss) >= windowSize
  PROVE  Loop!hasRepeatedToolCalls(ss) <=> LoopsAt(ss, Len(ss) - windowSize + 1)
<1>1. PICK c \in Nat : c = Len(ss) - windowSize
  OBVIOUS
<1>2. PICK window : window = SubSeq(ss, Len(ss) - windowSize + 1, Len(ss))
  OBVIOUS
<1>3. DOMAIN window = 1..windowSize /\ \A i \in 1..windowSize : window[i] = ss[c + i]
  <2>1. PICK n \in Nat : n = Len(ss)
    OBVIOUS
  <2>5. PICK m \in 1..n : m = c + 1
    <3>1. c <= n - 1
      BY <1>1, <2>1
    <3>2. c + 1 \in 1..n
      BY <3>1
    <3> QED
      BY <3>2
  <2>2. \A i \in m..n : ss[i] \in S
    <3>1. \A i \in 1..n : ss[i] \in S
      BY <2>1
    <3>2. \A i \in m..n : i \in 1..n
      OBVIOUS
    <3> QED
      BY <3>1, <3>2
  <2>3. window = SubSeq(ss, m, n)
    BY <1>1, <1>2, <2>1, <2>5
  <2>4. /\ window \in Seq(S) /\ Len(window) = n - m + 1
        /\ \A i \in 1..(n - m + 1) : window[i] = ss[m + i - 1]
    BY <2>1, <2>2, <2>3, SubSeqProperties
  <2> QED
    BY <1>1, <2>1, <2>4, <2>5
<1>4. Loop!hasRepeatedToolCalls(ss) <=>
        \E i \in DOMAIN window :
          /\ Signature(window[i]) # <<>>
          /\ Cardinality({j \in DOMAIN window : Signature(window[j]) = Signature(window[i])}) > maxRepeats
  <2>1. PICK r \in BOOLEAN : r = \E i \in DOMAIN window :
          /\ Signature(window[i]) # <<>>
          /\ Cardinality({j \in DOMAIN window : Signature(window[j]) = Signature(window[i])}) > maxRepeats
    OBVIOUS
  <2>2. Loop!hasRepeatedToolCalls(ss) = (Len(ss) >= windowSize /\ r)
    <3>1. \A A : Loop!Cardinality(A) = Cardinality(A)
      BY DEF Loop!Cardinality, Cardinality, Loop!IsFiniteSet, IsFiniteSet
    <3> QED
      BY <1>2, <2>1, <3>1, Zenon DEF Loop!hasRepeatedToolCalls, Signature
  <2> QED
    BY <2>1, <2>2
<1>5. ASSUME NEW i \in 1..windowSize
      PROVE  Cardinality({j \in DOMAIN window : Signature(window[j]) = Signature(window[i])})
           = Cardinality({j \in (c + 1)..(c + windowSize) : Signature(ss[j]) = Signature(ss[c + i])})
  <2>1. PICK A : A = {j \in DOMAIN window : Signature(window[j]) = Signature(window[i])}
    OBVIOUS
  <2>2. PICK B : B = {j \in (c + 1)..(c + windowSize) : Signature(ss[j]) = Signature(ss[c + i])}
    OBVIOUS
  <2>3. A \in SUBSET (1..windowSize)
    BY <1>3, <2>1
  <2>4. IsShifted(A, B, c)
    <3>1. ASSUME NEW j \in A PROVE c + j \in B
      BY <1>3, <2>1, <2>2
    <3>2. ASSUME NEW k \in B PROVE \E j \in A : k = c + j
      <4>1. PICK j \in 1..windowSize : k = c + j
        <5>1. k - c \in 1..windowSize /\ k = c + (k - c)
          BY <2>2
        <5> QED
          BY <5>1
      <4> QED
        BY <1>3, <2>1, <2>2, <4>1
    <3> QED
      BY <3>1, <3>2 DEF IsShifted
  <2> QED
    <3>1. c \in Int /\ windowSize \in Nat
      OBVIOUS
    <3>2. Cardinality(A) = Cardinality(B)
      BY <2>3, <2>4, <3>1, Shifted
    <3> QED
      BY <2>1, <2>2, <3>2
<1>6. Loop!hasRepeatedToolCalls(ss) <=>
        \E i \in 1..windowSize :
          /\ Signature(ss[c + i]) # <<>>
          /\ Cardinality({j \in (c + 1)..(c + windowSize) : Signature(ss[j]) = Signature(ss[c + i])}) > maxRepeats
  BY <1>3, <1>4, <1>5
<1>7. LoopsAt(ss, Len(ss) - windowSize + 1) <=>
        \E k \in (c + 1)..(c + windowSize) :
          /\ Signature(ss[k]) # <<>>
          /\ Cardinality({j \in (c + 1)..(c + windowSize) : Signature(ss[j]) = Signature(ss[k])}) > maxRepeats
  <2>1. Len(ss) - windowSize + 1 = c + 1 /\ c + 1 + windowSize - 1 = c + windowSize
    BY <1>1
  <2> QED
    BY <2>1 DEF LoopsAt
<1>8. /\ \A i \in 1..windowSize : c + i \in (c + 1)..(c + windowSize)
      /\ \A k \in (c + 1)..(c + windowSize) : k - c \in 1..windowSize /\ c + (k - c) = k
  OBVIOUS
<1> QED
  BY <1>6, <1>7, <1>8

LoopInv == steps \in Seq(Steps)

LEMMA Missed ==
  ASSUME windowSize \in Nat \ {0}
  PROVE  NoLoopIsMissed <=>
           (Loop!hasRepeatedToolCalls(steps)
              <=> \E a \in 1..(Len(steps) - windowSize + 1) : LoopsAt(steps, a))
BY DEF NoLoopIsMissed, LoopsAt, Signature

LEMMA LoopStep ==
  ASSUME windowSize \in Nat \ {0}, LoopInv, NoLoopIsMissed, NEW s \in Steps, TakeStep(s)
  PROVE  LoopInv' /\ NoLoopIsMissed'
<1>1. steps' = Append(steps, s) /\ steps \in Seq(Steps) /\ steps' \in Seq(Steps)
  BY DEF TakeStep, LoopInv
<1>2. Len(steps') = Len(steps) + 1 /\ Len(steps) \in Nat
      /\ \A i \in 1..Len(steps) : steps'[i] = steps[i]
  BY <1>1
<1>3. ASSUME NEW a \in 1..(Len(steps) - windowSize + 1) PROVE ~LoopsAt(steps', a)
  <2>1. ~LoopsAt(steps, a)
    BY <1>3, Missed DEF TakeStep
  <2>2. a..(a + windowSize - 1) \subseteq 1..Len(steps)
    BY <1>2, <1>3
  <2>3. \A i \in a..(a + windowSize - 1) : Signature(steps'[i]) = Signature(steps[i])
    BY <1>2, <2>2
  <2>4. \A i \in a..(a + windowSize - 1) :
          {j \in a..(a + windowSize - 1) : Signature(steps'[j]) = Signature(steps'[i])}
          = {j \in a..(a + windowSize - 1) : Signature(steps[j]) = Signature(steps[i])}
    BY <2>3
  <2> QED
    BY <2>1, <2>3, <2>4 DEF LoopsAt
<1>4. Loop!hasRepeatedToolCalls(steps')
        <=> \E a \in 1..(Len(steps') - windowSize + 1) : LoopsAt(steps', a)
  <2>1. CASE Len(steps') < windowSize
    <3>1. ~Loop!hasRepeatedToolCalls(steps')
      BY <1>2, <2>1 DEF Loop!hasRepeatedToolCalls
    <3>2. 1..(Len(steps') - windowSize + 1) = {}
      BY <1>2, <2>1
    <3> QED
      BY <3>1, <3>2
  <2>2. CASE Len(steps') >= windowSize
    <3>1. PICK e \in Int : e = Len(steps') - windowSize + 1
      BY <1>2
    <3>2. Loop!hasRepeatedToolCalls(steps') <=> LoopsAt(steps', e)
      BY <1>1, <2>2, <3>1, LastWindow
    <3>3. e \in 1..(Len(steps') - windowSize + 1)
          /\ \A a \in 1..(Len(steps') - windowSize + 1) :
               a = e \/ a \in 1..(Len(steps) - windowSize + 1)
      BY <1>2, <2>2, <3>1
    <3> QED
      BY <1>3, <3>2, <3>3
  <2> QED
    BY <1>2, <2>1, <2>2
<1> QED
  BY <1>1, <1>4 DEF LoopInv, NoLoopIsMissed, LoopsAt, Signature

-----------------------------------------------------------------------------
(* Folds over sequences                                                      *)

\* The greatest number of a set of places.
LEMMA TopIs ==
  ASSUME NEW n \in Nat, NEW S \in SUBSET (1..n), S # {}
  PROVE  Max(S) \in S /\ \A k \in S : k <= Max(S)
<1>1. PICK T : T = {n - k : k \in S}
  OBVIOUS
<1>2. PICK m \in T : \A k \in T : m <= k
  <2>1. T \in SUBSET Nat
    BY <1>1
  <2>2. T # {}
    BY <1>1
  <2> QED
    BY <2>1, <2>2, Least
<1>3. PICK t \in S : m = n - t
  BY <1>1, <1>2
<1>4. \A k \in S : t >= k
  <2> SUFFICES ASSUME NEW k \in S PROVE t >= k
    OBVIOUS
  <2>1. n - k \in T
    BY <1>1
  <2> QED
    BY <1>2, <1>3, <2>1
<1>5. Max(S) \in S /\ \A k \in S : Max(S) >= k
  BY <1>3, <1>4, Zenon DEF Max
<1> QED
  BY <1>5

LEMMA TopOfPrefix ==
  ASSUME NEW n \in Nat, NEW k \in 1..n
  PROVE  Max(1..k) = k /\ (1..k) \ {k} = 1..(k - 1)
<1>1. k \in Nat /\ k \in 1..k /\ 1..k \in SUBSET (1..k) /\ 1..k # {}
  OBVIOUS
<1>2. Max(1..k) \in 1..k /\ \A i \in 1..k : i <= Max(1..k)
  BY <1>1, TopIs
<1> QED
  BY <1>1, <1>2

Folds(n, b, step, f) ==
  \A s \in SUBSET (1..n) :
    f[s] = IF s = {} THEN b ELSE step[<<Max(s), f[s \ {Max(s)}]>>]

\* A fold from b by the steps of step, place after place, has a value.
LEMMA FoldExists ==
  ASSUME NEW n \in Nat, NEW P, NEW b \in P, NEW step \in [(1..n) \X P -> P]
  PROVE  \E f \in [SUBSET (1..n) -> P] : Folds(n, b, step, f)
<1>1. PICK D : D = SUBSET (1..n)
  OBVIOUS
<1>2. PICK base : base = [s \in D |-> b]
  OBVIOUS
<1>3. PICK next : next = [s \in D |-> IF s = {} THEN {} ELSE s \ {Max(s)}]
  OBVIOUS
<1>4. PICK act : act = [q \in D \X P |-> IF q[1] = {} THEN b ELSE step[<<Max(q[1]), q[2]>>]]
  OBVIOUS
<1>5. PICK rank : rank = [s \in D |-> IF s = {} THEN 0 ELSE Max(s)]
  OBVIOUS
<1>6. \A s \in D \ {{}} : Max(s) \in s /\ Max(s) \in 1..n /\ \A k \in s : k <= Max(s)
  BY <1>1, TopIs
<1>7. base \in [D -> P]
  BY <1>2
<1>8. next \in [D -> D]
  BY <1>1, <1>3
<1>9. act \in [D \X P -> P]
  BY <1>4, <1>6
<1>10. rank \in [D -> Nat]
  BY <1>5, <1>6
<1>11. \A s \in D \ {{}} : rank[next[s]] < rank[s]
  <2> SUFFICES ASSUME NEW s \in D \ {{}} PROVE rank[next[s]] < rank[s]
    OBVIOUS
  <2>1. PICK r \in D : r = s \ {Max(s)}
    BY <1>1
  <2>2. next[s] = r /\ rank[s] = Max(s) /\ Max(s) \in 1..n
    BY <1>3, <1>5, <1>6, <2>1
  <2>3. CASE r = {}
    BY <1>5, <2>2, <2>3
  <2>4. CASE r # {}
    <3>1. rank[r] = Max(r) /\ Max(r) \in r
      BY <1>5, <1>6, <2>4
    <3>2. Max(r) \in 1..n /\ Max(r) <= Max(s) /\ Max(r) # Max(s)
      BY <1>6, <2>1, <2>4
    <3> QED
      BY <2>2, <3>1, <3>2
  <2> QED
    BY <2>3, <2>4
<1>12. PICK f \in [D -> P] :
         \A s \in D : f[s] = IF s \in {{}} THEN base[s] ELSE act[<<s, f[next[s]]>>]
  <2>1. PICK E \in SUBSET D : E = {{}}
    BY <1>1
  <2>2. Decreases(D, E, next, rank)
    BY <1>11, <2>1 DEF Decreases
  <2>3. \E f \in [D -> P] : Recurs(D, E, base, next, act, f)
    BY <1>7, <1>8, <1>9, <1>10, <2>2, Recursion
  <2> QED
    BY <2>1, <2>3 DEF Recurs
<1>13. ASSUME NEW s \in D
       PROVE  f[s] = IF s = {} THEN b ELSE step[<<Max(s), f[s \ {Max(s)}]>>]
  <2>1. CASE s = {}
    BY <1>2, <1>12, <2>1
  <2>2. CASE s # {}
    <3>1. next[s] = s \ {Max(s)} /\ next[s] \in D
      BY <1>3, <1>8, <2>2
    <3>2. f[next[s]] \in P /\ f[s] = act[<<s, f[next[s]]>>]
      BY <1>12, <2>2, <3>1
    <3>3. act[<<s, f[next[s]]>>] = step[<<Max(s), f[next[s]]>>]
      BY <1>4, <2>2, <3>1, <3>2
    <3> QED
      BY <2>2, <3>1, <3>2, <3>3
  <2> QED
    BY <2>1, <2>2
<1> QED
  BY <1>1, <1>12, <1>13 DEF Folds

\* What a sum is: the last of the sums of the beginnings.
LEMMA SumRuns ==
  ASSUME NEW s \in Seq(Nat)
  PROVE  \E g : /\ g[0] = 0
                /\ \A k \in 1..Len(s) : g[k] = g[k - 1] + s[k]
                /\ Sum(s) = g[Len(s)]
<1>1. PICK n \in Nat : n = Len(s) /\ DOMAIN s = 1..n
  OBVIOUS
<1>2. PICK step \in [(1..n) \X Nat -> Nat] : \A k \in 1..n, a \in Nat : step[<<k, a>>] = a + s[k]
  <2>1. PICK step : step = [q \in (1..n) \X Nat |-> q[2] + s[q[1]]]
    OBVIOUS
  <2>2. \A k \in 1..n, a \in Nat : step[<<k, a>>] = a + s[k] /\ a + s[k] \in Nat
    BY <1>1, <2>1
  <2>3. step \in [(1..n) \X Nat -> Nat]
    BY <2>1, <2>2
  <2> QED
    BY <2>2, <2>3
<1>3. PICK f \in [SUBSET (1..n) -> Nat] : Folds(n, 0, step, f)
  <2>1. PICK N, b : N = Nat /\ b = 0
    OBVIOUS
  <2>3. b \in N /\ step \in [(1..n) \X N -> N]
    BY <2>1
  <2> HIDE <2>1
  <2>2. \E f \in [SUBSET (1..n) -> N] : Folds(n, b, step, f)
    BY <2>3, FoldExists
  <2> QED
    BY <2>1, <2>2
<1>4. f = [r \in SUBSET (1..n) |-> IF r = {} THEN 0 ELSE f[r \ {Max(r)}] + s[Max(r)]]
  <2> SUFFICES ASSUME NEW r \in SUBSET (1..n)
               PROVE  f[r] = IF r = {} THEN 0 ELSE f[r \ {Max(r)}] + s[Max(r)]
    OBVIOUS
  <2>1. CASE r = {}
    BY <1>3, <2>1 DEF Folds
  <2>2. CASE r # {}
    <3>1. Max(r) \in 1..n /\ f[r \ {Max(r)}] \in Nat
      BY <1>3, <2>2, TopIs
    <3> QED
      BY <1>2, <1>3, <2>2, <3>1 DEF Folds
  <2> QED
    BY <2>1, <2>2
<1>5. PICK h : h = CHOOSE x : x = [r \in SUBSET (1..n) |-> IF r = {} THEN 0 ELSE x[r \ {Max(r)}] + s[Max(r)]]
  OBVIOUS
<1>6. h = [r \in SUBSET (1..n) |-> IF r = {} THEN 0 ELSE h[r \ {Max(r)}] + s[Max(r)]]
  BY <1>4, <1>5, Zenon
<1>7. Sum(s) = h[1..n]
  BY <1>1, <1>5, Zenon DEF Sum, FoldLeft, MapThenFoldSet
<1>8. PICK g : g = [k \in 0..n |-> h[1..k]]
  OBVIOUS
<1>9. g[0] = 0
  <2>1. 1..0 = {}
    OBVIOUS
  <2> QED
    BY <1>6, <1>8, <2>1
<1>10. ASSUME NEW k \in 1..n PROVE g[k] = g[k - 1] + s[k]
  <2>1. Max(1..k) = k /\ (1..k) \ {k} = 1..(k - 1)
    BY TopOfPrefix
  <2>4. k \in 1..k /\ k \in 0..n /\ k - 1 \in 0..n
    OBVIOUS
  <2>2. 1..k \in SUBSET (1..n)
    OBVIOUS
  <2>3. h[1..k] = h[(1..k) \ {Max(1..k)}] + s[Max(1..k)]
    BY <1>6, <2>1, <2>2, <2>4
  <2> QED
    BY <1>8, <2>1, <2>3, <2>4
<1>11. g[n] = h[1..n]
  BY <1>8
<1> QED
  BY <1>1, <1>7, <1>9, <1>10, <1>11

PartStart == [intents |-> <<>>, group |-> <<>>, tokens |-> 0]

PartType == [intents : Seq(Seq(Resources)), group : Seq(Resources), tokens : Nat]

LEMMA ResourceHasTokens == \A r \in Resources : r.tokens \in Nat
BY AlgorithmsAssumption

LEMMA AddIntentType ==
  ASSUME NEW p \in PartType
  PROVE  Part!addIntent(p) \in PartType
BY DEF PartType, Part!addIntent

LEMMA AddResourceType ==
  ASSUME NEW p \in PartType, NEW r \in Resources
  PROVE  Part!addResource(p, r) \in PartType
<1>1. Part!addIntent(p) \in PartType
  BY AddIntentType
<1>2. PICK q \in PartType : q = IF p.tokens + r.tokens > MaxTokensPerIntent THEN Part!addIntent(p) ELSE p
  BY <1>1
<1>3. PICK t : t = [q EXCEPT !.group = Append(@, r), !.tokens = @ + r.tokens]
  OBVIOUS
<1>4. t \in PartType
  <2>1. t = [intents |-> q.intents, group |-> Append(q.group, r), tokens |-> q.tokens + r.tokens]
    BY <1>3 DEF PartType
  <2>2. r.tokens \in Nat
    BY ResourceHasTokens
  <2> QED
    BY <2>1, <2>2 DEF PartType
<1>5. Part!addIntent(t) \in PartType
  BY <1>4, AddIntentType
<1>6. [Part!addIntent(p) EXCEPT !.intents = Append(@, <<r>>)] \in PartType
  <2>1. PICK a \in PartType : a = Part!addIntent(p)
    BY <1>1
  <2>2. PICK o \in Seq(Resources) : o = <<r>>
    <3>1. <<r>> \in Seq(Resources)
      OBVIOUS
    <3> QED
      BY <3>1
  <2>3. PICK b : b = [a EXCEPT !.intents = Append(@, o)]
    OBVIOUS
  <2>4. b = [intents |-> Append(a.intents, o), group |-> a.group, tokens |-> a.tokens]
    BY <2>3 DEF PartType
  <2>5. b \in PartType
    BY <2>2, <2>4 DEF PartType
  <2> QED
    BY <2>1, <2>2, <2>3, <2>5
<1>7. Part!addResource(p, r) =
        IF r.tokens > MaxTokensPerIntent THEN [Part!addIntent(p) EXCEPT !.intents = Append(@, <<r>>)]
        ELSE IF Len(t.intents) + Len(t.group) > MaxIntents THEN Part!addIntent(t) ELSE t
  BY <1>2, <1>3, Zenon DEF Part!addResource
<1> QED
  BY <1>4, <1>5, <1>6, <1>7

LEMMA PartitionRuns ==
  ASSUME NEW rs \in Seq(Resources)
  PROVE  \E g : /\ g[0] = PartStart
                /\ \A k \in 1..Len(rs) : g[k] = Part!addResource(g[k - 1], rs[k])
                /\ Part!FoldLeft(Part!addResource, PartStart, rs) = g[Len(rs)]
<1>1. PICK n \in Nat : n = Len(rs) /\ DOMAIN rs = 1..n
  OBVIOUS
<1>2. PICK step \in [(1..n) \X PartType -> PartType] :
        \A k \in 1..n, p \in PartType : step[<<k, p>>] = Part!addResource(p, rs[k])
  <2>1. PICK step : step = [q \in (1..n) \X PartType |-> Part!addResource(q[2], rs[q[1]])]
    OBVIOUS
  <2>2. \A k \in 1..n : rs[k] \in Resources
    BY <1>1
  <2>3. \A k \in 1..n, p \in PartType :
          step[<<k, p>>] = Part!addResource(p, rs[k]) /\ step[<<k, p>>] \in PartType
    BY <2>1, <2>2, AddResourceType
  <2>4. step \in [(1..n) \X PartType -> PartType]
    BY <2>1, <2>3
  <2> QED
    BY <2>3, <2>4
<1>3. PICK f \in [SUBSET (1..n) -> PartType] : Folds(n, PartStart, step, f)
  <2>1. PartStart \in PartType
    BY DEF PartStart, PartType
  <2> QED
    BY <2>1, FoldExists
<1>4. f = [r \in SUBSET (1..n) |->
            IF r = {} THEN PartStart ELSE Part!addResource(f[r \ {Max(r)}], rs[Max(r)])]
  <2> SUFFICES ASSUME NEW r \in SUBSET (1..n)
               PROVE  f[r] = IF r = {} THEN PartStart
                             ELSE Part!addResource(f[r \ {Max(r)}], rs[Max(r)])
    OBVIOUS
  <2>1. CASE r = {}
    BY <1>3, <2>1 DEF Folds
  <2>2. CASE r # {}
    <3>1. Max(r) \in 1..n /\ f[r \ {Max(r)}] \in PartType
      BY <1>3, <2>2, TopIs
    <3> QED
      BY <1>2, <1>3, <2>2, <3>1 DEF Folds
  <2> QED
    BY <2>1, <2>2
<1>5. PICK h : h = CHOOSE x : x = [r \in SUBSET (1..n) |->
                     IF r = {} THEN PartStart ELSE Part!addResource(x[r \ {Max(r)}], rs[Max(r)])]
  OBVIOUS
<1>6. h = [r \in SUBSET (1..n) |->
            IF r = {} THEN PartStart ELSE Part!addResource(h[r \ {Max(r)}], rs[Max(r)])]
  BY <1>4, <1>5, Zenon
<1>7. Part!FoldLeft(Part!addResource, PartStart, rs) = h[1..n]
  <2>1. \A S : Part!Max(S) = Max(S)
    BY DEF Part!Max, Max
  <2> QED
    BY <1>1, <1>5, <2>1, Zenon DEF Part!FoldLeft, Part!MapThenFoldSet
<1>8. PICK g : g = [k \in 0..n |-> h[1..k]]
  OBVIOUS
<1>9. g[0] = PartStart
  <2>1. 1..0 = {}
    OBVIOUS
  <2> QED
    BY <1>6, <1>8, <2>1
<1>10. ASSUME NEW k \in 1..n PROVE g[k] = Part!addResource(g[k - 1], rs[k])
  <2>1. Max(1..k) = k /\ (1..k) \ {k} = 1..(k - 1)
    BY TopOfPrefix
  <2>2. k \in 1..k /\ k \in 0..n /\ k - 1 \in 0..n
    OBVIOUS
  <2>3. 1..k \in SUBSET (1..n)
    OBVIOUS
  <2>4. h[1..k] = Part!addResource(h[(1..k) \ {Max(1..k)}], rs[Max(1..k)])
    BY <1>6, <2>1, <2>2, <2>3
  <2> QED
    BY <1>8, <2>1, <2>2, <2>4
<1>11. g[n] = h[1..n]
  BY <1>8
<1> QED
  BY <1>1, <1>7, <1>9, <1>10, <1>11

LEMMA FlatRuns ==
  ASSUME NEW U, NEW ss \in Seq(Seq(U))
  PROVE  \E g : /\ g[0] = <<>>
                /\ \A k \in 1..Len(ss) : g[k] = g[k - 1] \o ss[k]
                /\ FlattenSeq(ss) = g[Len(ss)]
<1>1. PICK n \in Nat : n = Len(ss) /\ DOMAIN ss = 1..n /\ \A i \in 1..n : ss[i] \in Seq(U)
  OBVIOUS
<1>2. CASE n = 0
  <2>1. PICK g : g = [k \in {0} |-> <<>>]
    OBVIOUS
  <2>2. FlattenSeq(ss) = <<>>
    BY <1>1, <1>2 DEF FlattenSeq
  <2>3. g[0] = <<>> /\ g[Len(ss)] = <<>> /\ 1..Len(ss) = {}
    BY <1>1, <1>2, <2>1
  <2> QED
    BY <2>2, <2>3
<1>3. CASE n > 0
  <2>1. PICK D, P, E : D = 1..n /\ P = Seq(U) /\ E = {1}
    OBVIOUS
  <2>2. PICK next : next = [i \in D |-> IF i = 1 THEN 1 ELSE i - 1]
    OBVIOUS
  <2>3. PICK step : step = [q \in D \X P |-> q[2] \o ss[q[1]]]
    OBVIOUS
  <2>4. PICK rank : rank = [i \in D |-> i]
    OBVIOUS
  <2>5. ss \in [D -> P]
    BY <1>1, <2>1
  <2>6. next \in [D -> D] /\ rank \in [D -> Nat] /\ E \in SUBSET D
    BY <1>3, <2>1, <2>2, <2>4
  <2>7. step \in [D \X P -> P]
    BY <1>1, <2>1, <2>3
  <2>8. Decreases(D, E, next, rank)
    BY <2>1, <2>2, <2>4 DEF Decreases
  <2>9. PICK f \in [D -> P] : Recurs(D, E, ss, next, step, f)
    BY <2>5, <2>6, <2>7, <2>8, Recursion
  <2>10. f = [i \in 1..n |-> IF i = 1 THEN ss[i] ELSE f[i - 1] \o ss[i]]
    <3> SUFFICES ASSUME NEW i \in 1..n PROVE f[i] = IF i = 1 THEN ss[i] ELSE f[i - 1] \o ss[i]
      BY <2>1
    <3>1. CASE i = 1
      BY <2>1, <2>9, <3>1 DEF Recurs
    <3>2. CASE i # 1
      <4>1. i - 1 \in D /\ next[i] = i - 1 /\ i \in D /\ i \notin E
        BY <2>1, <2>2, <3>2
      <4>2. f[i] = step[<<i, f[i - 1]>>] /\ f[i - 1] \in P
        BY <2>9, <4>1 DEF Recurs
      <4> QED
        BY <2>3, <3>2, <4>1, <4>2
    <3> QED
      BY <3>1, <3>2
  <2>11. PICK h : h = CHOOSE x : x = [i \in 1..Len(ss) |-> IF i = 1 THEN ss[i] ELSE x[i - 1] \o ss[i]]
    OBVIOUS
  <2>12. h = [i \in 1..Len(ss) |-> IF i = 1 THEN ss[i] ELSE h[i - 1] \o ss[i]]
    BY <1>1, <2>10, <2>11, Zenon
  <2>13. FlattenSeq(ss) = h[Len(ss)]
    <3>1. Len(ss) # 0
      BY <1>1, <1>3
    <3> QED
      BY <2>11, <3>1, Zenon DEF FlattenSeq
  <2>14. PICK g : g = [k \in 0..n |-> IF k = 0 THEN <<>> ELSE h[k]]
    OBVIOUS
  <2>15. g[0] = <<>> /\ g[n] = h[n]
    BY <1>3, <2>14
  <2>16. ASSUME NEW k \in 1..n PROVE g[k] = g[k - 1] \o ss[k]
    <3>1. CASE k = 1
      <4>1. g[0] = <<>> /\ g[1] = ss[1] /\ ss[1] \in Seq(U)
        BY <1>1, <1>3, <2>12, <2>14
      <4>2. \A q \in Seq(U) : <<>> \o q = q
        OBVIOUS
      <4>3. k - 1 = 0
        BY <3>1
      <4> QED
        BY <3>1, <4>1, <4>2, <4>3
    <3>2. CASE k # 1
      <4>1. k \in 0..n /\ k - 1 \in 0..n /\ k # 0 /\ k - 1 # 0
        BY <3>2
      <4>2. h[k] = h[k - 1] \o ss[k]
        BY <1>1, <2>12, <3>2
      <4> QED
        BY <2>14, <4>1, <4>2
    <3> QED
      BY <3>1, <3>2
  <2> QED
    BY <1>1, <2>13, <2>15, <2>16
<1>4. n = 0 \/ n > 0
  OBVIOUS
<1> QED
  BY <1>2, <1>3, <1>4

LEMMA Flattened ==
  ASSUME NEW U
  PROVE
  /\ FlattenSeq(<<>>) = <<>>
  /\ \A ss \in Seq(Seq(U)) : FlattenSeq(ss) \in Seq(U)
  /\ \A ss \in Seq(Seq(U)), q \in Seq(U) : FlattenSeq(Append(ss, q)) = FlattenSeq(ss) \o q
<1>1. FlattenSeq(<<>>) = <<>>
  <2>1. Len(<<>>) = 0
    OBVIOUS
  <2> QED
    BY <2>1 DEF FlattenSeq
<1>2. ASSUME NEW ss \in Seq(Seq(U)) PROVE FlattenSeq(ss) \in Seq(U)
  <2>1. PICK g : /\ g[0] = <<>>
                 /\ \A k \in 1..Len(ss) : g[k] = g[k - 1] \o ss[k]
                 /\ FlattenSeq(ss) = g[Len(ss)]
    BY FlatRuns
  <2>2. PICK T \in SUBSET Nat : T = {k \in Nat : k <= Len(ss) => g[k] \in Seq(U)}
    OBVIOUS
  <2>3. 0 \in T
    <3>1. g[0] \in Seq(U)
      <4>1. <<>> \in Seq(U)
        OBVIOUS
      <4> QED
        BY <2>1, <4>1, Zenon
    <3> QED
      BY <2>2, <3>1
  <2>4. ASSUME NEW k \in T PROVE k + 1 \in T
    <3> SUFFICES ASSUME k + 1 <= Len(ss) PROVE g[k + 1] \in Seq(U)
      BY <2>2
    <3>1. k + 1 \in 1..Len(ss) /\ k + 1 - 1 = k
      OBVIOUS
    <3>2. g[k] \in Seq(U) /\ ss[k + 1] \in Seq(U)
      BY <2>2, <3>1
    <3>3. g[k + 1] = g[k] \o ss[k + 1]
      <4>1. PICK m : m = k + 1
        OBVIOUS
      <4>2. g[m] = g[m - 1] \o ss[m]
        BY <2>1, <3>1, <4>1, Zenon
      <4>3. m - 1 = k
        BY <4>1
      <4> QED
        BY <4>1, <4>2, <4>3, Zenon
    <3> QED
      BY <3>2, <3>3
  <2>5. T = Nat
    BY <2>3, <2>4, Induction
  <2> QED
    BY <2>1, <2>2, <2>5
<1>3. ASSUME NEW ss \in Seq(Seq(U)), NEW q \in Seq(U)
      PROVE  FlattenSeq(Append(ss, q)) = FlattenSeq(ss) \o q
  <2>1. PICK g : /\ g[0] = <<>>
                 /\ \A k \in 1..Len(ss) : g[k] = g[k - 1] \o ss[k]
                 /\ FlattenSeq(ss) = g[Len(ss)]
    BY FlatRuns
  <2>2. PICK t \in Seq(Seq(U)) : t = Append(ss, q)
    <3>1. Append(ss, q) \in Seq(Seq(U))
      OBVIOUS
    <3> QED
      BY <3>1
  <2>3. PICK h : /\ h[0] = <<>>
                 /\ \A k \in 1..Len(t) : h[k] = h[k - 1] \o t[k]
                 /\ FlattenSeq(t) = h[Len(t)]
    BY FlatRuns
  <2>4. PICK n \in Nat : n = Len(ss) /\ n + 1 = Len(t) /\ t[n + 1] = q /\ \A i \in 1..n : t[i] = ss[i]
    BY <2>2
  <2>5. PICK T \in SUBSET Nat : T = {k \in Nat : k <= n => g[k] = h[k]}
    OBVIOUS
  <2>6. 0 \in T
    BY <2>1, <2>3, <2>5
  <2>7. ASSUME NEW k \in T PROVE k + 1 \in T
    <3> SUFFICES ASSUME k + 1 <= n PROVE g[k + 1] = h[k + 1]
      BY <2>5
    <3>1. k + 1 \in 1..n /\ k + 1 \in 1..Len(t) /\ k + 1 - 1 = k /\ t[k + 1] = ss[k + 1] /\ g[k] = h[k]
      BY <2>4, <2>5
    <3>2. g[k + 1] = g[k] \o ss[k + 1] /\ h[k + 1] = h[k] \o t[k + 1]
      <4>1. PICK m : m = k + 1
        OBVIOUS
      <4>2. g[m] = g[m - 1] \o ss[m] /\ h[m] = h[m - 1] \o t[m]
        BY <2>1, <2>3, <2>4, <3>1, <4>1, Zenon
      <4>3. m - 1 = k
        BY <4>1
      <4> QED
        BY <4>1, <4>2, <4>3, Zenon
    <3> QED
      BY <3>1, <3>2, Zenon
  <2>8. T = Nat
    BY <2>6, <2>7, Induction
  <2>9. g[n] = h[n]
    <3>1. n \in T /\ n <= n
      BY <2>8
    <3> QED
      BY <2>5, <3>1, Zenon
  <2>10. h[n + 1] = h[n] \o q
    <3>1. PICK m : m = n + 1
      OBVIOUS
    <3>2. m \in 1..Len(t) /\ m - 1 = n
      BY <2>4, <3>1
    <3>3. h[m] = h[m - 1] \o t[m]
      BY <2>3, <3>2, Zenon
    <3> QED
      BY <2>4, <3>1, <3>2, <3>3, Zenon
  <2> QED
    BY <2>1, <2>2, <2>3, <2>4, <2>9, <2>10, Zenon
<1> QED
  BY <1>1, <1>2, <1>3

\* Sums and flattenings of sequences that grow at their end.
LEMMA SumOf ==
  /\ Sum(<<>>) = 0
  /\ \A s \in Seq(Nat) : Sum(s) \in Nat
  /\ \A s \in Seq(Nat), x \in Nat : Sum(Append(s, x)) = Sum(s) + x
<1>1. Sum(<<>>) = 0
  <2>1. <<>> \in Seq(Nat) /\ Len(<<>>) = 0
    OBVIOUS
  <2>2. PICK g : g[0] = 0 /\ Sum(<<>>) = g[Len(<<>>)]
    BY <2>1, SumRuns
  <2> QED
    BY <2>1, <2>2
<1>2. ASSUME NEW s \in Seq(Nat) PROVE Sum(s) \in Nat
  <2>1. PICK g : /\ g[0] = 0
                 /\ \A k \in 1..Len(s) : g[k] = g[k - 1] + s[k]
                 /\ Sum(s) = g[Len(s)]
    BY SumRuns
  <2>2. PICK T \in SUBSET Nat : T = {k \in Nat : k <= Len(s) => g[k] \in Nat}
    OBVIOUS
  <2>3. 0 \in T
    BY <2>1, <2>2
  <2>4. ASSUME NEW k \in T PROVE k + 1 \in T
    <3> SUFFICES ASSUME k + 1 <= Len(s) PROVE g[k + 1] \in Nat
      BY <2>2
    <3>1. k + 1 \in 1..Len(s) /\ k + 1 - 1 = k
      OBVIOUS
    <3>2. g[k] \in Nat /\ s[k + 1] \in Nat
      BY <2>2, <3>1
    <3>3. g[k + 1] = g[k] + s[k + 1]
      BY <2>1, <3>1
    <3> QED
      BY <3>2, <3>3
  <2>5. T = Nat
    BY <2>3, <2>4, Induction
  <2> QED
    BY <2>1, <2>2, <2>5
<1>3. ASSUME NEW s \in Seq(Nat), NEW x \in Nat PROVE Sum(Append(s, x)) = Sum(s) + x
  <2>1. PICK g : /\ g[0] = 0
                 /\ \A k \in 1..Len(s) : g[k] = g[k - 1] + s[k]
                 /\ Sum(s) = g[Len(s)]
    BY SumRuns
  <2>2. PICK t \in Seq(Nat) : t = Append(s, x)
    <3>1. Append(s, x) \in Seq(Nat)
      OBVIOUS
    <3> QED
      BY <3>1
  <2>3. PICK h : /\ h[0] = 0
                 /\ \A k \in 1..Len(t) : h[k] = h[k - 1] + t[k]
                 /\ Sum(t) = h[Len(t)]
    BY SumRuns
  <2>4. PICK n \in Nat : n = Len(s) /\ n + 1 = Len(t) /\ t[n + 1] = x /\ \A i \in 1..n : t[i] = s[i]
    BY <2>2
  <2>5. PICK T \in SUBSET Nat : T = {k \in Nat : k <= n => g[k] = h[k]}
    OBVIOUS
  <2>6. 0 \in T
    BY <2>1, <2>3, <2>5
  <2>7. ASSUME NEW k \in T PROVE k + 1 \in T
    <3> SUFFICES ASSUME k + 1 <= n PROVE g[k + 1] = h[k + 1]
      BY <2>5
    <3>1. k + 1 \in 1..n /\ k + 1 \in 1..Len(t) /\ k + 1 - 1 = k /\ t[k + 1] = s[k + 1] /\ g[k] = h[k]
      BY <2>4, <2>5
    <3> QED
      BY <2>1, <2>3, <2>4, <3>1
  <2>8. T = Nat
    BY <2>6, <2>7, Induction
  <2>9. g[n] = h[n]
    <3>1. n \in T /\ n <= n
      BY <2>8
    <3> QED
      BY <2>5, <3>1, Zenon
  <2>10. h[n + 1] = h[n] + x
    <3>1. n + 1 \in 1..Len(t) /\ n + 1 - 1 = n
      BY <2>4
    <3> QED
      BY <2>3, <2>4, <3>1
  <2> QED
    BY <2>1, <2>2, <2>3, <2>4, <2>9, <2>10
<1> QED
  BY <1>1, <1>2, <1>3

\* A resource has a number of tokens, and resources have the sum of theirs.
LEMMA TokensAre ==
  /\ TokensOf(<<>>) = 0
  /\ \A s \in Seq(Resources) : TokensOf(s) \in Nat
  /\ \A s \in Seq(Resources), r \in Resources :
       TokensOf(Append(s, r)) = TokensOf(s) + r.tokens
<1> DEFINE Counts(s) == [k \in DOMAIN s |-> s[k].tokens]
<1>1. \A s : TokensOf(s) = Sum(Counts(s))
  BY DEF TokensOf
<1>2. ASSUME NEW s \in Seq(Resources) PROVE Counts(s) \in Seq(Nat)
  <2>1. PICK n \in Nat : n = Len(s) /\ DOMAIN s = 1..n /\ \A k \in 1..n : s[k] \in Resources
    OBVIOUS
  <2>2. \A k \in 1..n : s[k].tokens \in Nat
    BY <2>1, ResourceHasTokens
  <2>3. Counts(s) \in [1..n -> Nat]
    BY <2>1, <2>2
  <2> QED
    BY <2>1, <2>3
<1>3. Counts(<<>>) = <<>>
  OBVIOUS
<1>4. ASSUME NEW s \in Seq(Resources), NEW r \in Resources
      PROVE  Counts(Append(s, r)) = Append(Counts(s), r.tokens)
  <2>1. PICK n \in Nat : n = Len(s) /\ DOMAIN s = 1..n
    OBVIOUS
  <2>2. PICK t : t = Append(s, r)
    OBVIOUS
  <2>3. DOMAIN t = 1..(n + 1) /\ t[n + 1] = r /\ \A k \in 1..n : t[k] = s[k]
    BY <2>1, <2>2
  <2>4. PICK c \in Seq(Nat) : c = Counts(s) /\ Len(c) = n /\ \A k \in 1..n : c[k] = s[k].tokens
    <3>1. DOMAIN Counts(s) = 1..n /\ \A k \in 1..n : Counts(s)[k] = s[k].tokens
      BY <2>1
    <3>2. Counts(s) \in Seq(Nat)
      BY <1>2
    <3>3. Len(Counts(s)) = n
      BY <2>1, <3>1, <3>2, LenProperties
    <3> QED
      BY <3>1, <3>2, <3>3, Zenon
  <2>5. PICK d : d = Append(c, r.tokens)
    OBVIOUS
  <2>6. /\ DOMAIN d = 1..(n + 1) /\ d[n + 1] = r.tokens /\ \A k \in 1..n : d[k] = s[k].tokens
        /\ d = [k \in 1..(n + 1) |-> d[k]]
    BY <2>4, <2>5
  <2>7. \A k \in 1..(n + 1) : d[k] = t[k].tokens
    <3>1. \A k \in 1..(n + 1) : k \in 1..n \/ k = n + 1
      BY <2>1
    <3> QED
      BY <2>3, <2>6, <3>1, Zenon
  <2>8. Counts(t) = d
    BY <2>3, <2>6, <2>7, Zenon
  <2> QED
    BY <2>2, <2>4, <2>5, <2>8
<1> HIDE DEF Counts
<1>5. ASSUME NEW s \in Seq(Resources), NEW r \in Resources
      PROVE  TokensOf(Append(s, r)) = TokensOf(s) + r.tokens
  <2>1. Counts(s) \in Seq(Nat) /\ r.tokens \in Nat
    BY <1>2, ResourceHasTokens
  <2>2. Sum(Append(Counts(s), r.tokens)) = Sum(Counts(s)) + r.tokens
    BY <2>1, SumOf
  <2> QED
    BY <1>1, <1>4, <2>2
<1> QED
  BY <1>1, <1>2, <1>3, <1>5, SumOf

\* The elements of a sequence that grew at its end.
LEMMA GrowsAt ==
  \A ss \in Seq(Seq(Resources)), q \in Seq(Resources) :
    \A i \in DOMAIN Append(ss, q) :
      Append(ss, q)[i] = q \/ (i \in DOMAIN ss /\ Append(ss, q)[i] = ss[i])
<1> SUFFICES ASSUME NEW ss \in Seq(Seq(Resources)), NEW q \in Seq(Resources), NEW i \in DOMAIN Append(ss, q)
             PROVE  Append(ss, q)[i] = q \/ (i \in DOMAIN ss /\ Append(ss, q)[i] = ss[i])
  OBVIOUS
<1>1. PICK n \in Nat : n = Len(ss) /\ DOMAIN ss = 1..n
  OBVIOUS
<1>2. PICK m, t : m = n + 1 /\ t = Append(ss, q)
  OBVIOUS
<1>3. DOMAIN t = 1..m /\ t[m] = q /\ \A j \in 1..n : t[j] = ss[j]
  BY <1>1, <1>2
<1>4. i \in 1..n \/ i = m
  BY <1>1, <1>2, <1>3
<1>5. t[i] = q \/ (i \in 1..n /\ t[i] = ss[i])
  BY <1>3, <1>4, Zenon
<1> QED
  BY <1>1, <1>2, <1>5, Zenon

LEMMA FlatOf ==
  /\ FlattenSeq(<<>>) = <<>>
  /\ \A ss \in Seq(Seq(Resources)) : FlattenSeq(ss) \in Seq(Resources)
  /\ \A ss \in Seq(Seq(Resources)), q \in Seq(Resources) : FlattenSeq(Append(ss, q)) = FlattenSeq(ss) \o q
BY Flattened

-----------------------------------------------------------------------------
(* Partition *)

\* An intent is within the target, or has one resource only.
FitsIntent(q) == TokensOf(q) <= MaxTokensPerIntent \/ Len(q) = 1

\* What the loop has when it has seen the first k resources of rs.
PartInv(p, rs, k) ==
  /\ p \in PartType
  /\ FlattenSeq(p.intents) \o p.group = SubSeq(rs, 1, k)
  /\ p.tokens = TokensOf(p.group) /\ p.tokens <= MaxTokensPerIntent
  /\ \A i \in DOMAIN p.intents : FitsIntent(p.intents[i])

LEMMA AddIntentKeeps ==
  ASSUME MaxTokensPerIntent \in Nat \ {0}, NEW p, NEW rs, NEW k, PartInv(p, rs, k)
  PROVE  LET q == Part!addIntent(p) IN PartInv(q, rs, k) /\ q.group = <<>> /\ q.tokens = 0
<1>1. CASE p.group = <<>>
  <2>1. Part!addIntent(p) = p
    BY <1>1 DEF Part!addIntent
  <2>2. p.tokens = 0
    BY <1>1, TokensAre DEF PartInv
  <2> QED
    BY <1>1, <2>1, <2>2
<1>2. CASE p.group # <<>>
  <2>1. PICK q : q = Part!addIntent(p)
    OBVIOUS
  <2>2. q = [intents |-> Append(p.intents, p.group), group |-> <<>>, tokens |-> 0]
    BY <1>2, <2>1 DEF Part!addIntent
  <2>3. p.intents \in Seq(Seq(Resources)) /\ p.group \in Seq(Resources)
    BY DEF PartInv, PartType
  <2>4. q \in PartType
    BY <2>2, <2>3 DEF PartType
  <2>5. FlattenSeq(q.intents) \o q.group = SubSeq(rs, 1, k)
    <3>1. PICK a \in Seq(Resources) : a = FlattenSeq(p.intents) \o p.group
      <4>1. FlattenSeq(p.intents) \in Seq(Resources)
        BY <2>3, FlatOf
      <4>2. FlattenSeq(p.intents) \o p.group \in Seq(Resources)
        BY <2>3, <4>1
      <4> QED
        BY <4>2
    <3>2. FlattenSeq(q.intents) = a
      BY <2>2, <2>3, <3>1, FlatOf
    <3>3. a \o <<>> = a
      OBVIOUS
    <3> QED
      BY <2>2, <3>1, <3>2, <3>3 DEF PartInv
  <2>6. \A i \in DOMAIN q.intents : FitsIntent(q.intents[i])
    <3>1. FitsIntent(p.group)
      BY DEF PartInv, FitsIntent
    <3>2. \A i \in DOMAIN q.intents : q.intents[i] = p.group \/ (i \in DOMAIN p.intents /\ q.intents[i] = p.intents[i])
      BY <2>2, <2>3, GrowsAt
    <3> QED
      BY <3>1, <3>2 DEF PartInv
  <2>7. q.tokens = TokensOf(q.group) /\ q.tokens <= MaxTokensPerIntent /\ q.group = <<>> /\ q.tokens = 0
    BY <2>2, TokensAre
  <2> QED
    BY <2>1, <2>4, <2>5, <2>6, <2>7 DEF PartInv
<1> QED
  BY <1>1, <1>2

\* Sequences of resources, put together.
LEMMA Joined ==
  ASSUME NEW a \in Seq(Resources), NEW b \in Seq(Resources), NEW r \in Resources
  PROVE  /\ a \o <<>> = a
         /\ a \o Append(b, r) = Append(a \o b, r)
         /\ a \o <<r>> = Append(a, r)
         /\ {a \o b, Append(a, r), <<r>>} \subseteq Seq(Resources)
<1>1. a \o <<>> = a
  OBVIOUS
<1>2. a \o Append(b, r) = Append(a \o b, r)
  OBVIOUS
<1>3. a \o <<r>> = Append(a, r)
  OBVIOUS
<1>4. a \o b \in Seq(Resources)
  OBVIOUS
<1>5. Append(a, r) \in Seq(Resources)
  OBVIOUS
<1>6. <<r>> \in Seq(Resources)
  OBVIOUS
<1> QED
  BY <1>1, <1>2, <1>3, <1>4, <1>5, <1>6

LEMMA Beginning ==
  ASSUME NEW rs \in Seq(Resources), NEW k \in 1..Len(rs)
  PROVE  SubSeq(rs, 1, k) = Append(SubSeq(rs, 1, k - 1), rs[k])
<1>1. PICK n \in Nat : n = Len(rs) /\ DOMAIN rs = 1..n /\ \A i \in 1..n : rs[i] \in Resources
  OBVIOUS
<1>2. PICK a : a = SubSeq(rs, 1, k)
  OBVIOUS
<1>3. PICK b : b = SubSeq(rs, 1, k - 1)
  OBVIOUS
<1>4. a \in Seq(Resources) /\ Len(a) = k /\ \A i \in 1..k : a[i] = rs[i]
  BY <1>1, <1>2
<1>5. b \in Seq(Resources) /\ Len(b) = k - 1 /\ \A i \in 1..(k - 1) : b[i] = rs[i]
  BY <1>1, <1>3
<1>6. PICK c : c = Append(b, rs[k])
  OBVIOUS
<1>7. c \in Seq(Resources) /\ Len(c) = k /\ \A i \in 1..k : c[i] = rs[i]
  BY <1>1, <1>5, <1>6
<1>8. a = c
  <2>1. a = [i \in 1..k |-> a[i]] /\ c = [i \in 1..k |-> c[i]]
    BY <1>4, <1>7
  <2>2. \A i \in 1..k : a[i] = c[i]
    BY <1>4, <1>7
  <2> QED
    BY <2>1, <2>2, Zenon
<1> QED
  BY <1>2, <1>3, <1>6, <1>8

LEMMA AddResourceKeeps ==
  ASSUME MaxTokensPerIntent \in Nat \ {0}, NEW rs \in Seq(Resources), NEW k \in 1..Len(rs),
         NEW p, PartInv(p, rs, k - 1)
  PROVE  PartInv(Part!addResource(p, rs[k]), rs, k)
<1>1. PICK r \in Resources : r = rs[k]
  OBVIOUS
<1>2. PICK a : a = Part!addIntent(p)
  OBVIOUS
<1>3. PartInv(a, rs, k - 1) /\ a.group = <<>> /\ a.tokens = 0
  BY <1>2, AddIntentKeeps
<1>4. SubSeq(rs, 1, k) = Append(SubSeq(rs, 1, k - 1), r)
  BY <1>1, Beginning
<1>5. CASE r.tokens > MaxTokensPerIntent
  <2>1. PICK o : o = <<r>> /\ o \in Seq(Resources) /\ Len(o) = 1
    <3>1. <<r>> \in Seq(Resources)
      OBVIOUS
    <3>2. Len(<<r>>) = 1
      OBVIOUS
    <3> QED
      BY <3>1, <3>2, Zenon
  <2>2. PICK b : b = [a EXCEPT !.intents = Append(@, o)]
    OBVIOUS
  <2>3. Part!addResource(p, r) = b
    BY <1>2, <1>5, <2>1, <2>2, Zenon DEF Part!addResource
  <2>4. a.intents \in Seq(Seq(Resources)) /\ a.group \in Seq(Resources) /\ a.tokens \in Nat
    BY <1>3 DEF PartInv, PartType
  <2>5. b = [intents |-> Append(a.intents, o), group |-> a.group, tokens |-> a.tokens]
    BY <1>3, <2>2 DEF PartInv, PartType
  <2>6. Append(a.intents, o) \in Seq(Seq(Resources))
    BY <2>1, <2>4
  <2>7. b \in PartType
    BY <2>4, <2>5, <2>6 DEF PartType
  <2>8. FlattenSeq(b.intents) \o b.group = SubSeq(rs, 1, k)
    <3>1. PICK f \in Seq(Resources) : f = FlattenSeq(a.intents)
      BY <2>4, FlatOf
    <3>2. FlattenSeq(b.intents) = f \o o /\ b.group = <<>>
      BY <1>3, <2>1, <2>4, <2>5, <3>1, FlatOf
    <3>3. f \o o = Append(f, r) /\ Append(f, r) \in Seq(Resources)
      BY <2>1, <3>1, Joined
    <3>4. (f \o o) \o <<>> = Append(f, r)
      BY <3>3, Joined
    <3>5. f = SubSeq(rs, 1, k - 1)
      <4>1. f \o <<>> = f
        BY <3>1, Joined
      <4> QED
        BY <1>3, <3>1, <4>1 DEF PartInv
    <3> QED
      BY <1>4, <3>2, <3>4, <3>5, Zenon
  <2>9. \A i \in DOMAIN b.intents : FitsIntent(b.intents[i])
    <3>1. FitsIntent(o)
      BY <2>1 DEF FitsIntent
    <3>2. \A i \in DOMAIN b.intents : b.intents[i] = o \/ (i \in DOMAIN a.intents /\ b.intents[i] = a.intents[i])
      BY <2>1, <2>4, <2>5, GrowsAt
    <3> QED
      BY <1>3, <3>1, <3>2 DEF PartInv
  <2>10. b.tokens = TokensOf(b.group) /\ b.tokens <= MaxTokensPerIntent
    BY <1>3, <2>5 DEF PartInv
  <2> QED
    BY <1>1, <2>3, <2>7, <2>8, <2>9, <2>10 DEF PartInv
<1>6. CASE ~(r.tokens > MaxTokensPerIntent)
  <2>1. PICK q : q = IF p.tokens + r.tokens > MaxTokensPerIntent THEN a ELSE p
    OBVIOUS
  <2>2. PartInv(q, rs, k - 1) /\ q.tokens + r.tokens <= MaxTokensPerIntent
    <3>1. p.tokens \in Nat /\ r.tokens \in Nat
      BY ResourceHasTokens DEF PartInv, PartType
    <3>2. CASE p.tokens + r.tokens > MaxTokensPerIntent
      BY <1>3, <1>6, <2>1, <3>1, <3>2
    <3>3. CASE ~(p.tokens + r.tokens > MaxTokensPerIntent)
      BY <2>1, <3>1, <3>3
    <3> QED
      BY <3>2, <3>3
  <2>3. PICK t : t = [q EXCEPT !.group = Append(@, r), !.tokens = @ + r.tokens]
    OBVIOUS
  <2>4. Part!addResource(p, r) =
          IF Len(t.intents) + Len(t.group) > MaxIntents THEN Part!addIntent(t) ELSE t
    BY <1>2, <1>6, <2>1, <2>3, Zenon DEF Part!addResource
  <2>5. q.intents \in Seq(Seq(Resources)) /\ q.group \in Seq(Resources) /\ q.tokens \in Nat
    BY <2>2 DEF PartInv, PartType
  <2>6. t = [intents |-> q.intents, group |-> Append(q.group, r), tokens |-> q.tokens + r.tokens]
    BY <2>2, <2>3 DEF PartInv, PartType
  <2>7. t \in PartType
    <3>1. r.tokens \in Nat
      BY ResourceHasTokens
    <3> QED
      BY <2>5, <2>6, <3>1 DEF PartType
  <2>8. FlattenSeq(t.intents) \o t.group = SubSeq(rs, 1, k)
    <3>1. PICK f \in Seq(Resources) : f = FlattenSeq(q.intents)
      BY <2>5, FlatOf
    <3>2. f \o Append(q.group, r) = Append(f \o q.group, r)
      <4>1. PICK b \in Seq(Resources) : b = q.group
        BY <2>5
      <4>2. f \o Append(b, r) = Append(f \o b, r)
        BY Joined
      <4> QED
        BY <4>1, <4>2
    <3>3. f \o q.group = SubSeq(rs, 1, k - 1)
      BY <2>2, <3>1 DEF PartInv
    <3> QED
      BY <1>4, <2>6, <3>1, <3>2, <3>3
  <2>9. t.tokens = TokensOf(t.group) /\ t.tokens <= MaxTokensPerIntent
    <3>1. q.tokens = TokensOf(q.group)
      BY <2>2 DEF PartInv
    <3>2. TokensOf(Append(q.group, r)) = TokensOf(q.group) + r.tokens
      BY <2>5, TokensAre
    <3> QED
      BY <2>2, <2>6, <3>1, <3>2
  <2>10. \A i \in DOMAIN t.intents : FitsIntent(t.intents[i])
    BY <2>2, <2>6 DEF PartInv
  <2>11. PartInv(t, rs, k)
    BY <2>7, <2>8, <2>9, <2>10 DEF PartInv
  <2>12. PartInv(Part!addIntent(t), rs, k)
    BY <2>11, AddIntentKeeps
  <2> QED
    BY <1>1, <2>4, <2>11, <2>12
<1> QED
  BY <1>5, <1>6

\* The partition of every sequence of resources by its files is whole.
LEMMA PartitionKeeps ==
  ASSUME MaxTokensPerIntent \in Nat \ {0}, NEW rs \in Seq(Resources),
         NEW intents \in Part!PartitionOf(rs, "file")
  PROVE  WholeByFile(rs, intents)
<1>1. CASE rs = <<>>
  <2>1. PICK e \in Seq(Resources) : e = <<>>
    <3>1. <<>> \in Seq(Resources)
      OBVIOUS
    <3> QED
      BY <3>1
  <2>2. PICK ss \in Seq(Seq(Resources)) : ss = <<>>
    <3>1. <<>> \in Seq(Seq(Resources))
      OBVIOUS
    <3> QED
      BY <3>1
  <2>3. intents = <<e>> /\ <<e>> = Append(ss, e)
    BY <1>1, <2>1, <2>2 DEF Part!PartitionOf
  <2>4. FlattenSeq(<<e>>) = e
    <3>1. FlattenSeq(Append(ss, e)) = FlattenSeq(ss) \o e /\ FlattenSeq(ss) = <<>>
      BY <2>2, FlatOf
    <3>2. <<>> \o <<>> = <<>>
      OBVIOUS
    <3> QED
      BY <2>1, <2>3, <3>1, <3>2, Zenon
  <2>5. FitsIntent(e)
    BY <2>1, TokensAre DEF FitsIntent
  <2>6. \A i \in DOMAIN <<e>> : <<e>>[i] = e
    OBVIOUS
  <2> QED
    BY <1>1, <2>1, <2>3, <2>4, <2>5, <2>6 DEF WholeByFile, FitsIntent
<1>2. CASE rs # <<>>
  <2>1. PICK n \in Nat : n = Len(rs)
    OBVIOUS
  <2>2. PICK g : /\ g[0] = PartStart
                 /\ \A k \in 1..n : g[k] = Part!addResource(g[k - 1], rs[k])
                 /\ Part!FoldLeft(Part!addResource, PartStart, rs) = g[n]
    BY <2>1, PartitionRuns
  <2>3. PICK T \in SUBSET Nat : T = {k \in Nat : k <= n => PartInv(g[k], rs, k)}
    OBVIOUS
  <2>4. 0 \in T
    <3>1. PartStart \in PartType
      BY DEF PartStart, PartType
    <3>2. FlattenSeq(PartStart.intents) \o PartStart.group = SubSeq(rs, 1, 0)
      <4>1. SubSeq(rs, 1, 0) = <<>> /\ <<>> \o <<>> = <<>>
        OBVIOUS
      <4> QED
        BY <4>1, FlatOf DEF PartStart
    <3>3. PartStart.tokens = TokensOf(PartStart.group) /\ PartStart.tokens <= MaxTokensPerIntent
      BY TokensAre DEF PartStart
    <3>4. DOMAIN PartStart.intents = {}
      BY DEF PartStart
    <3>5. PartInv(PartStart, rs, 0)
      BY <3>1, <3>2, <3>3, <3>4 DEF PartInv
    <3> QED
      BY <2>2, <2>3, <3>5
  <2>5. ASSUME NEW k \in T PROVE k + 1 \in T
    <3> SUFFICES ASSUME k + 1 <= n PROVE PartInv(g[k + 1], rs, k + 1)
      BY <2>3
    <3>1. PICK m \in 1..Len(rs) : m = k + 1
      BY <2>1
    <3>2. m - 1 = k /\ m \in 1..n
      BY <2>1, <3>1
    <3>3. PartInv(g[k], rs, k)
      BY <2>3
    <3>4. PartInv(Part!addResource(g[k], rs[m]), rs, m)
      BY <3>2, <3>3, AddResourceKeeps
    <3>5. g[m] = Part!addResource(g[k], rs[m])
      BY <2>2, <3>2
    <3> QED
      BY <3>1, <3>4, <3>5
  <2>6. T = Nat
    BY <2>4, <2>5, Induction
  <2>7. PartInv(g[n], rs, n)
    BY <2>3, <2>6
  <2>8. PICK q : q = Part!addIntent(g[n])
    OBVIOUS
  <2>9. PartInv(q, rs, n) /\ q.group = <<>>
    BY <2>7, <2>8, AddIntentKeeps
  <2>10. intents = q.intents
    <3>1. Part!partitionByFile(rs) = q.intents
      BY <1>2, <2>2, <2>8, Zenon DEF Part!partitionByFile, PartStart
    <3>2. intents = Part!partitionByFile(rs)
      BY <1>2 DEF Part!PartitionOf
    <3> QED
      BY <3>1, <3>2
  <2>11. FlattenSeq(q.intents) = rs
    <3>1. PICK f \in Seq(Resources) : f = FlattenSeq(q.intents)
      BY <2>9, FlatOf DEF PartInv, PartType
    <3>2. f \o <<>> = f
      OBVIOUS
    <3>3. SubSeq(rs, 1, n) = rs
      BY <2>1
    <3> QED
      BY <2>9, <3>1, <3>2, <3>3 DEF PartInv
  <2> QED
    BY <2>9, <2>10, <2>11 DEF PartInv, WholeByFile, FitsIntent
<1> QED
  BY <1>1, <1>2

\* The modules of the resources of a task.
Modules(rs) == {r.module : r \in ToSet(rs)}

\* The places among the first k that have a resource of module m.
PlacesIn(rs, m, k) == {j \in 1..k : rs[j].module = m}

LEMMA ModulesAre ==
  ASSUME NEW rs \in Seq(Resources)
  PROVE  /\ \A k \in 1..Len(rs) : rs[k] \in ToSet(rs) /\ rs[k].module \in Modules(rs)
         /\ \A m \in Modules(rs) : \E k \in 1..Len(rs) : rs[k].module = m
         /\ IsFiniteSet(Modules(rs))
<1>1. PICK n \in Nat : n = Len(rs) /\ DOMAIN rs = 1..n
  OBVIOUS
<1>2. ToSet(rs) = {rs[k] : k \in 1..n}
  BY <1>1, Zenon DEF ToSet
<1>3. PICK f : f = [k \in 1..n |-> rs[k].module]
  OBVIOUS
<1>4. Modules(rs) = {f[k] : k \in 1..n}
  BY <1>2, <1>3 DEF Modules
<1>5. IsFiniteSet({f[k] : k \in 1..n})
  <2>1. IsFiniteSet(1..n)
    BY IntentsAreFinite
  <2>2. f \in [1..n -> Modules(rs)]
    BY <1>3, <1>4
  <2>3. f \in Surjection(1..n, Modules(rs))
    BY <1>4, <2>2 DEF Surjection
  <2> QED
    BY <1>4, <2>1, <2>3, FS_Surjection
<1> QED
  BY <1>1, <1>2, <1>3, <1>4, <1>5

LEMMA PlacesGrow ==
  ASSUME NEW rs \in Seq(Resources), NEW m
  PROVE  /\ Cardinality(PlacesIn(rs, m, 0)) = 0
         /\ \A k \in 0..Len(rs) : Cardinality(PlacesIn(rs, m, k)) \in Nat
         /\ \A k \in 1..Len(rs) :
              Cardinality(PlacesIn(rs, m, k)) =
                IF rs[k].module = m THEN Cardinality(PlacesIn(rs, m, k - 1)) + 1
                ELSE Cardinality(PlacesIn(rs, m, k - 1))
<1>1. PlacesIn(rs, m, 0) = {}
  BY DEF PlacesIn
<1>2. ASSUME NEW k \in Nat PROVE IsFiniteSet(PlacesIn(rs, m, k))
  <2>1. IsFiniteSet(1..k)
    BY IntentsAreFinite
  <2>2. PlacesIn(rs, m, k) \subseteq 1..k
    BY DEF PlacesIn
  <2> QED
    BY <2>1, <2>2, FS_Subset
<1>3. \A k \in Nat : Cardinality(PlacesIn(rs, m, k)) \in Nat
  BY <1>2, FS_CardinalityType
<1>4. ASSUME NEW k \in 1..Len(rs)
      PROVE  Cardinality(PlacesIn(rs, m, k)) =
               IF rs[k].module = m THEN Cardinality(PlacesIn(rs, m, k - 1)) + 1
               ELSE Cardinality(PlacesIn(rs, m, k - 1))
  <2>1. \A j : j \in 1..k <=> j \in 1..(k - 1) \/ j = k
    OBVIOUS
  <2>2. CASE rs[k].module = m
    <3>1. PlacesIn(rs, m, k) = PlacesIn(rs, m, k - 1) \cup {k} /\ k \notin PlacesIn(rs, m, k - 1)
      BY <2>1, <2>2 DEF PlacesIn
    <3>2. k - 1 \in Nat /\ IsFiniteSet(PlacesIn(rs, m, k - 1))
      BY <1>2
    <3> QED
      BY <2>2, <3>1, <3>2, FS_AddElement
  <2>3. CASE rs[k].module # m
    <3>1. PlacesIn(rs, m, k) = PlacesIn(rs, m, k - 1)
      BY <2>1, <2>3 DEF PlacesIn
    <3> QED
      BY <2>3, <3>1
  <2> QED
    BY <2>2, <2>3
<1>5. Cardinality(PlacesIn(rs, m, 0)) = 0
  BY <1>1, FS_EmptySet
<1>6. \A k \in 0..Len(rs) : Cardinality(PlacesIn(rs, m, k)) \in Nat
  <2>1. \A k \in 0..Len(rs) : k \in Nat
    OBVIOUS
  <2> QED
    BY <1>3, <2>1, Zenon
<1> QED
  BY <1>4, <1>5, <1>6

MapType(rs) == [Modules(rs) -> Seq(Resources)]

LEMMA AddToModuleType ==
  ASSUME NEW rs, NEW p \in MapType(rs), NEW r \in Resources
  PROVE  Part!addToModule(p, r) \in MapType(rs)
<1>1. CASE r.module \in Modules(rs)
  <2>1. Append(p[r.module], r) \in Seq(Resources)
    BY <1>1 DEF MapType
  <2> QED
    BY <2>1 DEF MapType, Part!addToModule
<1>2. CASE r.module \notin Modules(rs)
  BY <1>2 DEF MapType, Part!addToModule
<1> QED
  BY <1>1, <1>2

MapStart(rs) == [m \in Modules(rs) |-> <<>>]

LEMMA MapRuns ==
  ASSUME NEW rs \in Seq(Resources)
  PROVE  \E g : /\ g[0] = MapStart(rs)
                /\ \A k \in 1..Len(rs) : g[k] = Part!addToModule(g[k - 1], rs[k])
                /\ Part!moduleMap(rs) = g[Len(rs)]
<1>1. PICK n \in Nat : n = Len(rs) /\ DOMAIN rs = 1..n
  OBVIOUS
<1>2. PICK P, b : P = MapType(rs) /\ b = MapStart(rs)
  OBVIOUS
<1>3. b \in P
  BY <1>2 DEF MapType, MapStart
<1>4. PICK step \in [(1..n) \X P -> P] :
        \A k \in 1..n, p \in P : step[<<k, p>>] = Part!addToModule(p, rs[k])
  <2>1. PICK step : step = [q \in (1..n) \X P |-> Part!addToModule(q[2], rs[q[1]])]
    OBVIOUS
  <2>2. \A k \in 1..n : rs[k] \in Resources
    BY <1>1
  <2>3. \A k \in 1..n, p \in P :
          step[<<k, p>>] = Part!addToModule(p, rs[k]) /\ step[<<k, p>>] \in P
    BY <1>2, <2>1, <2>2, AddToModuleType
  <2>4. step \in [(1..n) \X P -> P]
    BY <2>1, <2>3
  <2> QED
    BY <2>3, <2>4
<1>5. PICK f \in [SUBSET (1..n) -> P] : Folds(n, b, step, f)
  BY <1>3, <1>4, FoldExists
<1>6. f = [r \in SUBSET (1..n) |->
            IF r = {} THEN b ELSE Part!addToModule(f[r \ {Max(r)}], rs[Max(r)])]
  <2> SUFFICES ASSUME NEW r \in SUBSET (1..n)
               PROVE  f[r] = IF r = {} THEN b ELSE Part!addToModule(f[r \ {Max(r)}], rs[Max(r)])
    OBVIOUS
  <2>1. CASE r = {}
    BY <1>5, <2>1 DEF Folds
  <2>2. CASE r # {}
    <3>1. Max(r) \in 1..n /\ f[r \ {Max(r)}] \in P
      BY <1>5, <2>2, TopIs
    <3> QED
      BY <1>4, <1>5, <2>2, <3>1 DEF Folds
  <2> QED
    BY <2>1, <2>2
<1>7. PICK h : h = CHOOSE x : x = [r \in SUBSET (1..n) |->
                     IF r = {} THEN b ELSE Part!addToModule(x[r \ {Max(r)}], rs[Max(r)])]
  OBVIOUS
<1>8. h = [r \in SUBSET (1..n) |->
            IF r = {} THEN b ELSE Part!addToModule(h[r \ {Max(r)}], rs[Max(r)])]
  BY <1>6, <1>7, Zenon
<1>9. Part!moduleMap(rs) = h[1..n]
  <2>1. \A S : Part!Max(S) = Max(S)
    BY DEF Part!Max, Max
  <2>2. Part!ToSet(rs) = ToSet(rs)
    BY DEF Part!ToSet, ToSet
  <2>3. Part!moduleMap(rs) = Part!FoldLeft(Part!addToModule, b, rs)
    BY <1>2, <2>2, Zenon DEF Part!moduleMap, MapStart, Modules
  <2>4. Part!FoldLeft(Part!addToModule, b, rs) = h[1..n]
    BY <1>1, <1>7, <2>1, Zenon DEF Part!FoldLeft, Part!MapThenFoldSet
  <2> QED
    BY <2>3, <2>4
<1>10. PICK g : g = [k \in 0..n |-> h[1..k]]
  OBVIOUS
<1>11. g[0] = b
  <2>1. 1..0 = {}
    OBVIOUS
  <2> QED
    BY <1>8, <1>10, <2>1
<1>12. ASSUME NEW k \in 1..n PROVE g[k] = Part!addToModule(g[k - 1], rs[k])
  <2>1. Max(1..k) = k /\ (1..k) \ {k} = 1..(k - 1)
    BY TopOfPrefix
  <2>2. k \in 1..k /\ k \in 0..n /\ k - 1 \in 0..n
    OBVIOUS
  <2>3. 1..k \in SUBSET (1..n)
    OBVIOUS
  <2>4. h[1..k] = Part!addToModule(h[(1..k) \ {Max(1..k)}], rs[Max(1..k)])
    BY <1>8, <2>1, <2>2, <2>3
  <2> QED
    BY <1>10, <2>1, <2>2, <2>4
<1>13. g[n] = h[1..n]
  BY <1>10
<1> QED
  BY <1>1, <1>2, <1>9, <1>11, <1>12, <1>13

\* The resource at place j is in the group of its module, at its place there.
IsPlaced(g, rs, j) ==
  LET m == rs[j].module
      c == Cardinality(PlacesIn(rs, m, j))
  IN  c \in DOMAIN g[m] /\ g[m][c] = rs[j]

\* What the groups have of the first k resources.
MapInv(g, rs, k) ==
  /\ g \in MapType(rs)
  /\ \A m \in Modules(rs) :
       /\ Len(g[m]) = Cardinality(PlacesIn(rs, m, k))
       /\ \A i \in DOMAIN g[m] : g[m][i] \in ToSet(rs) /\ g[m][i].module = m
  /\ \A j \in 1..k : IsPlaced(g, rs, j)

LEMMA AddToModuleKeeps ==
  ASSUME NEW rs \in Seq(Resources), NEW k \in 1..Len(rs), NEW g, MapInv(g, rs, k - 1)
  PROVE  MapInv(Part!addToModule(g, rs[k]), rs, k)
<1>1. PICK r \in Resources : r = rs[k] /\ r \in ToSet(rs) /\ r.module \in Modules(rs)
  BY ModulesAre
<1>2. PICK h : h = Part!addToModule(g, r)
  OBVIOUS
<1>3. PICK q : q = g[r.module]
  OBVIOUS
<1>4. g \in MapType(rs) /\ q \in Seq(Resources)
  BY <1>1, <1>3 DEF MapInv, MapType
<1>5. /\ h[r.module] = Append(q, r)
      /\ \A m \in Modules(rs) : m # r.module => h[m] = g[m]
  BY <1>1, <1>2, <1>3, <1>4 DEF Part!addToModule, MapType
<1>6. PICK n \in Nat : n = Len(q) /\ DOMAIN q = 1..n
  BY <1>4
<1>7. /\ DOMAIN h[r.module] = 1..(n + 1) /\ Len(h[r.module]) = n + 1
      /\ h[r.module][n + 1] = r
      /\ \A i \in 1..n : h[r.module][i] = q[i]
  BY <1>4, <1>5, <1>6
<1>8. h \in MapType(rs)
  BY <1>2, <1>4, AddToModuleType
<1>9. Cardinality(PlacesIn(rs, r.module, k)) = n + 1
  <2>1. Cardinality(PlacesIn(rs, r.module, k)) = Cardinality(PlacesIn(rs, r.module, k - 1)) + 1
    BY <1>1, PlacesGrow
  <2>2. Cardinality(PlacesIn(rs, r.module, k - 1)) = n
    BY <1>1, <1>3, <1>6 DEF MapInv
  <2> QED
    BY <2>1, <2>2
<1>10. ASSUME NEW m \in Modules(rs)
       PROVE  /\ Len(h[m]) = Cardinality(PlacesIn(rs, m, k))
              /\ \A i \in DOMAIN h[m] : h[m][i] \in ToSet(rs) /\ h[m][i].module = m
  <2>1. CASE m = r.module
    <3>1. \A i \in 1..n : q[i] \in ToSet(rs) /\ q[i].module = m
      BY <1>1, <1>3, <1>6, <2>1 DEF MapInv
    <3>2. \A i \in 1..(n + 1) : i \in 1..n \/ i = n + 1
      OBVIOUS
    <3> QED
      BY <1>1, <1>7, <1>9, <2>1, <3>1, <3>2
  <2>2. CASE m # r.module
    <3>1. Cardinality(PlacesIn(rs, m, k)) = Cardinality(PlacesIn(rs, m, k - 1))
      BY <1>1, <2>2, PlacesGrow
    <3>2. h[m] = g[m]
      BY <1>5, <2>2
    <3> QED
      BY <3>1, <3>2 DEF MapInv
  <2> QED
    BY <2>1, <2>2
<1>11. ASSUME NEW j \in 1..k PROVE IsPlaced(h, rs, j)
  <2>1. CASE j = k
    <3>1. n + 1 \in 1..(n + 1)
      OBVIOUS
    <3> QED
      BY <1>1, <1>7, <1>9, <2>1, <3>1 DEF IsPlaced
  <2>2. CASE j # k
    <3>1. j \in 1..(k - 1) /\ j \in 1..Len(rs)
      BY <2>2
    <3>2. PICK m, c : m = rs[j].module /\ c = Cardinality(PlacesIn(rs, m, j))
      OBVIOUS
    <3>3. m \in Modules(rs) /\ c \in DOMAIN g[m] /\ g[m][c] = rs[j]
      <4>1. IsPlaced(g, rs, j)
        BY <3>1 DEF MapInv
      <4> QED
        BY <3>1, <3>2, <4>1, ModulesAre DEF IsPlaced
    <3>4. c \in DOMAIN h[m] /\ h[m][c] = g[m][c]
      <4>1. CASE m = r.module
        <5>1. c \in 1..n /\ g[m] = q
          BY <1>3, <1>6, <3>3, <4>1
        <5>2. c \in 1..(n + 1)
          BY <5>1
        <5> QED
          BY <1>7, <4>1, <5>1, <5>2
      <4>2. CASE m # r.module
        BY <1>5, <3>3, <4>2
      <4> QED
        BY <4>1, <4>2
    <3> QED
      BY <3>2, <3>3, <3>4 DEF IsPlaced
  <2> QED
    BY <2>1, <2>2
<1>12. MapInv(h, rs, k)
  BY <1>8, <1>10, <1>11 DEF MapInv
<1> QED
  BY <1>1, <1>2, <1>12

LEMMA MapKeeps ==
  ASSUME NEW rs \in Seq(Resources)
  PROVE  MapInv(Part!moduleMap(rs), rs, Len(rs))
<1>1. PICK n \in Nat : n = Len(rs)
  OBVIOUS
<1>2. PICK g : /\ g[0] = MapStart(rs)
               /\ \A k \in 1..n : g[k] = Part!addToModule(g[k - 1], rs[k])
               /\ Part!moduleMap(rs) = g[n]
  BY <1>1, MapRuns
<1>3. PICK T \in SUBSET Nat : T = {k \in Nat : k <= n => MapInv(g[k], rs, k)}
  OBVIOUS
<1>4. 0 \in T
  <2>1. MapStart(rs) \in MapType(rs)
    BY DEF MapStart, MapType
  <2>2. \A m \in Modules(rs) : MapStart(rs)[m] = <<>>
    BY DEF MapStart
  <2>3. Len(<<>>) = 0 /\ DOMAIN <<>> = {} /\ 1..0 = {}
    OBVIOUS
  <2>4. \A m \in Modules(rs) : Cardinality(PlacesIn(rs, m, 0)) = 0
    BY PlacesGrow
  <2>5. MapInv(MapStart(rs), rs, 0)
    BY <2>1, <2>2, <2>3, <2>4 DEF MapInv
  <2> QED
    BY <1>2, <1>3, <2>5
<1>5. ASSUME NEW k \in T PROVE k + 1 \in T
  <2> SUFFICES ASSUME k + 1 <= n PROVE MapInv(g[k + 1], rs, k + 1)
    BY <1>3
  <2>1. PICK m \in 1..Len(rs) : m = k + 1
    BY <1>1, <1>3
  <2>2. m - 1 = k /\ m \in 1..n /\ k <= n
    BY <1>1, <1>3, <2>1
  <2>3. MapInv(g[m - 1], rs, m - 1)
    BY <1>3, <2>2
  <2>4. MapInv(Part!addToModule(g[m - 1], rs[m]), rs, m)
    BY <2>3, AddToModuleKeeps
  <2>5. g[m] = Part!addToModule(g[m - 1], rs[m])
    BY <1>2, <2>2
  <2> QED
    BY <2>1, <2>4, <2>5
<1>6. T = Nat
  BY <1>4, <1>5, Induction
<1>7. MapInv(g[n], rs, n)
  BY <1>3, <1>6
<1> QED
  BY <1>1, <1>2, <1>7

\* A set that is put in order has every element at one place.
LEMMA OrderIs ==
  ASSUME NEW S, IsFiniteSet(S), NEW order \in Part!SetToSeqs(S)
  PROVE  /\ \A i \in DOMAIN order : order[i] \in S
         /\ \A i, j \in DOMAIN order : i # j => order[i] # order[j]
         /\ \A m \in S : \E i \in DOMAIN order : order[i] = m
<1>1. PICK n \in Nat : n = Cardinality(S)
  BY FS_CardinalityType
<1>2. /\ order \in [1..n -> S]
      /\ \A i, j \in 1..n : i # j => order[i] # order[j]
  <2>1. Part!Cardinality(S) = Cardinality(S)
    BY DEF Part!Cardinality, Cardinality
  <2> QED
    BY <1>1, <2>1 DEF Part!SetToSeqs
<1>3. DOMAIN order = 1..n
  BY <1>2
<1>4. ASSUME NEW m \in S PROVE \E i \in DOMAIN order : order[i] = m
  <2> SUFFICES ASSUME \A i \in 1..n : order[i] # m PROVE FALSE
    BY <1>3
  <2>1. PICK T : T = S \ {m}
    OBVIOUS
  <2>2. IsFiniteSet(T) /\ Cardinality(T) = n - 1
    BY <1>1, <2>1, FS_RemoveElement
  <2>3. order \in [1..n -> T]
    BY <1>2, <2>1
  <2>4. IsFiniteSet(1..n) /\ Cardinality(1..n) = n
    BY IntentsAreFinite
  <2>5. ~(Cardinality(T) < Cardinality(1..n))
    BY <1>2, <2>2, <2>3, <2>4, OneToOne
  <2> QED
    BY <2>2, <2>4, <2>5
<1> QED
  BY <1>2, <1>3, <1>4

\* The partition of every sequence of resources by its modules is whole.
LEMMA ModulesKeep ==
  ASSUME NEW rs \in Seq(Resources), rs # <<>>, NEW intents \in Part!PartitionOf(rs, "module")
  PROVE  WholeByModule(rs, intents)
<1>1. PICK map : map = Part!moduleMap(rs)
  OBVIOUS
<1>2. MapInv(map, rs, Len(rs))
  BY <1>1, MapKeeps
<1>3. DOMAIN map = Modules(rs) /\ map \in MapType(rs)
  BY <1>2 DEF MapInv, MapType
<1>4. PICK n \in Nat : n = Len(rs) /\ DOMAIN rs = 1..n
  OBVIOUS
<1>5. PICK order : /\ order \in Part!SetToSeqs(Modules(rs))
                   /\ intents = [i \in DOMAIN order |-> map[order[i]]]
  <2>1. intents \in Part!partitionByModule(rs)
    BY DEF Part!PartitionOf
  <2> QED
    BY <1>1, <1>3, <2>1, Zenon DEF Part!partitionByModule
<1>6. /\ \A i \in DOMAIN order : order[i] \in Modules(rs)
      /\ \A i, j \in DOMAIN order : i # j => order[i] # order[j]
      /\ \A m \in Modules(rs) : \E i \in DOMAIN order : order[i] = m
  BY <1>5, OrderIs, ModulesAre
<1>7. DOMAIN intents = DOMAIN order /\ \A i \in DOMAIN order : intents[i] = map[order[i]]
  BY <1>5
<1>8. \A k \in 1..n : IsPlaced(map, rs, k)
  BY <1>2, <1>4 DEF MapInv
<1>9. ASSUME NEW k \in DOMAIN rs
      PROVE  \E i \in DOMAIN intents :
               /\ Len(intents[i]) = Cardinality(PlacesIn(rs, rs[k].module, Len(rs)))
               /\ intents[i][Cardinality(PlacesIn(rs, rs[k].module, k))] = rs[k]
  <2>1. rs[k].module \in Modules(rs)
    BY <1>4, ModulesAre
  <2>2. PICK i \in DOMAIN order : order[i] = rs[k].module
    BY <1>6, <2>1
  <2>3. intents[i] = map[rs[k].module]
    BY <1>7, <2>2
  <2>4. Len(map[rs[k].module]) = Cardinality(PlacesIn(rs, rs[k].module, Len(rs)))
    BY <1>2, <2>1 DEF MapInv
  <2>5. map[rs[k].module][Cardinality(PlacesIn(rs, rs[k].module, k))] = rs[k]
    BY <1>4, <1>8 DEF IsPlaced
  <2> QED
    BY <1>7, <2>3, <2>4, <2>5
<1>10. ASSUME NEW i \in DOMAIN intents
       PROVE  /\ intents[i] # <<>> /\ intents[i][1] \in ToSet(rs)
              /\ intents[i][1].module = order[i]
              /\ \A k \in DOMAIN intents[i] : intents[i][k].module = order[i]
  <2>1. PICK m \in Modules(rs) : m = order[i]
    BY <1>6, <1>7
  <2>2. PICK q \in Seq(Resources) : q = map[m]
    BY <1>3 DEF MapType
  <2>3. intents[i] = q
    BY <1>7, <2>1, <2>2
  <2>4. PICK j \in 1..n : rs[j].module = m
    BY <1>4, ModulesAre
  <2>5. DOMAIN q # {}
    BY <1>8, <2>2, <2>4 DEF IsPlaced
  <2>6. \A k \in DOMAIN q : q[k] \in ToSet(rs) /\ q[k].module = m
    BY <1>2, <2>2 DEF MapInv
  <2>7. q # <<>> /\ 1 \in DOMAIN q
    BY <2>5
  <2> QED
    BY <2>1, <2>3, <2>6, <2>7
<1>11. ASSUME NEW i \in DOMAIN intents, NEW k \in DOMAIN intents[i], NEW j \in DOMAIN intents
       PROVE  j = i <=> intents[j][1].module = intents[i][k].module
  BY <1>6, <1>7, <1>10
<1> QED
  BY <1>9, <1>10, <1>11 DEF WholeByModule, PlacesIn

-----------------------------------------------------------------------------
(* Compaction *)

\* A message of the history that is kept: its place, and whether whole.
Kept == [at : Nat, whole : BOOLEAN]

LEMMA WholeIs ==
  ASSUME NEW i \in Nat
  PROVE  /\ Ghost!Whole(i) \in Kept /\ Ghost!Whole(i).at = i /\ Ghost!Whole(i).whole
         /\ Ghost!Cut(i) \in Kept
BY DEF Ghost!Whole, Ghost!Cut, Kept

\* Step k of the loop that gathers the places in S.
Gather(S, kept, k) == IF k \in S THEN Append(kept, Ghost!Whole(k)) ELSE kept

LEMMA GatherRuns ==
  ASSUME NEW M, NEW msgs \in Seq(M), NEW S
  PROVE  \E g : /\ g[0] = <<>>
                /\ \A k \in 1..Len(msgs) : g[k] = Gather(S, g[k - 1], k)
                /\ Ghost!Places(msgs, S) = g[Len(msgs)]
<1>1. PICK n \in Nat : n = Len(msgs) /\ DOMAIN msgs = 1..n
  OBVIOUS
<1>13. PICK wh : wh = Ghost!WholeHistory(msgs)
  OBVIOUS
<1>2. DOMAIN wh = 1..n /\ \A k \in 1..n : wh[k] = Ghost!Whole(k) /\ wh[k].at = k
  BY <1>1, <1>13, WholeIs DEF Ghost!WholeHistory
<1>3. PICK step \in [(1..n) \X Seq(Kept) -> Seq(Kept)] :
        \A k \in 1..n, p \in Seq(Kept) : step[<<k, p>>] = Gather(S, p, k)
  <2>1. PICK step : step = [q \in (1..n) \X Seq(Kept) |-> Gather(S, q[2], q[1])]
    OBVIOUS
  <2>2. \A k \in 1..n, p \in Seq(Kept) : step[<<k, p>>] = Gather(S, p, k) /\ step[<<k, p>>] \in Seq(Kept)
    BY <2>1, WholeIs DEF Gather
  <2>3. step \in [(1..n) \X Seq(Kept) -> Seq(Kept)]
    BY <2>1, <2>2
  <2> QED
    BY <2>2, <2>3
<1>4. PICK f \in [SUBSET (1..n) -> Seq(Kept)] : Folds(n, <<>>, step, f)
  <2>1. PICK b, P : b = <<>> /\ P = Seq(Kept)
    OBVIOUS
  <2>2. b \in P /\ step \in [(1..n) \X P -> P]
    BY <2>1
  <2>3. \E f \in [SUBSET (1..n) -> P] : Folds(n, b, step, f)
    BY <2>2, FoldExists
  <2> QED
    BY <2>1, <2>3
<1>14. \A T : Ghost!Max(T) = Max(T)
  BY DEF Ghost!Max, Max
<1>5. f = [r \in SUBSET (1..n) |->
            IF r = {} THEN <<>>
            ELSE IF wh[Ghost!Max(r)].at \in S THEN Append(f[r \ {Ghost!Max(r)}], wh[Ghost!Max(r)])
                 ELSE f[r \ {Ghost!Max(r)}]]
  <2> SUFFICES ASSUME NEW r \in SUBSET (1..n)
               PROVE  f[r] = IF r = {} THEN <<>>
                             ELSE IF wh[Ghost!Max(r)].at \in S
                                  THEN Append(f[r \ {Ghost!Max(r)}], wh[Ghost!Max(r)])
                             ELSE f[r \ {Ghost!Max(r)}]
    BY <1>4, Zenon
  <2>1. CASE r = {}
    BY <1>4, <2>1 DEF Folds
  <2>2. CASE r # {}
    <3>1. PICK m \in 1..n : m = Max(r)
      BY <2>2, TopIs
    <3>2. PICK a \in Seq(Kept) : a = f[r \ {m}]
      BY <1>4
    <3>3. f[r] = step[<<m, a>>]
      BY <1>4, <2>2, <3>1, <3>2 DEF Folds
    <3>4. f[r] = IF wh[m].at \in S THEN Append(a, wh[m]) ELSE a
      BY <1>2, <1>3, <3>3 DEF Gather
    <3> QED
      BY <1>14, <2>2, <3>1, <3>2, <3>4, Zenon
  <2> QED
    BY <2>1, <2>2
<1>6. PICK h : h = CHOOSE x : x = [r \in SUBSET (1..n) |->
            IF r = {} THEN <<>>
            ELSE IF wh[Ghost!Max(r)].at \in S THEN Append(x[r \ {Ghost!Max(r)}], wh[Ghost!Max(r)])
                 ELSE x[r \ {Ghost!Max(r)}]]
  OBVIOUS
<1>7. h = [r \in SUBSET (1..n) |->
            IF r = {} THEN <<>>
            ELSE IF wh[Ghost!Max(r)].at \in S THEN Append(h[r \ {Ghost!Max(r)}], wh[Ghost!Max(r)])
                 ELSE h[r \ {Ghost!Max(r)}]]
  BY <1>5, <1>6, Zenon
<1>8. Ghost!Places(msgs, S) = h[1..n]
  <2>1. Ghost!Places(msgs, S) =
          (CHOOSE x : x = [r \in SUBSET (DOMAIN wh) |->
            IF r = {} THEN <<>>
            ELSE IF wh[Ghost!Max(r)].at \in S THEN Append(x[r \ {Ghost!Max(r)}], wh[Ghost!Max(r)])
                 ELSE x[r \ {Ghost!Max(r)}]])[DOMAIN wh]
    BY <1>13, Zenon DEF Ghost!Places, Ghost!FoldLeft, Ghost!MapThenFoldSet
  <2> QED
    BY <1>2, <1>6, <2>1, Zenon
<1>9. PICK g : g = [k \in 0..n |-> h[1..k]]
  OBVIOUS
<1>10. g[0] = <<>>
  <2>1. 1..0 = {}
    OBVIOUS
  <2> QED
    BY <1>7, <1>9, <2>1
<1>11. ASSUME NEW k \in 1..n PROVE g[k] = Gather(S, g[k - 1], k)
  <2>1. Max(1..k) = k /\ (1..k) \ {k} = 1..(k - 1)
    BY TopOfPrefix
  <2>2. k \in 1..k /\ k \in 0..n /\ k - 1 \in 0..n
    OBVIOUS
  <2>3. 1..k \in SUBSET (1..n)
    OBVIOUS
  <2>5. 1..k # {}
    BY <2>2
  <2>4. h[1..k] = IF wh[k].at \in S THEN Append(h[1..(k - 1)], wh[k]) ELSE h[1..(k - 1)]
    <3>1. PICK r \in SUBSET (1..n) : r = 1..k
      BY <2>3
    <3>2. r # {} /\ Ghost!Max(r) = k /\ r \ {k} = 1..(k - 1)
      BY <1>14, <2>1, <2>5, <3>1, Zenon
    <3>3. h[r] = IF wh[k].at \in S THEN Append(h[r \ {k}], wh[k]) ELSE h[r \ {k}]
      BY <1>7, <3>2
    <3> QED
      BY <3>1, <3>2, <3>3, Zenon
  <2> QED
    BY <1>2, <1>9, <2>2, <2>4 DEF Gather
<1>12. g[n] = h[1..n]
  BY <1>9
<1> QED
  BY <1>1, <1>8, <1>10, <1>11, <1>12

\* What has been gathered of S when the first k messages have been looked at.
Gathered(S, p, k) ==
  /\ p \in Seq(Kept)
  /\ \A i \in 1..k : i \in S => \E j \in 1..Len(p) : p[j] = Ghost!Whole(i)
  /\ \A j \in 1..Len(p) : p[j] = Ghost!Whole(p[j].at) /\ p[j].at \in 1..k
  /\ \A i \in 1..k : i \in S /\ Len(p) > 0 => p[1].at <= i

LEMMA GatherStep ==
  ASSUME NEW S, NEW k \in Nat \ {0}, NEW p, Gathered(S, p, k - 1)
  PROVE  Gathered(S, Gather(S, p, k), k)
<1>1. PICK w \in Kept : w = Ghost!Whole(k) /\ w.at = k
  BY WholeIs
<1>2. p \in Seq(Kept)
  BY DEF Gathered
<1>3. CASE k \in S
  <2>1. PICK q : q = Append(p, w)
    OBVIOUS
  <2>2. Gather(S, p, k) = q
    BY <1>1, <1>3, <2>1 DEF Gather
  <2>3. PICK n \in Nat : n = Len(p)
    BY <1>2
  <2>4. q \in Seq(Kept) /\ Len(q) = n + 1 /\ q[n + 1] = w /\ \A j \in 1..n : q[j] = p[j]
    BY <1>2, <2>1, <2>3
  <2>5. ASSUME NEW i \in 1..k, i \in S PROVE \E j \in 1..Len(q) : q[j] = Ghost!Whole(i)
    <3>1. CASE i = k
      BY <1>1, <2>4, <3>1
    <3>2. CASE i # k
      <4>1. i \in 1..(k - 1)
        BY <3>2
      <4>2. PICK j \in 1..n : p[j] = Ghost!Whole(i)
        BY <2>3, <2>5, <4>1 DEF Gathered
      <4> QED
        BY <2>4, <4>2
    <3> QED
      BY <3>1, <3>2
  <2>6. ASSUME NEW j \in 1..Len(q) PROVE q[j] = Ghost!Whole(q[j].at) /\ q[j].at \in 1..k
    <3>1. CASE j = n + 1
      BY <1>1, <2>4, <3>1
    <3>2. CASE j \in 1..n
      BY <2>3, <2>4, <3>2 DEF Gathered
    <3> QED
      BY <2>4, <3>1, <3>2
  <2>7. ASSUME NEW i \in 1..k, i \in S PROVE q[1].at <= i
    <3>1. CASE n = 0
      <4>1. q[1] = w
        BY <2>4, <3>1
      <4>2. i \in 1..(k - 1) \/ i = k
        OBVIOUS
      <4>3. i \notin 1..(k - 1)
        BY <2>3, <2>7, <3>1 DEF Gathered
      <4> QED
        BY <1>1, <4>1, <4>2, <4>3
    <3>2. CASE n > 0
      <4>1. q[1] = p[1] /\ p[1].at \in 1..(k - 1)
        BY <2>3, <2>4, <3>2 DEF Gathered
      <4>2. i \in 1..(k - 1) => p[1].at <= i
        BY <2>3, <2>7, <3>2 DEF Gathered
      <4> QED
        BY <4>1, <4>2
    <3> QED
      BY <3>1, <3>2
  <2> QED
    BY <2>2, <2>4, <2>5, <2>6, <2>7 DEF Gathered
<1>4. CASE k \notin S
  <2>1. Gather(S, p, k) = p
    BY <1>4 DEF Gather
  <2>2. \A i \in 1..k : i \in S => i \in 1..(k - 1)
    BY <1>4
  <2> QED
    BY <2>1, <2>2 DEF Gathered
<1> QED
  BY <1>3, <1>4

LEMMA PlacesAre ==
  ASSUME NEW M, NEW msgs \in Seq(M), NEW S
  PROVE  Gathered(S, Ghost!Places(msgs, S), Len(msgs))
<1>1. PICK g : /\ g[0] = <<>>
               /\ \A k \in 1..Len(msgs) : g[k] = Gather(S, g[k - 1], k)
               /\ Ghost!Places(msgs, S) = g[Len(msgs)]
  BY GatherRuns
<1>2. PICK n \in Nat : n = Len(msgs)
  OBVIOUS
<1>3. PICK T \in SUBSET Nat : T = {k \in Nat : k <= n => Gathered(S, g[k], k)}
  OBVIOUS
<1>4. 0 \in T
  <2>1. Gathered(S, <<>>, 0)
    BY DEF Gathered
  <2> QED
    BY <1>1, <1>3, <2>1
<1>5. ASSUME NEW k \in T PROVE k + 1 \in T
  <2> SUFFICES ASSUME k + 1 <= n PROVE Gathered(S, g[k + 1], k + 1)
    BY <1>3
  <2>1. PICK m \in Nat \ {0} : m = k + 1
    OBVIOUS
  <2>2. m - 1 = k /\ m \in 1..Len(msgs)
    BY <1>2, <2>1
  <2>3. Gathered(S, g[k], k)
    BY <1>3
  <2>4. Gathered(S, Gather(S, g[k], m), m)
    BY <2>2, <2>3, GatherStep
  <2>5. g[m] = Gather(S, g[k], m)
    BY <1>1, <2>2
  <2> QED
    BY <2>1, <2>4, <2>5
<1>6. T = Nat
  BY <1>4, <1>5, Induction
<1>7. n \in T
  BY <1>6
<1> QED
  BY <1>1, <1>2, <1>3, <1>7

\* What the second pass of TruncateMessages has: the messages kept so far.
PassType == [kept : Seq(Kept), stopped : BOOLEAN]

\* What is kept goes on from what was kept at first.
Continues(p, q) == Len(p) <= Len(q) /\ \A j \in 1..Len(p) : q[j] = p[j]

LEMMA PassStep ==
  ASSUME NEW msgs, NEW t \in PassType, NEW i \in Nat
  PROVE  LET u == Ghost!AddUnprotected(msgs, t, i) IN u \in PassType /\ Continues(t.kept, u.kept)
<1>1. PICK p \in Seq(Kept) : p = t.kept
  BY DEF PassType
<1>2. Continues(p, p)
  BY DEF Continues
<1>3. ASSUME NEW w \in Kept PROVE Append(p, w) \in Seq(Kept) /\ Continues(p, Append(p, w))
  <2>1. PICK q : q = Append(p, w)
    OBVIOUS
  <2>2. q \in Seq(Kept) /\ Len(q) = Len(p) + 1 /\ \A j \in 1..Len(p) : q[j] = p[j]
    BY <2>1
  <2> QED
    BY <2>1, <2>2 DEF Continues
<1>4. PICK whole \in Seq(Kept) : whole = Append(p, Ghost!Whole(i)) /\ Continues(p, whole)
  BY <1>3, WholeIs
<1>5. PICK cut \in Seq(Kept) : cut = Append(p, Ghost!Cut(i)) /\ Continues(p, cut)
  BY <1>3, WholeIs
<1>6. PICK big \in BOOLEAN : big = (Ghost!EstimateMessages(msgs, cut) > HistoryThreshold)
  <2>1. PICK e : e = Ghost!EstimateMessages(msgs, cut)
    OBVIOUS
  <2>2. (e > HistoryThreshold) \in BOOLEAN
    OBVIOUS
  <2> QED
    BY <2>1, <2>2, Zenon
<1>7. PICK u : u = Ghost!AddUnprotected(msgs, t, i)
  OBVIOUS
<1>8. \/ u = t
      \/ u = [t EXCEPT !.kept = whole]
      \/ u = [kept |-> cut, stopped |-> big]
  BY <1>1, <1>4, <1>5, <1>6, <1>7, Zenon DEF Ghost!AddUnprotected
<1>9. CASE u = t
  BY <1>1, <1>2, <1>7, <1>9
<1>10. CASE u = [t EXCEPT !.kept = whole]
  <2>1. u \in PassType /\ u.kept = whole
    BY <1>10 DEF PassType
  <2> QED
    BY <1>1, <1>4, <1>7, <2>1
<1>11. CASE u = [kept |-> cut, stopped |-> big]
  <2>1. u \in PassType /\ u.kept = cut
    BY <1>11 DEF PassType
  <2> QED
    BY <1>1, <1>5, <1>7, <2>1
<1> QED
  BY <1>8, <1>9, <1>10, <1>11

\* The places a fold of the second pass goes through.
PassOver(msgs, others, start) ==
  Ghost!FoldLeft(LAMBDA t, k : Ghost!AddUnprotected(msgs, t, k.at), start, others)

LEMMA PassRuns ==
  ASSUME NEW msgs, NEW others \in Seq(Kept), NEW start \in PassType
  PROVE  \E g : /\ g[0] = start
                /\ \A k \in 1..Len(others) : g[k] = Ghost!AddUnprotected(msgs, g[k - 1], others[k].at)
                /\ PassOver(msgs, others, start) = g[Len(others)]
<1>13. PICK n \in Nat : n = Len(others)
  OBVIOUS
<1>1. n = Len(others) /\ DOMAIN others = 1..n /\ \A k \in 1..n : others[k].at \in Nat
  <2>1. \A k \in 1..n : others[k] \in Kept
    BY <1>13
  <2>2. \A o \in Kept : o.at \in Nat
    BY DEF Kept
  <2> QED
    BY <1>13, <2>1, <2>2
<1>2. PICK step \in [(1..n) \X PassType -> PassType] :
        \A k \in 1..n, p \in PassType : step[<<k, p>>] = Ghost!AddUnprotected(msgs, p, others[k].at)
  <2>1. PICK step : step = [q \in (1..n) \X PassType |-> Ghost!AddUnprotected(msgs, q[2], others[q[1]].at)]
    OBVIOUS
  <2>2. \A k \in 1..n, p \in PassType :
          /\ step[<<k, p>>] = Ghost!AddUnprotected(msgs, p, others[k].at)
          /\ step[<<k, p>>] \in PassType
    BY <1>1, <2>1, PassStep
  <2>3. step \in [(1..n) \X PassType -> PassType]
    BY <2>1, <2>2
  <2> QED
    BY <2>2, <2>3
<1>3. PICK f \in [SUBSET (1..n) -> PassType] : Folds(n, start, step, f)
  BY FoldExists
<1>4. \A T : Ghost!Max(T) = Max(T)
  BY DEF Ghost!Max, Max
<1>5. f = [r \in SUBSET (1..n) |->
            IF r = {} THEN start
            ELSE Ghost!AddUnprotected(msgs, f[r \ {Ghost!Max(r)}], others[Ghost!Max(r)].at)]
  <2> SUFFICES ASSUME NEW r \in SUBSET (1..n)
               PROVE  f[r] = IF r = {} THEN start
                             ELSE Ghost!AddUnprotected(msgs, f[r \ {Ghost!Max(r)}], others[Ghost!Max(r)].at)
    BY <1>3, Zenon
  <2>1. CASE r = {}
    BY <1>3, <2>1 DEF Folds
  <2>2. CASE r # {}
    <3>1. PICK m \in 1..n : m = Max(r)
      BY <2>2, TopIs
    <3>2. PICK a \in PassType : a = f[r \ {m}]
      BY <1>3
    <3>3. f[r] = step[<<m, a>>]
      BY <1>3, <2>2, <3>1, <3>2 DEF Folds
    <3>4. f[r] = Ghost!AddUnprotected(msgs, a, others[m].at)
      BY <1>2, <3>3
    <3> QED
      BY <1>4, <2>2, <3>1, <3>2, <3>4, Zenon
  <2> QED
    BY <2>1, <2>2
<1>6. PICK h : h = CHOOSE x : x = [r \in SUBSET (1..n) |->
            IF r = {} THEN start
            ELSE Ghost!AddUnprotected(msgs, x[r \ {Ghost!Max(r)}], others[Ghost!Max(r)].at)]
  OBVIOUS
<1>7. h = [r \in SUBSET (1..n) |->
            IF r = {} THEN start
            ELSE Ghost!AddUnprotected(msgs, h[r \ {Ghost!Max(r)}], others[Ghost!Max(r)].at)]
  BY <1>5, <1>6, Zenon
<1>8. PassOver(msgs, others, start) = h[1..n]
  BY <1>1, <1>6, Zenon DEF PassOver, Ghost!FoldLeft, Ghost!MapThenFoldSet
<1>9. PICK g : g = [k \in 0..n |-> h[1..k]]
  OBVIOUS
<1>10. g[0] = start
  <2>1. 1..0 = {}
    OBVIOUS
  <2> QED
    BY <1>7, <1>9, <2>1
<1>11. ASSUME NEW k \in 1..n PROVE g[k] = Ghost!AddUnprotected(msgs, g[k - 1], others[k].at)
  <2>1. Max(1..k) = k /\ (1..k) \ {k} = 1..(k - 1)
    BY TopOfPrefix
  <2>2. k \in 1..k /\ k \in 0..n /\ k - 1 \in 0..n
    OBVIOUS
  <2>3. PICK r \in SUBSET (1..n) : r = 1..k
    <3>1. 1..k \in SUBSET (1..n)
      OBVIOUS
    <3> QED
      BY <3>1
  <2>4. r # {} /\ Ghost!Max(r) = k /\ r \ {k} = 1..(k - 1)
    BY <1>4, <2>1, <2>2, <2>3, Zenon
  <2>5. h[r] = Ghost!AddUnprotected(msgs, h[r \ {k}], others[k].at)
    BY <1>7, <2>4
  <2> QED
    BY <1>9, <2>2, <2>3, <2>4, <2>5
<1>12. g[n] = h[1..n]
  BY <1>9
<1> QED
  BY <1>1, <1>8, <1>10, <1>11, <1>12

\* The second pass keeps what the first pass kept, where it was.
LEMMA PassKeeps ==
  ASSUME NEW msgs, NEW others \in Seq(Kept), NEW start \in PassType
  PROVE  LET u == PassOver(msgs, others, start) IN u \in PassType /\ Continues(start.kept, u.kept)
<1>1. PICK g : /\ g[0] = start
               /\ \A k \in 1..Len(others) : g[k] = Ghost!AddUnprotected(msgs, g[k - 1], others[k].at)
               /\ PassOver(msgs, others, start) = g[Len(others)]
  BY PassRuns
<1>7. PICK n \in Nat : n = Len(others)
  OBVIOUS
<1>2. n = Len(others) /\ \A k \in 1..n : others[k].at \in Nat
  <2>1. \A k \in 1..n : others[k] \in Kept
    BY <1>7
  <2>2. \A o \in Kept : o.at \in Nat
    BY DEF Kept
  <2> QED
    BY <1>7, <2>1, <2>2
<1>3. PICK T \in SUBSET Nat : T = {k \in Nat : k <= n => g[k] \in PassType /\ Continues(start.kept, g[k].kept)}
  OBVIOUS
<1>4. 0 \in T
  <2>1. Continues(start.kept, start.kept)
    BY DEF Continues, PassType
  <2> QED
    BY <1>1, <1>3, <2>1
<1>5. ASSUME NEW k \in T PROVE k + 1 \in T
  <2> SUFFICES ASSUME k + 1 <= n PROVE g[k + 1] \in PassType /\ Continues(start.kept, g[k + 1].kept)
    BY <1>3
  <2>1. PICK m \in Nat : m = k + 1
    OBVIOUS
  <2>2. m - 1 = k /\ m \in 1..Len(others) /\ m \in 1..n
    BY <1>2, <2>1
  <2>3. PICK t \in PassType : t = g[k] /\ Continues(start.kept, t.kept)
    BY <1>3
  <2>4. PICK u : u = Ghost!AddUnprotected(msgs, t, others[m].at) /\ u = g[m]
    BY <1>1, <2>2, <2>3
  <2>5. u \in PassType /\ Continues(t.kept, u.kept)
    BY <1>2, <2>2, <2>4, PassStep
  <2>6. Continues(start.kept, u.kept)
    BY <2>3, <2>5 DEF Continues, PassType
  <2> QED
    BY <2>1, <2>4, <2>5, <2>6
<1>6. n \in T
  BY <1>4, <1>5, Induction
<1> QED
  BY <1>1, <1>2, <1>3, <1>6

Recent(msgs) == {i \in DOMAIN msgs : i >= Len(msgs) - 1 \/ Ghost!IsTask(msgs[i])}

\* A history that was truncated keeps the recent messages whole, and starts
\* at one of them, before which there is none.
LEMMA TruncatedKeeps ==
  ASSUME NEW M, NEW msgs \in Seq(M), msgs # <<>>, Ghost!Compact(msgs).wasCompacted,
         Ghost!TruncateMessages(msgs).truncated
  PROVE  /\ Recent(msgs) \subseteq Ghost!Sent(msgs)
         /\ \A i \in Recent(msgs) : Ghost!Whole(i) \in ToSet(Ghost!Compact(msgs).messages)
<1>1. PICK n \in Nat : n = Len(msgs) /\ n > 0 /\ DOMAIN msgs = 1..n
  OBVIOUS
<1>2. PICK R : R = Recent(msgs) /\ R = Ghost!Protected(msgs)
  BY DEF Recent, Ghost!Protected
<1>3. n \in R /\ R \subseteq 1..n
  BY <1>1, <1>2 DEF Recent
<1>4. PICK p : p = Ghost!Places(msgs, R) /\ Gathered(R, p, n)
  BY <1>1, PlacesAre
<1>5. PICK others \in Seq(Kept) : others = Ghost!Places(msgs, DOMAIN msgs \ R)
  BY PlacesAre DEF Gathered
<1>6. PICK start \in PassType : start = [kept |-> p, stopped |-> FALSE]
  BY <1>4 DEF PassType, Gathered
<1>7. PICK u \in PassType : u = PassOver(msgs, others, start) /\ Continues(p, u.kept)
  BY <1>6, PassKeeps
<1>8. PICK q \in Seq(Kept) : q = u.kept /\ Continues(p, q)
  BY <1>7 DEF PassType
<1>9. /\ Ghost!TruncateMessages(msgs).kept = q
      /\ ~(Ghost!EstimateMessages(msgs, Ghost!WholeHistory(msgs)) <= HistoryThreshold)
  <2>1. PICK short : short = (Len(msgs) <= 3 \/ Ghost!EstimateMessages(msgs, Ghost!WholeHistory(msgs)) <= HistoryThreshold)
    OBVIOUS
  <2>2. PICK better : better = (Ghost!EstimateMessages(msgs, q) < Ghost!EstimateMessages(msgs, Ghost!WholeHistory(msgs)))
    OBVIOUS
  <2>3. Ghost!TruncateMessages(msgs) =
          IF short THEN [kept |-> Ghost!WholeHistory(msgs), truncated |-> FALSE]
          ELSE [kept |-> q, truncated |-> better]
    BY <1>2, <1>4, <1>5, <1>6, <1>7, <1>8, <2>1, <2>2, Zenon DEF Ghost!TruncateMessages, PassOver
  <2>4. CASE short
    <3>1. ~Ghost!TruncateMessages(msgs).truncated
      BY <2>3, <2>4
    <3> QED
      BY <3>1
  <2>5. CASE ~short
    <3>1. Ghost!TruncateMessages(msgs).kept = q
      BY <2>3, <2>5
    <3> QED
      BY <2>1, <2>5, <3>1
  <2> QED
    BY <2>4, <2>5
<1>10. Ghost!Compact(msgs).messages = q
  BY <1>9 DEF Ghost!Compact
<1>11. Len(p) > 0 /\ Len(q) > 0 /\ q[1] = p[1] /\ p[1] = Ghost!Whole(p[1].at) /\ p[1].at \in 1..n
  BY <1>3, <1>4, <1>8 DEF Gathered, Continues
<1>12. \A i \in R : p[1].at <= i
  BY <1>3, <1>4, <1>11 DEF Gathered
<1>13. ASSUME NEW i \in R PROVE Ghost!Whole(i) \in ToSet(q)
  <2>1. PICK j \in 1..Len(p) : p[j] = Ghost!Whole(i)
    BY <1>3, <1>4 DEF Gathered
  <2>2. j \in DOMAIN q /\ q[j] = Ghost!Whole(i)
    BY <1>4, <1>8, <2>1 DEF Continues, Gathered
  <2> QED
    BY <2>2 DEF ToSet
<1>14. Ghost!GhostCompact(msgs) = p[1].at
  <2>1. PICK wholes : wholes = {j \in DOMAIN q : q[j].whole}
    OBVIOUS
  <2>2. 1 \in wholes /\ \A j \in wholes : 1 <= j
    BY <1>8, <1>11, <2>1, WholeIs
  <2>3. Ghost!Min(wholes) = 1
    <3>1. \E x \in wholes : \A y \in wholes : x <= y
      BY <2>2
    <3>2. PICK m : m = Ghost!Min(wholes) /\ m \in wholes /\ \A y \in wholes : m <= y
      BY <3>1, Zenon DEF Ghost!Min
    <3>3. m <= 1 /\ 1 <= m /\ m \in Nat
      BY <2>1, <2>2, <3>2
    <3> QED
      BY <3>2, <3>3
  <2>4. Ghost!GhostCompact(msgs) = q[Ghost!Min(wholes)].at
    BY <1>10, <2>1, <2>2, Zenon DEF Ghost!GhostCompact
  <2> QED
    BY <1>11, <2>3, <2>4
<1>15. Ghost!Sent(msgs) = (p[1].at)..n
  BY <1>1, <1>14 DEF Ghost!Sent
<1> QED
  BY <1>2, <1>3, <1>10, <1>11, <1>12, <1>13, <1>15

\* The runs of GhostCompact: the messages that must reach the next turn do.
LEMMA RecentAreSent ==
  ASSUME NEW M, history \in Seq(M)
  PROVE  RecentIsSent
<1> SUFFICES ASSUME Complete, Ghost!Compact(history).wasCompacted PROVE RecentIsSent
  BY DEF RecentIsSent
<1>1. CASE Ghost!TruncateMessages(history).truncated
  <2>1. history # <<>>
    BY DEF Complete
  <2>2. /\ Recent(history) \subseteq Ghost!Sent(history)
        /\ \A i \in Recent(history) : Ghost!Whole(i) \in ToSet(Ghost!Compact(history).messages)
    BY <1>1, <2>1, TruncatedKeeps
  <2> QED
    BY <1>1, <2>2, Zenon DEF RecentIsSent, Recent
<1>2. CASE ~Ghost!TruncateMessages(history).truncated
  <2>1. PICK before, pruned : /\ before = (Ghost!EstimateMessages(history, Ghost!WholeHistory(history)) <= HistoryThreshold)
                              /\ pruned = Ghost!HardPrune(history)
    OBVIOUS
  <2>2. PICK over, less : /\ over = (Ghost!EstimateMessages(history, pruned) > HistoryThreshold)
                          /\ less = (Ghost!EstimateMessages(history, pruned)
                                       < Ghost!EstimateMessages(history, Ghost!WholeHistory(history)))
    OBVIOUS
  <2>3. Ghost!Compact(history) =
          IF before
          THEN [messages |-> Ghost!WholeHistory(history), wasCompacted |-> FALSE, asyncRecommended |-> FALSE]
          ELSE [messages |-> pruned, wasCompacted |-> over \/ less, asyncRecommended |-> over]
    BY <1>2, <2>1, <2>2, Zenon DEF Ghost!Compact
  <2>4. ~before
    <3> SUFFICES ASSUME before PROVE FALSE
      OBVIOUS
    <3>1. ~Ghost!Compact(history).wasCompacted
      BY <2>3
    <3> QED
      BY <3>1
  <2>5. Ghost!Compact(history).messages = pruned /\ Ghost!Compact(history).asyncRecommended = over
    BY <2>3, <2>4
  <2>6. Ghost!Compact(history).asyncRecommended
          <=> Ghost!EstimateMessages(history, Ghost!Compact(history).messages) > HistoryThreshold
    BY <2>2, <2>5, Zenon
  <2> QED
    BY <1>2, <2>6, Zenon DEF RecentIsSent
<1> QED
  BY <1>1, <1>2

-----------------------------------------------------------------------------
(* Sequences of texts put together                                           *)

\* Induction over sequences, for a set in place of a predicate.
LEMMA SeqInduction ==
  ASSUME NEW S, NEW T \in SUBSET Seq(S), <<>> \in T, \A s \in T, x \in S : Append(s, x) \in T
  PROVE  \A s \in Seq(S) : s \in T
<1>1. PICK N \in SUBSET Nat : N = {n \in Nat : \A s \in Seq(S) : Len(s) = n => s \in T}
  OBVIOUS
<1>2. 0 \in N
  <2>1. \A s \in Seq(S) : Len(s) = 0 => s = <<>>
    BY EmptySeq
  <2> QED
    BY <1>1, <2>1
<1>3. ASSUME NEW n \in N PROVE n + 1 \in N
  <2> SUFFICES ASSUME NEW s \in Seq(S), Len(s) = n + 1 PROVE s \in T
    BY <1>1
  <2>1. s # <<>>
    BY EmptySeq
  <2>2. PICK r \in Seq(S), x \in S : s = Append(r, x)
    BY <2>1, SequenceEmptyOrAppend
  <2>3. Len(r) = n
    <3>1. Len(Append(r, x)) = Len(r) + 1 /\ Len(r) \in Nat
      BY AppendProperties
    <3> QED
      BY <2>2, <3>1
  <2>4. r \in T
    BY <1>1, <2>3
  <2> QED
    BY <2>2, <2>4
<1>4. N = Nat
  BY <1>2, <1>3, Induction
<1> SUFFICES ASSUME NEW s \in Seq(S) PROVE s \in T
  OBVIOUS
<1>5. Len(s) \in Nat
  OBVIOUS
<1> QED
  BY <1>1, <1>4, <1>5

PutTogether(ss) == Edit!FlattenSeq(ss)

LEMMA JoinedIs ==
  ASSUME NEW U
  PROVE  /\ PutTogether(<<>>) = <<>>
         /\ \A ss \in Seq(Seq(U)) : PutTogether(ss) \in Seq(U)
         /\ \A ss \in Seq(Seq(U)), q \in Seq(U) : PutTogether(Append(ss, q)) = PutTogether(ss) \o q
<1>1. \A ss : PutTogether(ss) = FlattenSeq(ss)
  BY DEF PutTogether, Edit!FlattenSeq, FlattenSeq
<1>2. /\ FlattenSeq(<<>>) = <<>>
      /\ \A ss \in Seq(Seq(U)) : FlattenSeq(ss) \in Seq(U)
      /\ \A ss \in Seq(Seq(U)), q \in Seq(U) : FlattenSeq(Append(ss, q)) = FlattenSeq(ss) \o q
  BY Flattened
<1> QED
  BY <1>1, <1>2, Zenon

LEMMA ConcatAppend ==
  ASSUME NEW S, NEW s \in Seq(S), NEW t \in Seq(S), NEW x \in S
  PROVE  s \o Append(t, x) = Append(s \o t, x)
<1>1. PICK o : o = <<x>>
  OBVIOUS
<1>2. o \in Seq(S)
  BY <1>1
<1>3. Append(t, x) = t \o o
  BY <1>1, AppendIsConcat
<1>4. PICK st \in Seq(S) : st = s \o t
  BY ConcatProperties
<1>5. Append(st, x) = st \o o
  BY <1>1, AppendIsConcat
<1>6. (s \o t) \o o = s \o (t \o o)
  BY <1>2, ConcatAssociative
<1> QED
  BY <1>3, <1>4, <1>5, <1>6, Zenon

LEMMA JoinedParts ==
  ASSUME NEW U, NEW P \in Seq(Seq(U)), NEW Q \in Seq(Seq(U))
  PROVE  PutTogether(P \o Q) = PutTogether(P) \o PutTogether(Q)
<1>1. PICK V : V = Seq(U)
  OBVIOUS
<1>2. PICK T \in SUBSET Seq(V) : T = {q \in Seq(V) : PutTogether(P \o q) = PutTogether(P) \o PutTogether(q)}
  OBVIOUS
<1>3. P \in Seq(V) /\ Q \in Seq(V)
  BY <1>1
<1>4. <<>> \in T
  <2>1. PutTogether(P) \o <<>> = PutTogether(P)
    <3>1. PutTogether(P) \in Seq(U)
      BY JoinedIs
    <3> QED
      BY <3>1, ConcatEmptySeq
  <2>2. P \o <<>> = P
    BY <1>3, ConcatEmptySeq
  <2>3. PutTogether(<<>>) = <<>>
    BY JoinedIs
  <2>4. <<>> \in Seq(V)
    OBVIOUS
  <2> QED
    BY <1>2, <2>1, <2>2, <2>3, <2>4, Zenon
<1>5. ASSUME NEW s \in T, NEW x \in V PROVE Append(s, x) \in T
  <2>1. s \in Seq(V) /\ PutTogether(P \o s) = PutTogether(P) \o PutTogether(s)
    BY <1>2
  <2>2. P \o s \in Seq(V)
    BY <1>3, <2>1, ConcatProperties
  <2>3. P \o Append(s, x) = Append(P \o s, x)
    BY <1>3, <2>1, ConcatAppend
  <2>4. PutTogether(Append(P \o s, x)) = PutTogether(P \o s) \o x
    BY <1>1, <2>2, JoinedIs, Zenon
  <2>5. PutTogether(Append(s, x)) = PutTogether(s) \o x
    BY <1>1, <2>1, JoinedIs, Zenon
  <2>6. PutTogether(P) \in Seq(U) /\ PutTogether(s) \in Seq(U) /\ x \in Seq(U)
    BY <1>1, <2>1, JoinedIs, Zenon
  <2>7. (PutTogether(P) \o PutTogether(s)) \o x = PutTogether(P) \o (PutTogether(s) \o x)
    BY <2>6, ConcatAssociative
  <2>8. Append(s, x) \in Seq(V)
    BY <2>1, AppendProperties
  <2> QED
    BY <1>2, <2>1, <2>3, <2>4, <2>5, <2>7, <2>8, Zenon
<1>6. Q \in T
  BY <1>3, <1>4, <1>5, SeqInduction
<1> QED
  BY <1>2, <1>6

\* All texts of c are empty, but for the k-th.
BlankBut(c, k) == \A n \in 1..Len(c) : n # k => c[n] = <<>>

\* The texts of c are the elements of w.
Singles(c, w) == Len(c) = Len(w) /\ \A n \in 1..Len(w) : c[n] = <<w[n]>>

LEMMA JoinedBlank ==
  ASSUME NEW U, NEW c \in Seq(Seq(U)), BlankBut(c, 0)
  PROVE  PutTogether(c) = <<>>
<1>1. PICK V : V = Seq(U)
  OBVIOUS
<1>2. PICK T \in SUBSET Seq(V) : T = {q \in Seq(V) : BlankBut(q, 0) => PutTogether(q) = <<>>}
  OBVIOUS
<1>3. <<>> \in T
  <2>1. <<>> \in Seq(V)
    OBVIOUS
  <2>2. PutTogether(<<>>) = <<>>
    BY JoinedIs
  <2> QED
    BY <1>2, <2>1, <2>2, Zenon
<1>4. ASSUME NEW s \in T, NEW x \in V PROVE Append(s, x) \in T
  <2>1. s \in Seq(V)
    BY <1>2
  <2>2. Append(s, x) \in Seq(V) /\ Len(Append(s, x)) = Len(s) + 1 /\ Len(s) \in Nat
    BY <2>1, AppendProperties
  <2> SUFFICES ASSUME BlankBut(Append(s, x), 0) PROVE PutTogether(Append(s, x)) = <<>>
    BY <1>2, <2>2
  <2>3. /\ \A n \in 1..Len(s) : Append(s, x)[n] = s[n]
        /\ Append(s, x)[Len(s) + 1] = x
    BY <2>1, AppendProperties
  <2>4. x = <<>> /\ BlankBut(s, 0)
    <3>1. ASSUME NEW n \in 1..(Len(s) + 1) PROVE Append(s, x)[n] = <<>>
      <4>1. n # 0
        OBVIOUS
      <4> QED
        BY <2>2, <4>1, Zenon DEF BlankBut
    <3>2. Len(s) + 1 \in 1..(Len(s) + 1) /\ \A n \in 1..Len(s) : n \in 1..(Len(s) + 1)
      BY <2>2
    <3> QED
      BY <2>3, <3>1, <3>2, Zenon DEF BlankBut
  <2>5. PutTogether(s) = <<>>
    BY <1>2, <2>4
  <2>6. PutTogether(Append(s, x)) = PutTogether(s) \o x
    BY <1>1, <2>1, JoinedIs, Zenon
  <2>7. <<>> \o <<>> = <<>>
    OBVIOUS
  <2> QED
    BY <2>4, <2>5, <2>6, <2>7, Zenon
<1>5. c \in T
  <2>1. c \in Seq(V)
    BY <1>1
  <2> QED
    BY <1>3, <1>4, <2>1, SeqInduction
<1> QED
  BY <1>2, <1>5

LEMMA JoinedOnly ==
  ASSUME NEW U, NEW c \in Seq(Seq(U)), NEW k \in 1..Len(c), BlankBut(c, k)
  PROVE  PutTogether(c) = c[k]
<1>1. PICK V : V = Seq(U)
  OBVIOUS
<1>2. PICK T \in SUBSET Seq(V) :
        T = {q \in Seq(V) : k \in 1..Len(q) /\ BlankBut(q, k) => PutTogether(q) = q[k]}
  OBVIOUS
<1>3. <<>> \in T
  <2>1. <<>> \in Seq(V) /\ Len(<<>>) = 0 /\ 1..0 = {}
    OBVIOUS
  <2>2. k \notin 1..Len(<<>>)
    BY <2>1
  <2> QED
    BY <1>2, <2>1, <2>2, Zenon
<1>4. ASSUME NEW s \in T, NEW x \in V PROVE Append(s, x) \in T
  <2>1. s \in Seq(V)
    BY <1>2
  <2>2. Append(s, x) \in Seq(V) /\ Len(Append(s, x)) = Len(s) + 1 /\ Len(s) \in Nat
    BY <2>1, AppendProperties
  <2> SUFFICES ASSUME k \in 1..Len(Append(s, x)), BlankBut(Append(s, x), k)
               PROVE  PutTogether(Append(s, x)) = Append(s, x)[k]
    BY <1>2, <2>2
  <2>3. /\ \A n \in 1..Len(s) : Append(s, x)[n] = s[n]
        /\ Append(s, x)[Len(s) + 1] = x
    BY <2>1, AppendProperties
  <2>4. PutTogether(Append(s, x)) = PutTogether(s) \o x
    BY <1>1, <2>1, JoinedIs, Zenon
  <2>5. CASE k = Len(s) + 1
    <3>1. BlankBut(s, 0)
      <4> SUFFICES ASSUME NEW n \in 1..Len(s) PROVE s[n] = <<>>
        BY DEF BlankBut
      <4>1. n # k /\ n \in 1..(Len(s) + 1)
        BY <2>2, <2>5
      <4> QED
        BY <2>2, <2>3, <4>1, Zenon DEF BlankBut
    <3>2. s \in Seq(Seq(U)) /\ x \in Seq(U)
      BY <1>1, <2>1
    <3>3. PutTogether(s) = <<>>
      BY <3>1, <3>2, JoinedBlank
    <3>4. <<>> \o x = x
      BY <3>2, ConcatEmptySeq
    <3> QED
      BY <2>3, <2>4, <2>5, <3>3, <3>4, Zenon
  <2>6. CASE k # Len(s) + 1
    <3>1. k \in 1..Len(s) /\ x = <<>> /\ BlankBut(s, k) /\ Append(s, x)[k] = s[k]
      BY <2>2, <2>3, <2>6 DEF BlankBut
    <3>2. PutTogether(s) = s[k]
      BY <1>2, <3>1
    <3>3. s[k] \in Seq(U)
      BY <1>1, <2>1, <3>1, ElementOfSeq
    <3>4. s[k] \o <<>> = s[k]
      BY <3>3, ConcatEmptySeq
    <3> QED
      BY <2>4, <3>1, <3>2, <3>4, Zenon
  <2> QED
    BY <2>5, <2>6
<1>5. c \in T
  <2>1. c \in Seq(V)
    BY <1>1
  <2> QED
    BY <1>3, <1>4, <2>1, SeqInduction
<1> QED
  BY <1>2, <1>5

LEMMA JoinedSingles ==
  ASSUME NEW U, NEW c \in Seq(Seq(U)), NEW w \in Seq(U), Singles(c, w)
  PROVE  PutTogether(c) = w
<1>1. PICK T \in SUBSET Seq(U) :
        T = {v \in Seq(U) : \A d \in Seq(Seq(U)) : Singles(d, v) => PutTogether(d) = v}
  OBVIOUS
<1>2. <<>> \in T
  <2> SUFFICES ASSUME NEW d \in Seq(Seq(U)), Singles(d, <<>>) PROVE PutTogether(d) = <<>>
    BY <1>1
  <2>1. Len(d) = 0
    BY DEF Singles
  <2>2. d = <<>>
    BY <2>1
  <2> QED
    BY <2>2, JoinedIs
<1>3. ASSUME NEW v \in T, NEW x \in U PROVE Append(v, x) \in T
  <2>1. v \in Seq(U) /\ \A d \in Seq(Seq(U)) : Singles(d, v) => PutTogether(d) = v
    BY <1>1
  <2>2. /\ Append(v, x) \in Seq(U) /\ Len(Append(v, x)) = Len(v) + 1 /\ Len(v) \in Nat
        /\ \A n \in 1..Len(v) : Append(v, x)[n] = v[n]
        /\ Append(v, x)[Len(v) + 1] = x
    BY <2>1, AppendProperties
  <2> SUFFICES ASSUME NEW d \in Seq(Seq(U)), Singles(d, Append(v, x)) PROVE PutTogether(d) = Append(v, x)
    BY <1>1, <2>2
  <2>3. PICK V : V = Seq(U)
    OBVIOUS
  <2>4. d \in Seq(V)
    BY <2>3
  <2>5. Len(d) = Len(v) + 1
    BY <2>2 DEF Singles
  <2>6. PICK e \in Seq(V), y \in V : d = Append(e, y)
    <3>1. d # <<>>
      BY <2>2, <2>5, EmptySeq
    <3> QED
      BY <2>4, <3>1, SequenceEmptyOrAppend
  <2>7. /\ Len(Append(e, y)) = Len(e) + 1 /\ Len(e) \in Nat
        /\ \A n \in 1..Len(e) : Append(e, y)[n] = e[n]
        /\ Append(e, y)[Len(e) + 1] = y
    BY AppendProperties
  <2>8. Len(e) = Len(v)
    BY <2>2, <2>5, <2>6, <2>7
  <2>9. Singles(e, v)
    <3> SUFFICES ASSUME NEW n \in 1..Len(v) PROVE e[n] = <<v[n]>>
      BY <2>8 DEF Singles
    <3>1. n \in 1..(Len(v) + 1) /\ n \in 1..Len(e)
      BY <2>2, <2>8
    <3>2. d[n] = <<Append(v, x)[n]>>
      BY <2>2, <3>1 DEF Singles
    <3> QED
      BY <2>2, <2>6, <2>7, <3>1, <3>2, Zenon
  <2>10. y = <<x>>
    <3>1. Len(v) + 1 \in 1..Len(Append(v, x))
      BY <2>2
    <3>2. d[Len(v) + 1] = <<Append(v, x)[Len(v) + 1]>>
      BY <3>1, Zenon DEF Singles
    <3> QED
      BY <2>2, <2>6, <2>7, <2>8, <3>2, Zenon
  <2>11. PutTogether(e) = v
    BY <2>1, <2>3, <2>9
  <2>12. PutTogether(d) = PutTogether(e) \o y
    BY <2>3, <2>6, JoinedIs, Zenon
  <2>13. Append(v, x) = v \o <<x>>
    BY <2>1, AppendIsConcat
  <2> QED
    BY <2>10, <2>11, <2>12, <2>13, Zenon
<1>4. w \in T
  BY <1>2, <1>3, SeqInduction
<1> QED
  BY <1>1, <1>4

-----------------------------------------------------------------------------
(* The text of a sequence of lines                                           *)

LEMMA Single ==
  ASSUME NEW U, NEW x \in U
  PROVE  <<x>> \in Seq(U)
OBVIOUS

\* Putting together s, t and u, in whichever order.
Associates(s, t, u) == (s \o t) \o u = s \o (t \o u)

LEMMA Association ==
  ASSUME NEW U, NEW s \in Seq(U), NEW t \in Seq(U), NEW u \in Seq(U)
  PROVE  Associates(s, t, u)
BY ConcatAssociative DEF Associates

\* A line with the ending of the one before it, but for the first.
Broken(ss, e) == [i \in DOMAIN ss |-> IF i = 1 THEN ss[i] ELSE e \o ss[i]]

LEMMA BrokenIs ==
  ASSUME NEW U, NEW e \in Seq(U), NEW ss \in Seq(Seq(U))
  PROVE  Broken(ss, e) \in Seq(Seq(U)) /\ Len(Broken(ss, e)) = Len(ss)
<1>1. PICK V, b, o : V = Seq(U) /\ b = Broken(ss, e) /\ o = e
  OBVIOUS
<1>2. o \in V
  BY <1>1
<1>3. PICK n \in Nat : n = Len(ss) /\ DOMAIN ss = 1..n
  OBVIOUS
<1>4. ss \in Seq(V)
  BY <1>1
<1>5. ASSUME NEW i \in 1..n PROVE b[i] \in V
  <2>1. ss[i] \in V
    BY <1>3, <1>4, ElementOfSeq
  <2>2. o \o ss[i] \in V
    BY <1>1, <1>2, <2>1, ConcatProperties
  <2>3. b[i] = IF i = 1 THEN ss[i] ELSE o \o ss[i]
    BY <1>1, <1>3, Zenon DEF Broken
  <2> QED
    BY <2>1, <2>2, <2>3
<1>6. b = [i \in 1..n |-> b[i]]
  BY <1>1, <1>3, Zenon DEF Broken
<1>7. b \in Seq(V) /\ Len(b) = n
  BY <1>3, <1>5, <1>6
<1> QED
  BY <1>1, <1>3, <1>7

LEMMA BrokenAppend ==
  ASSUME NEW U, NEW e \in Seq(U), NEW ss \in Seq(Seq(U)), NEW x \in Seq(U)
  PROVE  Broken(Append(ss, x), e)
           = Append(Broken(ss, e), IF ss = <<>> THEN x ELSE e \o x)
<1>1. PICK V, o : V = Seq(U) /\ o = e
  OBVIOUS
<1>2. o \in V /\ ss \in Seq(V) /\ x \in V
  BY <1>1
<1>3. PICK y \in V : y = IF ss = <<>> THEN x ELSE o \o x
  <2>1. o \o x \in V
    BY <1>1, <1>2, ConcatProperties
  <2> QED
    BY <1>2, <2>1
<1>4. PICK t \in Seq(V) : t = Append(ss, x)
  BY <1>2, AppendProperties
<1>5. PICK n \in Nat : n = Len(ss)
  OBVIOUS
<1>6. Len(t) = n + 1 /\ (\A i \in 1..n : t[i] = ss[i]) /\ t[n + 1] = x
  BY <1>2, <1>4, <1>5, AppendProperties
<1>7. PICK b \in Seq(V) : b = Broken(ss, e) /\ Len(b) = n
  BY <1>1, <1>5, BrokenIs
<1>8. PICK c \in Seq(V) : c = Broken(t, e) /\ Len(c) = n + 1
  BY <1>1, <1>6, BrokenIs
<1>9. PICK d \in Seq(V) : d = Append(b, y)
  BY AppendProperties
<1>10. Len(d) = n + 1 /\ (\A i \in 1..n : d[i] = b[i]) /\ d[n + 1] = y
  BY <1>7, <1>9, AppendProperties
<1>11. ASSUME NEW i \in 1..(n + 1) PROVE c[i] = d[i]
  <2>1. c[i] = IF i = 1 THEN t[i] ELSE o \o t[i]
    <3>1. DOMAIN t = 1..(n + 1)
      BY <1>6
    <3> QED
      BY <1>1, <1>8, <3>1, Zenon DEF Broken
  <2>2. CASE i \in 1..n
    <3>1. b[i] = IF i = 1 THEN ss[i] ELSE o \o ss[i]
      <4>1. DOMAIN ss = 1..n
        BY <1>5
      <4> QED
        BY <1>1, <1>7, <2>2, <4>1, Zenon DEF Broken
    <3> QED
      BY <1>6, <1>10, <2>1, <2>2, <3>1, Zenon
  <2>3. CASE i \notin 1..n
    <3>1. i = n + 1 /\ (i = 1 <=> n = 0)
      BY <2>3
    <3>2. n = 0 <=> ss = <<>>
      BY <1>5, <1>2, EmptySeq
    <3> QED
      BY <1>3, <1>6, <1>10, <2>1, <3>1, <3>2, Zenon
  <2> QED
    BY <2>2, <2>3
<1>12. c = d
  BY <1>8, <1>10, <1>11, SeqEqual
<1> QED
  BY <1>1, <1>3, <1>4, <1>7, <1>8, <1>9, <1>12, Zenon

LinesJoin(U, e) ==
  /\ Edit!joinLines(<<>>, e) = <<>>
  /\ \A ss \in Seq(Seq(U)) : Edit!joinLines(ss, e) \in Seq(U)
  /\ \A ss \in Seq(Seq(U)), x \in Seq(U) :
       Edit!joinLines(Append(ss, x), e)
         = Edit!joinLines(ss, e) \o (IF ss = <<>> THEN x ELSE e \o x)

LEMMA LinesJoined ==
  ASSUME NEW U, NEW e \in Seq(U)
  PROVE  LinesJoin(U, e)
<1>1. \A ss : Edit!joinLines(ss, e) = PutTogether(Broken(ss, e))
  BY Zenon DEF Edit!joinLines, PutTogether, Broken
<1>2. Edit!joinLines(<<>>, e) = <<>>
  <2>1. Broken(<<>>, e) = <<>>
    BY DEF Broken
  <2> QED
    BY <1>1, <2>1, JoinedIs, Zenon
<1>3. ASSUME NEW ss \in Seq(Seq(U)) PROVE Edit!joinLines(ss, e) \in Seq(U)
  <2>1. Broken(ss, e) \in Seq(Seq(U))
    BY BrokenIs
  <2> QED
    BY <1>1, <2>1, JoinedIs, Zenon
<1>4. ASSUME NEW ss \in Seq(Seq(U)), NEW x \in Seq(U)
      PROVE  Edit!joinLines(Append(ss, x), e)
                = Edit!joinLines(ss, e) \o (IF ss = <<>> THEN x ELSE e \o x)
  <2>1. Broken(ss, e) \in Seq(Seq(U))
    BY BrokenIs
  <2>2. PICK y \in Seq(U) : y = IF ss = <<>> THEN x ELSE e \o x
    <3>1. e \o x \in Seq(U)
      BY ConcatProperties
    <3> QED
      BY <3>1
  <2>3. Broken(Append(ss, x), e) = Append(Broken(ss, e), y)
    BY <2>2, BrokenAppend
  <2>4. PutTogether(Append(Broken(ss, e), y)) = PutTogether(Broken(ss, e)) \o y
    BY <2>1, JoinedIs, Zenon
  <2> QED
    BY <1>1, <2>2, <2>3, <2>4, Zenon
<1> QED
  BY <1>2, <1>3, <1>4, Zenon DEF LinesJoin

LEMMA LinesAre ==
  ASSUME NEW U, NEW e \in Seq(U)
  PROVE  /\ Edit!joinLines(<<>>, e) = <<>>
         /\ \A ss \in Seq(Seq(U)) : Edit!joinLines(ss, e) \in Seq(U)
         /\ \A ss \in Seq(Seq(U)), x \in Seq(U) :
              Edit!joinLines(Append(ss, x), e)
                = Edit!joinLines(ss, e) \o (IF ss = <<>> THEN x ELSE e \o x)
<1>1. LinesJoin(U, e)
  BY LinesJoined
<1> QED
  BY <1>1, Zenon DEF LinesJoin

LEMMA FlatIs ==
  ASSUME NEW U, Edit!Newline \in U
  PROVE  /\ Edit!Flat(<<>>) = <<>>
         /\ \A ss \in Seq(Seq(U)) : Edit!Flat(ss) \in Seq(U)
         /\ \A ss \in Seq(Seq(U)), x \in Seq(U) :
              Edit!Flat(Append(ss, x))
                = Edit!Flat(ss) \o (IF ss = <<>> THEN x ELSE <<Edit!Newline>> \o x)
<1>1. PICK e \in Seq(U) : e = <<Edit!Newline>>
  BY Single
<1>2. \A ss : Edit!Flat(ss) = Edit!joinLines(ss, e)
  BY <1>1, Zenon DEF Edit!Flat
<1>3. /\ Edit!joinLines(<<>>, e) = <<>>
      /\ \A ss \in Seq(Seq(U)) : Edit!joinLines(ss, e) \in Seq(U)
      /\ \A ss \in Seq(Seq(U)), x \in Seq(U) :
           Edit!joinLines(Append(ss, x), e)
             = Edit!joinLines(ss, e) \o (IF ss = <<>> THEN x ELSE e \o x)
  <2>1. LinesJoin(U, e)
    BY LinesJoined
  <2> QED
    BY <2>1, Zenon DEF LinesJoin
<1> QED
  BY <1>1, <1>2, <1>3, Zenon

\* The text of lines that others follow, and of lines that follow others.
Pre(ss) == IF ss = <<>> THEN <<>> ELSE Edit!Flat(ss) \o <<Edit!Newline>>

Post(ss) == IF ss = <<>> THEN <<>> ELSE <<Edit!Newline>> \o Edit!Flat(ss)

LEMMA PreIs ==
  ASSUME NEW U, Edit!Newline \in U, NEW ss \in Seq(Seq(U))
  PROVE  /\ Pre(ss) \in Seq(U) /\ Post(ss) \in Seq(U)
         /\ \A x \in Seq(U) : Edit!Flat(Append(ss, x)) = Pre(ss) \o x
         /\ \A x \in Seq(U) : Post(Append(ss, x)) = Post(ss) \o <<Edit!Newline>> \o x
<1>1. PICK o \in Seq(U) : o = <<Edit!Newline>>
  BY Single
<1>2. PICK f \in Seq(U) : f = Edit!Flat(ss)
  BY FlatIs
<1>3. f \o o \in Seq(U) /\ o \o f \in Seq(U) /\ <<>> \in Seq(U)
  BY ConcatProperties, EmptySeq
<1>4. Pre(ss) = (IF ss = <<>> THEN <<>> ELSE f \o o) /\ Post(ss) = (IF ss = <<>> THEN <<>> ELSE o \o f)
  BY <1>1, <1>2, Zenon DEF Pre, Post
<1>5. ss = <<>> => f = <<>>
  BY <1>2, FlatIs, Zenon
<1>6. ASSUME NEW x \in Seq(U) PROVE Edit!Flat(Append(ss, x)) = Pre(ss) \o x
  <2>1. Edit!Flat(Append(ss, x)) = f \o (IF ss = <<>> THEN x ELSE o \o x)
    BY <1>1, <1>2, FlatIs, Zenon
  <2>2. (f \o o) \o x = f \o (o \o x)
    BY ConcatAssociative
  <2> QED
    BY <1>4, <1>5, <2>1, <2>2, Zenon
<1>7. ASSUME NEW x \in Seq(U) PROVE Post(Append(ss, x)) = Post(ss) \o <<Edit!Newline>> \o x
  <2>1. Edit!Flat(Append(ss, x)) = f \o (IF ss = <<>> THEN x ELSE o \o x)
    BY <1>1, <1>2, FlatIs, Zenon
  <2>2. PICK V : V = Seq(U)
    OBVIOUS
  <2>3. Append(ss, x) # <<>>
    BY <2>2, AppendProperties
  <2>4. Post(Append(ss, x)) = o \o (f \o (IF ss = <<>> THEN x ELSE o \o x))
    BY <1>1, <2>1, <2>3, Zenon DEF Post
  <2>5. o \o x \in Seq(U)
    BY ConcatProperties
  <2>6. o \o (f \o (o \o x)) = ((o \o f) \o o) \o x
    <3>1. (o \o f) \o (o \o x) = o \o (f \o (o \o x))
      BY <2>5, ConcatAssociative
    <3>2. ((o \o f) \o o) \o x = (o \o f) \o (o \o x)
      BY <1>3, ConcatAssociative
    <3> QED
      BY <3>1, <3>2
  <2>7. <<>> \o x = x /\ <<>> \o o = o
    BY ConcatEmptySeq
  <2> QED
    BY <1>1, <1>4, <1>5, <2>4, <2>6, <2>7, Zenon
<1> QED
  BY <1>3, <1>4, <1>6, <1>7

LEMMA FlatAround ==
  ASSUME NEW U, Edit!Newline \in U, NEW A \in Seq(Seq(U)), NEW x \in Seq(U), NEW B \in Seq(Seq(U))
  PROVE  Edit!Flat(Append(A, x) \o B) = Pre(A) \o x \o Post(B)
<1>1. PICK V : V = Seq(U)
  OBVIOUS
<1>2. PICK o \in V : o = <<Edit!Newline>>
  BY <1>1, Single
<1>3. PICK p \in V : p = Pre(A) \o x
  <2>1. Pre(A) \in Seq(U)
    BY PreIs
  <2> QED
    BY <1>1, <2>1, ConcatProperties
<1>4. PICK P \in Seq(V) : P = Append(A, x) /\ P # <<>> /\ Edit!Flat(P) = p
  <2>1. Append(A, x) \in Seq(V) /\ Append(A, x) # <<>>
    <3>1. A \in Seq(V) /\ x \in V
      BY <1>1
    <3> QED
      BY <3>1, AppendProperties
  <2>2. Edit!Flat(Append(A, x)) = p
    BY <1>3, PreIs, Zenon
  <2> QED
    BY <2>1, <2>2
<1>5. PICK T \in SUBSET Seq(V) : T = {b \in Seq(V) : Edit!Flat(P \o b) = p \o Post(b)}
  OBVIOUS
<1>6. <<>> \in T
  <2>1. P \o <<>> = P /\ p \o <<>> = p /\ <<>> \in Seq(V)
    BY <1>1, ConcatEmptySeq
  <2>2. Post(<<>>) = <<>>
    BY DEF Post
  <2> QED
    BY <1>4, <1>5, <2>1, <2>2, Zenon
<1>7. ASSUME NEW s \in T, NEW y \in V PROVE Append(s, y) \in T
  <2>1. s \in Seq(V) /\ Edit!Flat(P \o s) = p \o Post(s)
    BY <1>5
  <2>2. P \o Append(s, y) = Append(P \o s, y)
    BY <2>1, ConcatAppend
  <2>3. PICK q \in Seq(V) : q = P \o s
    BY <2>1, ConcatProperties
  <2>4. q # <<>>
    BY <1>4, <2>1, <2>3, ConcatEqualIffEmpty
  <2>5. Edit!Flat(Append(q, y)) = Edit!Flat(q) \o (o \o y)
    BY <1>1, <1>2, <2>4, FlatIs, Zenon
  <2>6. Post(Append(s, y)) = Post(s) \o o \o y
    BY <1>1, <1>2, <2>1, PreIs, Zenon
  <2>7. PICK z \in V : z = Post(s)
    BY <1>1, <2>1, PreIs
  <2>8. (p \o z) \o (o \o y) = p \o ((z \o o) \o y)
    <3>1. p \in Seq(U) /\ z \in Seq(U) /\ o \in Seq(U) /\ y \in Seq(U)
      BY <1>1
    <3>2. o \o y \in Seq(U)
      BY <3>1, ConcatProperties
    <3>3. Associates(p, z, o \o y)
      BY <3>1, <3>2, Association
    <3>4. Associates(z, o, y)
      BY <3>1, Association
    <3> QED
      BY <3>3, <3>4, Zenon DEF Associates
  <2>9. Append(s, y) \in Seq(V)
    BY <2>1, AppendProperties
  <2> QED
    BY <1>5, <2>1, <2>2, <2>3, <2>5, <2>6, <2>7, <2>8, <2>9, Zenon
<1>8. B \in T
  <2>1. B \in Seq(V)
    BY <1>1
  <2> QED
    BY <1>6, <1>7, <2>1, SeqInduction
<1> QED
  BY <1>3, <1>4, <1>5, <1>8, Zenon

-----------------------------------------------------------------------------
(* Parts of sequences                                                        *)

LEMMA PartIs ==
  ASSUME NEW S, NEW s \in Seq(S), NEW a \in 0..Len(s), NEW b \in a..Len(s)
  PROVE  /\ SubSeq(s, a + 1, b) \in Seq(S)
         /\ Len(SubSeq(s, a + 1, b)) = b - a
         /\ \A i \in 1..(b - a) : SubSeq(s, a + 1, b)[i] = s[a + i]
<1>1. PICK m \in Nat : m = a + 1
  OBVIOUS
<1>2. b \in Int /\ m \in Int
  OBVIOUS
<1>3. \A i \in m..b : s[i] \in S
  <2>1. \A i \in m..b : i \in 1..Len(s)
    BY <1>1
  <2> QED
    BY <2>1, ElementOfSeq
<1>4. /\ SubSeq(s, m, b) \in Seq(S)
      /\ Len(SubSeq(s, m, b)) = IF m <= b THEN b - m + 1 ELSE 0
      /\ \A i \in 1..(b - m + 1) : SubSeq(s, m, b)[i] = s[m + i - 1]
  BY <1>2, <1>3, SubSeqProperties
<1>5. Len(SubSeq(s, m, b)) = b - a
  BY <1>1, <1>4
<1>6. ASSUME NEW i \in 1..(b - a) PROVE SubSeq(s, m, b)[i] = s[a + i]
  <2>1. i \in 1..(b - m + 1) /\ m + i - 1 = a + i
    BY <1>1
  <2> QED
    BY <1>4, <2>1
<1> QED
  BY <1>1, <1>4, <1>5, <1>6, Zenon

LEMMA TwoParts ==
  ASSUME NEW S, NEW s \in Seq(S), NEW a \in 0..Len(s)
  PROVE  s = SubSeq(s, 1, a) \o SubSeq(s, a + 1, Len(s))
<1>1. Len(s) \in Nat
  OBVIOUS
<1>2. 1 \in 1..(Len(s) + 1) /\ a \in (1 - 1)..Len(s) /\ Len(s) \in a..Len(s)
  BY <1>1
<1>3. SubSeq(s, 1, a) \o SubSeq(s, a + 1, Len(s)) = SubSeq(s, 1, Len(s))
  BY <1>2, ConcatAdjacentSubSeq
<1>4. SubSeq(s, 1, Len(s)) = s
  BY SubSeqFull
<1> QED
  BY <1>3, <1>4, Zenon

\* Texts put together, in two parts.
LEMMA JoinedTwo ==
  ASSUME NEW U, NEW c \in Seq(Seq(U)), NEW a \in 0..Len(c)
  PROVE  PutTogether(c) = PutTogether(SubSeq(c, 1, a)) \o PutTogether(SubSeq(c, a + 1, Len(c)))
<1>1. PICK V : V = Seq(U)
  OBVIOUS
<1>2. c \in Seq(V) /\ Len(c) \in Nat
  BY <1>1
<1>3. 0 \in 0..Len(c) /\ a \in 0..Len(c) /\ Len(c) \in a..Len(c) /\ 0 + 1 = 1
  BY <1>2
<1>4. SubSeq(c, 0 + 1, a) \in Seq(V)
  BY <1>2, <1>3, PartIs
<1>5. SubSeq(c, a + 1, Len(c)) \in Seq(V)
  BY <1>2, <1>3, PartIs
<1>6. PICK P \in Seq(V), Q \in Seq(V) : P = SubSeq(c, 1, a) /\ Q = SubSeq(c, a + 1, Len(c))
  BY <1>3, <1>4, <1>5
<1>7. c = P \o Q
  BY <1>2, <1>6, TwoParts
<1>8. PutTogether(P \o Q) = PutTogether(P) \o PutTogether(Q)
  BY <1>1, JoinedParts
<1> QED
  BY <1>6, <1>7, <1>8, Zenon

\* What is put before the first text comes before all.
BeginsWith(d, c, x) ==
  /\ Len(d) = Len(c) /\ Len(c) > 0
  /\ d[1] = x \o c[1]
  /\ \A n \in 2..Len(c) : d[n] = c[n]

LEMMA JoinedFirst ==
  ASSUME NEW U, NEW c \in Seq(Seq(U)), NEW d \in Seq(Seq(U)), NEW x \in Seq(U), BeginsWith(d, c, x)
  PROVE  PutTogether(d) = x \o PutTogether(c)
<1>1. PICK V : V = Seq(U)
  OBVIOUS
<1>2. c \in Seq(V) /\ d \in Seq(V)
  BY <1>1
<1>3. PICK n \in Nat \ {0} : n = Len(c) /\ n = Len(d)
  BY <1>2 DEF BeginsWith
<1>4. PICK c1 \in V, d1 \in V : c1 = c[1] /\ d1 = d[1] /\ d1 = x \o c1
  <2>1. 1 \in 1..n
    BY <1>3
  <2>2. c[1] \in V /\ d[1] \in V
    BY <1>2, <1>3, <2>1, ElementOfSeq
  <2> QED
    BY <2>2, Zenon DEF BeginsWith
<1>5. 1 \in 0..n /\ n \in 1..n
  BY <1>3
<1>6. PICK P \in Seq(V), Q \in Seq(V) : P = SubSeq(c, 2, n) /\ Q = SubSeq(d, 2, n)
  <2>1. SubSeq(c, 1 + 1, n) \in Seq(V)
    BY <1>2, <1>3, <1>5, PartIs
  <2>2. SubSeq(d, 1 + 1, n) \in Seq(V)
    BY <1>2, <1>3, <1>5, PartIs
  <2>3. 1 + 1 = 2
    OBVIOUS
  <2> QED
    BY <2>1, <2>2, <2>3, Zenon
<1>7. Len(P) = n - 1 /\ \A i \in 1..(n - 1) : P[i] = c[1 + i]
  <2>1. P = SubSeq(c, 1 + 1, n)
    BY <1>6
  <2> QED
    BY <1>2, <1>3, <1>5, <2>1, PartIs
<1>8. Len(Q) = n - 1 /\ \A i \in 1..(n - 1) : Q[i] = d[1 + i]
  <2>1. Q = SubSeq(d, 1 + 1, n)
    BY <1>6
  <2> QED
    BY <1>2, <1>3, <1>5, <2>1, PartIs
<1>9. P = Q
  <2>1. ASSUME NEW i \in 1..(n - 1) PROVE P[i] = Q[i]
    <3>1. 1 + i \in 2..n
      BY <1>3
    <3>2. d[1 + i] = c[1 + i]
      BY <1>3, <3>1 DEF BeginsWith
    <3> QED
      BY <1>7, <1>8, <3>2
  <2> QED
    BY <1>7, <1>8, <2>1, SeqEqual
<1>10. PICK o1 \in Seq(V), o2 \in Seq(V) : o1 = <<c1>> /\ o2 = <<d1>> /\ PutTogether(o1) = c1 /\ PutTogether(o2) = d1
  <2>1. <<c1>> \in Seq(V) /\ <<d1>> \in Seq(V)
    BY Single
  <2>2. Len(<<c1>>) = 1 /\ <<c1>>[1] = c1 /\ Len(<<d1>>) = 1 /\ <<d1>>[1] = d1
    OBVIOUS
  <2>3. BlankBut(<<c1>>, 1) /\ BlankBut(<<d1>>, 1) /\ 1 \in 1..1
    BY <2>2 DEF BlankBut
  <2>4. PutTogether(<<c1>>) = <<c1>>[1]
    BY <1>1, <2>1, <2>2, <2>3, JoinedOnly
  <2>5. PutTogether(<<d1>>) = <<d1>>[1]
    BY <1>1, <2>1, <2>2, <2>3, JoinedOnly
  <2> QED
    BY <2>1, <2>2, <2>4, <2>5, Zenon
<1>11. c = o1 \o P /\ d = o2 \o Q
  <2>1. 1 \in 1..n /\ n \in 1..n
    BY <1>3
  <2>5. SubSeq(c, 1, n) = c
    BY <1>2, <1>3, SubSeqFull
  <2>6. SubSeq(d, 1, n) = d
    BY <1>2, <1>3, SubSeqFull
  <2>2. SubSeq(c, 1, n) = <<c[1]>> \o SubSeq(c, 1 + 1, n)
    BY <1>2, <1>3, <2>1, SubSeqRecursiveFirst
  <2>3. SubSeq(d, 1, n) = <<d[1]>> \o SubSeq(d, 1 + 1, n)
    BY <1>2, <1>3, <2>1, SubSeqRecursiveFirst
  <2>4. 1 + 1 = 2
    OBVIOUS
  <2> QED
    BY <1>4, <1>6, <1>10, <2>2, <2>3, <2>4, <2>5, <2>6, Zenon
<1>12. PutTogether(o1 \o P) = PutTogether(o1) \o PutTogether(P)
  BY <1>1, JoinedParts
<1>13. PutTogether(o2 \o P) = PutTogether(o2) \o PutTogether(P)
  BY <1>1, JoinedParts
<1>14. Associates(x, c1, PutTogether(P))
  <2>1. PutTogether(P) \in Seq(U) /\ c1 \in Seq(U)
    BY <1>1, JoinedIs
  <2> QED
    BY <2>1, Association
<1> QED
  BY <1>4, <1>9, <1>10, <1>11, <1>12, <1>13, <1>14, Zenon DEF Associates

-----------------------------------------------------------------------------
(* What edits make of a text: p has the old text, how many edits there are,  *)
(* the places each goes from and to, and its new text.  D is the set of      *)
(* those that are made.                                                      *)

Edits(U, p) ==
  /\ p.size \in Nat /\ p.old \in Seq(U)
  /\ \A j \in 1..p.size : /\ p.from[j] \in Nat /\ p.to[j] \in Nat
                          /\ p.from[j] <= p.to[j] /\ p.to[j] <= Len(p.old)
                          /\ p.text[j] \in Seq(U)

NewTexts(p, D, o) ==
  [j \in 1..p.size |-> IF j \in D /\ p.from[j] = o THEN p.text[j] ELSE <<>>]

Removed(p, D, o) == \E j \in D : p.from[j] <= o /\ o < p.to[j]

OldText(p, D, n) ==
  IF n > Len(p.old) \/ Removed(p, D, n - 1) THEN <<>> ELSE <<p.old[n]>>

Cell(p, D, n) == PutTogether(NewTexts(p, D, n - 1)) \o OldText(p, D, n)

Cells(p, D) == [n \in 1..(Len(p.old) + 1) |-> Cell(p, D, n)]

Made(p, D) == PutTogether(Cells(p, D))

\* The edits of D come after the edit i, which is none of them.
AllAfter(p, D, i) ==
  /\ i \in 1..p.size /\ i \notin D /\ D \subseteq 1..p.size
  /\ \A j \in D : p.from[i] < p.from[j] /\ p.to[i] <= p.from[j]

LEMMA NewTextsAre ==
  ASSUME NEW U, NEW p, Edits(U, p), NEW D, NEW o
  PROVE  /\ NewTexts(p, D, o) \in Seq(Seq(U)) /\ Len(NewTexts(p, D, o)) = p.size
         /\ \A j \in 1..p.size :
              NewTexts(p, D, o)[j] = IF j \in D /\ p.from[j] = o THEN p.text[j] ELSE <<>>
<1>1. PICK V, n, t : V = Seq(U) /\ n = p.size /\ t = NewTexts(p, D, o)
  OBVIOUS
<1>2. ASSUME NEW j \in 1..n
      PROVE  t[j] = (IF j \in D /\ p.from[j] = o THEN p.text[j] ELSE <<>>) /\ t[j] \in V
  <2>1. p.text[j] \in V /\ <<>> \in V
    BY <1>1 DEF Edits
  <2>2. t[j] = IF j \in D /\ p.from[j] = o THEN p.text[j] ELSE <<>>
    BY <1>1, Zenon DEF NewTexts
  <2> QED
    BY <2>1, <2>2
<1>3. t = [j \in 1..n |-> t[j]]
  BY <1>1, Zenon DEF NewTexts
<1>4. t \in Seq(V) /\ Len(t) = n
  <2>1. n \in Nat
    BY <1>1 DEF Edits
  <2> QED
    BY <1>2, <1>3, <2>1
<1> QED
  BY <1>1, <1>2, <1>4, Zenon

LEMMA CellsAre ==
  ASSUME NEW U, NEW p, Edits(U, p), NEW D
  PROVE  /\ Cells(p, D) \in Seq(Seq(U)) /\ Len(Cells(p, D)) = Len(p.old) + 1
         /\ \A n \in 1..(Len(p.old) + 1) : Cells(p, D)[n] = Cell(p, D, n) /\ Cell(p, D, n) \in Seq(U)
<1>1. PICK V : V = Seq(U)
  OBVIOUS
<1>2. PICK N \in Nat : N = Len(p.old)
  BY DEF Edits
<1>3. ASSUME NEW n \in 1..(N + 1) PROVE Cells(p, D)[n] = Cell(p, D, n) /\ Cell(p, D, n) \in V
  <2>1. PutTogether(NewTexts(p, D, n - 1)) \in Seq(U)
    BY NewTextsAre, JoinedIs
  <2>2. OldText(p, D, n) \in Seq(U)
    <3>1. <<>> \in Seq(U)
      BY EmptySeq
    <3>2. CASE n > N
      BY <1>2, <3>1, <3>2 DEF OldText
    <3>3. CASE ~(n > N)
      <4>1. n \in 1..N /\ p.old \in Seq(U)
        BY <3>3 DEF Edits
      <4>2. p.old[n] \in U
        BY <1>2, <4>1, ElementOfSeq
      <4>3. <<p.old[n]>> \in Seq(U)
        BY <4>2, Single
      <4> QED
        BY <3>1, <4>3, Zenon DEF OldText
    <3> QED
      BY <3>2, <3>3
  <2>3. Cell(p, D, n) \in Seq(U)
    BY <2>1, <2>2, ConcatProperties DEF Cell
  <2>4. Cells(p, D)[n] = Cell(p, D, n)
    BY <1>2, Zenon DEF Cells
  <2> QED
    BY <1>1, <2>3, <2>4
<1>4. PICK c : c = Cells(p, D)
  OBVIOUS
<1>5. c = [n \in 1..(N + 1) |-> c[n]]
  BY <1>2, <1>4, Zenon DEF Cells
<1>6. \A n \in 1..(N + 1) : c[n] \in V
  BY <1>3, <1>4
<1>7. c \in Seq(V) /\ Len(c) = N + 1
  BY <1>5, <1>6
<1> QED
  BY <1>1, <1>2, <1>3, <1>4, <1>7, Zenon

LEMMA NoTexts ==
  ASSUME NEW U, NEW p, Edits(U, p), NEW D, NEW o, \A j \in D : p.from[j] # o
  PROVE  PutTogether(NewTexts(p, D, o)) = <<>>
<1>1. ASSUME NEW j \in 1..p.size PROVE NewTexts(p, D, o)[j] = <<>>
  <2>1. NewTexts(p, D, o)[j] = IF j \in D /\ p.from[j] = o THEN p.text[j] ELSE <<>>
    BY NewTextsAre
  <2> QED
    BY <2>1, Zenon
<1>2. BlankBut(NewTexts(p, D, o), 0)
  BY <1>1, NewTextsAre DEF BlankBut
<1> QED
  BY <1>2, NewTextsAre, JoinedBlank

LEMMA OneText ==
  ASSUME NEW U, NEW p, Edits(U, p), NEW D, NEW i, AllAfter(p, D, i)
  PROVE  PutTogether(NewTexts(p, D \cup {i}, p.from[i])) = p.text[i]
<1>1. PICK t \in Seq(Seq(U)) : t = NewTexts(p, D \cup {i}, p.from[i])
  BY NewTextsAre
<1>2. Len(t) = p.size /\ i \in 1..p.size
  BY <1>1, NewTextsAre DEF AllAfter
<1>3. \A j \in 1..p.size :
        t[j] = IF j \in D \cup {i} /\ p.from[j] = p.from[i] THEN p.text[j] ELSE <<>>
  BY <1>1, NewTextsAre
<1>4. t[i] = p.text[i]
  BY <1>2, <1>3
<1>5. ASSUME NEW j \in 1..p.size, j # i PROVE t[j] = <<>>
  <2>1. j \in D => p.from[i] < p.from[j] /\ p.from[i] \in Nat
    BY <1>2 DEF AllAfter, Edits
  <2>2. ~(j \in D \cup {i} /\ p.from[j] = p.from[i])
    BY <1>5, <2>1
  <2> QED
    BY <1>3, <2>2
<1>6. BlankBut(t, i)
  BY <1>2, <1>5 DEF BlankBut
<1>7. PutTogether(t) = t[i]
  BY <1>2, <1>6, JoinedOnly
<1> QED
  BY <1>1, <1>4, <1>7

LEMMA SameTexts ==
  ASSUME NEW p, NEW D, NEW i, NEW o, o # p.from[i]
  PROVE  NewTexts(p, D \cup {i}, o) = NewTexts(p, D, o)
<1>1. \A j : (j \in D \cup {i} /\ p.from[j] = o) <=> (j \in D /\ p.from[j] = o)
  BY Zenon
<1> QED
  BY <1>1, Zenon DEF NewTexts

\* The cells after the place o are those of the old text, up to a place b.
OldCells(p, D, b) == \A n \in 1..b : Cell(p, D, n) = <<p.old[n]>>

LEMMA OldCell ==
  ASSUME NEW U, NEW p, Edits(U, p), NEW D, NEW n \in 1..Len(p.old),
         \A j \in D : p.from[j] \in Nat /\ n - 1 < p.from[j]
  PROVE  Cell(p, D, n) = <<p.old[n]>>
<1>1. \A j \in D : p.from[j] # n - 1
  OBVIOUS
<1>2. PutTogether(NewTexts(p, D, n - 1)) = <<>>
  BY <1>1, NoTexts
<1>3. ~Removed(p, D, n - 1)
  BY DEF Removed
<1>4. ~(n > Len(p.old))
  BY DEF Edits
<1>5. OldText(p, D, n) = <<p.old[n]>>
  BY <1>3, <1>4, Zenon DEF OldText
<1>6. <<>> \o <<p.old[n]>> = <<p.old[n]>>
  <2>1. p.old[n] \in U
    BY ElementOfSeq DEF Edits
  <2>2. <<p.old[n]>> \in Seq(U)
    BY <2>1, Single
  <2> QED
    BY <2>2, ConcatEmptySeq
<1> QED
  BY <1>2, <1>5, <1>6, Zenon DEF Cell

LEMMA OldCellsBefore ==
  ASSUME NEW U, NEW p, Edits(U, p), NEW D, NEW i, AllAfter(p, D, i)
  PROVE  OldCells(p, D, p.to[i]) /\ OldCells(p, D \cup {i}, p.from[i])
<1>1. /\ p.from[i] \in Nat /\ p.to[i] \in Nat /\ p.from[i] <= p.to[i] /\ p.to[i] <= Len(p.old)
      /\ Len(p.old) \in Nat
  BY DEF Edits, AllAfter
<1>2. \A j \in D : p.from[j] \in Nat /\ p.from[i] < p.from[j] /\ p.to[i] <= p.from[j]
  BY DEF Edits, AllAfter
<1>3. ASSUME NEW n \in 1..p.to[i] PROVE Cell(p, D, n) = <<p.old[n]>>
  <2>1. n \in 1..Len(p.old)
    BY <1>1
  <2>2. \A j \in D : p.from[j] \in Nat /\ n - 1 < p.from[j]
    BY <1>1, <1>2
  <2> QED
    BY <2>1, <2>2, OldCell
<1>4. ASSUME NEW n \in 1..p.from[i] PROVE Cell(p, D \cup {i}, n) = <<p.old[n]>>
  <2>1. n \in 1..Len(p.old)
    BY <1>1
  <2>2. \A j \in D \cup {i} : p.from[j] \in Nat /\ n - 1 < p.from[j]
    BY <1>1, <1>2
  <2> QED
    BY <2>1, <2>2, OldCell
<1> QED
  BY <1>3, <1>4 DEF OldCells

\* The beginning of the text, where no edit has come.
LEMMA BeginningIsOld ==
  ASSUME NEW U, NEW p, Edits(U, p), NEW D, NEW b \in 0..Len(p.old), OldCells(p, D, b)
  PROVE  PutTogether(SubSeq(Cells(p, D), 1, b)) = SubSeq(p.old, 1, b)
<1>1. PICK V, c : V = Seq(U) /\ c = Cells(p, D)
  OBVIOUS
<1>2. PICK N \in Nat : N = Len(p.old)
  BY DEF Edits
<1>3. c \in Seq(V) /\ Len(c) = N + 1 /\ \A n \in 1..(N + 1) : c[n] = Cell(p, D, n)
  BY <1>1, <1>2, CellsAre
<1>4. 0 \in 0..Len(c) /\ b \in 0..Len(c) /\ 0 \in 0..N /\ b \in 0..N /\ 0 + 1 = 1 /\ b - 0 = b
  BY <1>2, <1>3
<1>5. PICK d : d = SubSeq(c, 1, b)
  OBVIOUS
<1>6. d \in Seq(V) /\ Len(d) = b /\ \A n \in 1..b : d[n] = c[n]
  <2>1. /\ SubSeq(c, 0 + 1, b) \in Seq(V) /\ Len(SubSeq(c, 0 + 1, b)) = b - 0
        /\ \A n \in 1..(b - 0) : SubSeq(c, 0 + 1, b)[n] = c[0 + n]
    BY <1>3, <1>4, PartIs
  <2>2. \A n \in 1..b : 0 + n = n
    OBVIOUS
  <2> QED
    BY <1>4, <1>5, <2>1, <2>2, Zenon
<1>7. PICK w : w = SubSeq(p.old, 1, b)
  OBVIOUS
<1>8. w \in Seq(U) /\ Len(w) = b /\ \A n \in 1..b : w[n] = p.old[n]
  <2>3. p.old \in Seq(U)
    BY DEF Edits
  <2>1. /\ SubSeq(p.old, 0 + 1, b) \in Seq(U) /\ Len(SubSeq(p.old, 0 + 1, b)) = b - 0
        /\ \A n \in 1..(b - 0) : SubSeq(p.old, 0 + 1, b)[n] = p.old[0 + n]
    BY <1>2, <1>4, <2>3, PartIs
  <2>2. \A n \in 1..b : 0 + n = n
    OBVIOUS
  <2> QED
    BY <1>4, <1>7, <2>1, <2>2, Zenon
<1>9. Singles(d, w)
  <2>1. ASSUME NEW n \in 1..b PROVE d[n] = <<w[n]>>
    <3>1. n \in 1..(N + 1)
      BY <1>2
    <3>2. Cell(p, D, n) = <<p.old[n]>>
      BY DEF OldCells
    <3> QED
      BY <1>3, <1>6, <1>8, <3>1, <3>2, Zenon
  <2> QED
    BY <1>6, <1>8, <2>1, Zenon DEF Singles
<1>10. d \in Seq(Seq(U))
  BY <1>1, <1>6
<1>11. PutTogether(d) = w
  BY <1>8, <1>9, <1>10, JoinedSingles
<1> QED
  BY <1>1, <1>5, <1>7, <1>11

\* The rest of the text: all from the place b on.
Remaining(p, D, b) == SubSeq(Cells(p, D), b + 1, Len(p.old) + 1)

Rest(p, D, b) == PutTogether(Remaining(p, D, b))

LEMMA RestIs ==
  ASSUME NEW U, NEW p, Edits(U, p), NEW D, NEW b \in 0..Len(p.old)
  PROVE  /\ Remaining(p, D, b) \in Seq(Seq(U))
         /\ Len(Remaining(p, D, b)) = Len(p.old) + 1 - b
         /\ \A n \in 1..(Len(p.old) + 1 - b) : Remaining(p, D, b)[n] = Cell(p, D, b + n)
         /\ Rest(p, D, b) \in Seq(U)
<1>1. PICK V, c : V = Seq(U) /\ c = Cells(p, D)
  OBVIOUS
<1>2. PICK N \in Nat : N = Len(p.old)
  BY DEF Edits
<1>3. c \in Seq(V) /\ Len(c) = N + 1 /\ \A n \in 1..(N + 1) : c[n] = Cell(p, D, n)
  BY <1>1, <1>2, CellsAre
<1>4. PICK M \in Nat : M = N + 1
  OBVIOUS
<1>5. b \in 0..Len(c) /\ M \in b..Len(c)
  BY <1>2, <1>3, <1>4
<1>6. PICK d : d = SubSeq(c, b + 1, M)
  OBVIOUS
<1>7. d \in Seq(V) /\ Len(d) = M - b /\ \A n \in 1..(M - b) : d[n] = c[b + n]
  BY <1>3, <1>5, <1>6, PartIs
<1>8. ASSUME NEW n \in 1..(M - b) PROVE d[n] = Cell(p, D, b + n)
  <2>1. b + n \in 1..(N + 1)
    BY <1>2, <1>4
  <2> QED
    BY <1>3, <1>7, <2>1
<1>9. PutTogether(d) \in Seq(U)
  BY <1>1, <1>7, JoinedIs
<1>11. M = Len(p.old) + 1 /\ d = Remaining(p, D, b)
  BY <1>1, <1>2, <1>4, <1>6, Zenon DEF Remaining
<1>10. Rest(p, D, b) = PutTogether(d)
  BY <1>11, Zenon DEF Rest
<1>12. d \in Seq(Seq(U)) /\ Len(d) = Len(p.old) + 1 - b
  BY <1>1, <1>7, <1>11
<1>13. \A n \in 1..(Len(p.old) + 1 - b) : d[n] = Cell(p, D, b + n)
  BY <1>8, <1>11
<1> QED
  BY <1>9, <1>10, <1>11, <1>12, <1>13, Zenon

LEMMA MadeInTwo ==
  ASSUME NEW U, NEW p, Edits(U, p), NEW D, NEW b \in 0..Len(p.old), OldCells(p, D, b)
  PROVE  Made(p, D) = SubSeq(p.old, 1, b) \o Rest(p, D, b)
<1>1. PICK c \in Seq(Seq(U)) : c = Cells(p, D) /\ Len(c) = Len(p.old) + 1
  BY CellsAre
<1>2. b \in 0..Len(c)
  BY <1>1 DEF Edits
<1>3. PutTogether(c) = PutTogether(SubSeq(c, 1, b)) \o PutTogether(SubSeq(c, b + 1, Len(c)))
  BY <1>2, JoinedTwo
<1>4. PutTogether(SubSeq(c, 1, b)) = SubSeq(p.old, 1, b)
  BY <1>1, BeginningIsOld
<1> QED
  BY <1>1, <1>3, <1>4, Zenon DEF Made, Rest, Remaining

\* The cells from the place the edit i ends at are the same without it.
LEMMA SameCell ==
  ASSUME NEW U, NEW p, Edits(U, p), NEW D, NEW i, AllAfter(p, D, i),
         NEW n \in Nat, n > p.to[i], n # p.from[i] + 1
  PROVE  Cell(p, D \cup {i}, n) = Cell(p, D, n)
<1>1. p.from[i] \in Nat /\ p.to[i] \in Nat
  BY DEF Edits, AllAfter
<1>2. n - 1 # p.from[i]
  BY <1>1
<1>3. NewTexts(p, D \cup {i}, n - 1) = NewTexts(p, D, n - 1)
  BY <1>2, SameTexts
<1>4. ~(n - 1 < p.to[i])
  BY <1>1
<1>5. Removed(p, D \cup {i}, n - 1) <=> Removed(p, D, n - 1)
  BY <1>4 DEF Removed
<1>6. OldText(p, D \cup {i}, n) = OldText(p, D, n)
  BY <1>5, Zenon DEF OldText
<1> QED
  BY <1>3, <1>6, Zenon DEF Cell

\* In the cells that the edit i removes there is its text, in the first.
LEMMA RemovedCell ==
  ASSUME NEW U, NEW p, Edits(U, p), NEW D, NEW i, AllAfter(p, D, i),
         NEW n \in Nat, p.from[i] < n, n <= p.to[i]
  PROVE  Cell(p, D \cup {i}, n) = IF n = p.from[i] + 1 THEN p.text[i] ELSE <<>>
<1>1. p.from[i] \in Nat /\ p.to[i] \in Nat /\ p.text[i] \in Seq(U)
  BY DEF Edits, AllAfter
<1>2. Removed(p, D \cup {i}, n - 1)
  BY <1>1 DEF Removed
<1>3. OldText(p, D \cup {i}, n) = <<>>
  BY <1>2, Zenon DEF OldText
<1>4. CASE n = p.from[i] + 1
  <2>1. n - 1 = p.from[i]
    BY <1>1, <1>4
  <2>2. PutTogether(NewTexts(p, D \cup {i}, p.from[i])) = p.text[i]
    BY OneText
  <2>3. p.text[i] \o <<>> = p.text[i]
    BY <1>1, ConcatEmptySeq
  <2> QED
    BY <1>3, <1>4, <2>1, <2>2, <2>3, Zenon DEF Cell
<1>5. CASE n # p.from[i] + 1
  <2>1. \A j \in D \cup {i} : p.from[j] # n - 1
    <3>1. p.from[i] # n - 1
      BY <1>1, <1>5
    <3>2. \A j \in D : p.to[i] <= p.from[j] /\ p.from[j] \in Nat
      BY DEF AllAfter, Edits
    <3>3. \A j \in D : p.from[j] # n - 1
      BY <1>1, <3>2
    <3> QED
      BY <3>1, <3>3
  <2>2. PutTogether(NewTexts(p, D \cup {i}, n - 1)) = <<>>
    BY <2>1, NoTexts
  <2>3. <<>> \o <<>> = <<>>
    OBVIOUS
  <2> QED
    BY <1>3, <1>5, <2>2, <2>3, Zenon DEF Cell
<1> QED
  BY <1>4, <1>5

\* An edit that removes nothing puts its text before the cell at its place.
LEMMA InsertedCell ==
  ASSUME NEW U, NEW p, Edits(U, p), NEW D, NEW i, AllAfter(p, D, i), p.from[i] = p.to[i]
  PROVE  Cell(p, D \cup {i}, p.from[i] + 1) = p.text[i] \o Cell(p, D, p.from[i] + 1)
<1>1. p.from[i] \in Nat /\ p.text[i] \in Seq(U)
  BY DEF Edits, AllAfter
<1>2. PICK n \in Nat : n = p.from[i] + 1 /\ n - 1 = p.from[i]
  BY <1>1
<1>3. Removed(p, D \cup {i}, n - 1) <=> Removed(p, D, n - 1)
  BY <1>1, <1>2 DEF Removed
<1>4. OldText(p, D \cup {i}, n) = OldText(p, D, n)
  BY <1>3, Zenon DEF OldText
<1>5. PutTogether(NewTexts(p, D \cup {i}, n - 1)) = p.text[i]
  <2>1. PutTogether(NewTexts(p, D \cup {i}, p.from[i])) = p.text[i]
    BY OneText
  <2> QED
    BY <1>2, <2>1, Zenon
<1>6. PutTogether(NewTexts(p, D, n - 1)) = <<>>
  <2>1. \A j \in D : p.from[i] < p.from[j] /\ p.from[j] \in Nat
    BY DEF AllAfter, Edits
  <2>2. \A j \in D : p.from[j] # n - 1
    BY <1>1, <1>2, <2>1
  <2> QED
    BY <2>2, NoTexts
<1>7. PICK t \in Seq(U) : t = OldText(p, D, n)
  <2>1. p.from[i] <= Len(p.old) /\ Len(p.old) \in Nat
    BY DEF Edits, AllAfter
  <2>2. n \in 1..(Len(p.old) + 1)
    BY <1>1, <1>2, <2>1
  <2>3. Cell(p, D, n) \in Seq(U)
    BY <2>2, CellsAre
  <2>4. CASE OldText(p, D, n) = <<>>
    BY <2>4, EmptySeq
  <2>5. CASE OldText(p, D, n) # <<>>
    <3>1. n \in 1..Len(p.old) /\ OldText(p, D, n) = <<p.old[n]>>
      BY <2>1, <2>2, <2>5 DEF OldText
    <3>2. p.old[n] \in U
      BY <3>1, ElementOfSeq DEF Edits
    <3>3. <<p.old[n]>> \in Seq(U)
      BY <3>2, Single
    <3> QED
      BY <3>1, <3>3
  <2> QED
    BY <2>4, <2>5
<1>8. <<>> \o t = t
  BY <1>7, ConcatEmptySeq
<1> QED
  BY <1>2, <1>4, <1>5, <1>6, <1>7, <1>8, Zenon DEF Cell

\* What comes of the edit i and those after it: the old text up to it, its
\* text, and the rest as it is without it.
LEMMA RestOfEdit ==
  ASSUME NEW U, NEW p, Edits(U, p), NEW D, NEW i, AllAfter(p, D, i)
  PROVE  Rest(p, D \cup {i}, p.from[i]) = p.text[i] \o Rest(p, D, p.to[i])
<1>1. PICK V, N, a, b : V = Seq(U) /\ N = Len(p.old) /\ a = p.from[i] /\ b = p.to[i]
  OBVIOUS
<1>2. N \in Nat /\ a \in 0..N /\ b \in a..N /\ b \in 0..N /\ p.text[i] \in Seq(U)
  BY <1>1 DEF Edits, AllAfter
<1>3. PICK c : c = Remaining(p, D, b)
  OBVIOUS
<1>4. /\ c \in Seq(Seq(U)) /\ Len(c) = N + 1 - b /\ \A n \in 1..(N + 1 - b) : c[n] = Cell(p, D, b + n)
      /\ PutTogether(c) = Rest(p, D, b)
  <2>1. b \in 0..Len(p.old)
    BY <1>1, <1>2
  <2>2. /\ Remaining(p, D, b) \in Seq(Seq(U)) /\ Len(Remaining(p, D, b)) = Len(p.old) + 1 - b
        /\ \A n \in 1..(Len(p.old) + 1 - b) : Remaining(p, D, b)[n] = Cell(p, D, b + n)
    BY <2>1, RestIs
  <2> QED
    BY <1>1, <1>3, <2>2, Zenon DEF Rest
<1>5. PICK d : d = Remaining(p, D \cup {i}, a)
  OBVIOUS
<1>6. /\ d \in Seq(Seq(U)) /\ Len(d) = N + 1 - a
      /\ \A n \in 1..(N + 1 - a) : d[n] = Cell(p, D \cup {i}, a + n)
      /\ PutTogether(d) = Rest(p, D \cup {i}, a)
  <2>1. a \in 0..Len(p.old)
    BY <1>1, <1>2
  <2>2. /\ Remaining(p, D \cup {i}, a) \in Seq(Seq(U))
        /\ Len(Remaining(p, D \cup {i}, a)) = Len(p.old) + 1 - a
        /\ \A n \in 1..(Len(p.old) + 1 - a) : Remaining(p, D \cup {i}, a)[n] = Cell(p, D \cup {i}, a + n)
    BY <2>1, RestIs
  <2> QED
    BY <1>1, <1>5, <2>2, Zenon DEF Rest
<1>7. CASE a = b
  <2>1. d[1] = p.text[i] \o c[1]
    <3>1. 1 \in 1..(N + 1 - a)
      BY <1>2
    <3>2. d[1] = Cell(p, D \cup {i}, a + 1)
      BY <1>6, <3>1
    <3>4. c[1] = Cell(p, D, a + 1)
      BY <1>4, <1>7, <3>1
    <3>3. Cell(p, D \cup {i}, p.from[i] + 1) = p.text[i] \o Cell(p, D, p.from[i] + 1)
      <4>1. p.from[i] = p.to[i]
        BY <1>1, <1>7, Zenon
      <4> QED
        BY <4>1, InsertedCell
    <3> QED
      BY <1>1, <3>2, <3>3, <3>4, Zenon
  <2>2. ASSUME NEW n \in 2..(N + 1 - a) PROVE d[n] = c[n]
    <3>1. n \in 1..(N + 1 - a) /\ a + n \in Nat /\ a + n > b /\ a + n # a + 1
      BY <1>2, <1>7
    <3>2. Cell(p, D \cup {i}, a + n) = Cell(p, D, a + n)
      BY <1>1, <3>1, SameCell
    <3>3. d[n] = Cell(p, D \cup {i}, a + n)
      BY <1>6, <3>1
    <3>4. c[n] = Cell(p, D, b + n)
      BY <1>4, <1>7, <3>1
    <3> QED
      BY <1>7, <3>2, <3>3, <3>4, Zenon
  <2>3. Len(c) = N + 1 - a /\ Len(d) = N + 1 - a /\ Len(c) > 0
    BY <1>2, <1>4, <1>6, <1>7
  <2>4. BeginsWith(d, c, p.text[i])
    BY <2>1, <2>2, <2>3 DEF BeginsWith
  <2>5. PutTogether(d) = p.text[i] \o PutTogether(c)
    BY <1>2, <1>4, <1>6, <2>4, JoinedFirst
  <2> QED
    BY <1>1, <1>4, <1>6, <2>5, Zenon
<1>8. CASE a # b
  <2>1. PICK k \in Nat : k = b - a /\ k > 0 /\ k \in 0..Len(d)
    <3>1. b - a \in Nat /\ b - a > 0 /\ b - a \in 0..Len(d)
      BY <1>2, <1>6, <1>8
    <3> QED
      BY <3>1
  <2>2. PICK e, f : e = SubSeq(d, 0 + 1, k) /\ f = SubSeq(d, k + 1, Len(d))
    OBVIOUS
  <2>3. d \in Seq(V) /\ 0 \in 0..Len(d) /\ k \in 0..Len(d) /\ Len(d) \in k..Len(d)
    BY <1>1, <1>6, <2>1
  <2>4. e \in Seq(V) /\ Len(e) = k /\ \A n \in 1..k : e[n] = d[n]
    <3>1. /\ SubSeq(d, 0 + 1, k) \in Seq(V) /\ Len(SubSeq(d, 0 + 1, k)) = k - 0
          /\ \A n \in 1..(k - 0) : SubSeq(d, 0 + 1, k)[n] = d[0 + n]
      BY <2>3, PartIs
    <3>2. k - 0 = k /\ \A n \in 1..k : 0 + n = n
      OBVIOUS
    <3> QED
      BY <2>2, <3>1, <3>2, Zenon
  <2>5. f \in Seq(V) /\ Len(f) = Len(d) - k /\ \A n \in 1..(Len(d) - k) : f[n] = d[k + n]
    BY <2>2, <2>3, PartIs
  <2>6. PutTogether(e) = p.text[i]
    <3>1. ASSUME NEW n \in 1..k PROVE e[n] = IF n = 1 THEN p.text[i] ELSE <<>>
      <4>1. n \in 1..(N + 1 - a) /\ a + n \in Nat /\ a < a + n /\ a + n <= b /\ (a + n = a + 1 <=> n = 1)
        BY <1>2, <2>1
      <4>2. Cell(p, D \cup {i}, a + n) = IF a + n = a + 1 THEN p.text[i] ELSE <<>>
        BY <1>1, <4>1, RemovedCell
      <4> QED
        BY <1>6, <2>4, <4>1, <4>2, Zenon
    <3>2. 1 \in 1..k /\ BlankBut(e, 1) /\ 1 \in 1..Len(e)
      BY <2>1, <2>4, <3>1 DEF BlankBut
    <3>3. PutTogether(e) = e[1]
      BY <1>1, <2>4, <3>2, JoinedOnly
    <3> QED
      BY <3>1, <3>2, <3>3
  <2>7. f = c
    <3>1. Len(f) = Len(c) /\ Len(c) = N + 1 - b
      BY <1>2, <1>4, <1>6, <2>1, <2>5
    <3>2. ASSUME NEW n \in 1..(N + 1 - b) PROVE f[n] = c[n]
      <4>1. n \in 1..(Len(d) - k) /\ k + n \in 1..(N + 1 - a) /\ a + (k + n) = b + n
        BY <1>2, <1>6, <2>1
      <4>2. b + n \in Nat /\ b + n > b /\ b + n # a + 1
        BY <1>2, <1>8
      <4>3. Cell(p, D \cup {i}, b + n) = Cell(p, D, b + n)
        BY <1>1, <4>2, SameCell
      <4>4. f[n] = d[k + n]
        BY <2>5, <4>1
      <4>5. d[k + n] = Cell(p, D \cup {i}, a + (k + n))
        BY <1>6, <4>1
      <4>6. c[n] = Cell(p, D, b + n)
        BY <1>4
      <4> QED
        BY <4>1, <4>3, <4>4, <4>5, <4>6, Zenon
    <3>3. c \in Seq(V)
      BY <1>1, <1>4
    <3> QED
      BY <2>5, <3>1, <3>2, <3>3, SeqEqual
  <2>8. PutTogether(d) = PutTogether(e) \o PutTogether(f)
    <3>1. PutTogether(d) = PutTogether(SubSeq(d, 1, k)) \o PutTogether(SubSeq(d, k + 1, Len(d)))
      BY <1>6, <2>3, JoinedTwo
    <3>2. 0 + 1 = 1
      OBVIOUS
    <3> QED
      BY <2>2, <3>1, <3>2, Zenon
  <2> QED
    BY <1>1, <1>4, <1>6, <2>6, <2>7, <2>8, Zenon
<1> QED
  BY <1>7, <1>8

\* Edits are made one by one, the last first.
MadeWith(U, p, D, i) ==
  /\ Rest(p, D, p.to[i]) \in Seq(U)
  /\ Made(p, D) = SubSeq(p.old, 1, p.to[i]) \o Rest(p, D, p.to[i])
  /\ Made(p, D \cup {i}) = SubSeq(p.old, 1, p.from[i]) \o (p.text[i] \o Rest(p, D, p.to[i]))

LEMMA MadeBy ==
  ASSUME NEW U, NEW p, Edits(U, p), NEW D, NEW i, AllAfter(p, D, i)
  PROVE  MadeWith(U, p, D, i)
<1>1. p.from[i] \in 0..Len(p.old) /\ p.to[i] \in 0..Len(p.old)
  BY DEF Edits, AllAfter
<1>2. OldCells(p, D, p.to[i]) /\ OldCells(p, D \cup {i}, p.from[i])
  BY OldCellsBefore
<1>3. Made(p, D) = SubSeq(p.old, 1, p.to[i]) \o Rest(p, D, p.to[i])
  BY <1>1, <1>2, MadeInTwo
<1>4. Made(p, D \cup {i}) = SubSeq(p.old, 1, p.from[i]) \o Rest(p, D \cup {i}, p.from[i])
  BY <1>1, <1>2, MadeInTwo
<1>5. Rest(p, D, p.to[i]) \in Seq(U)
  BY <1>1, RestIs
<1> QED
  BY <1>3, <1>4, <1>5, RestOfEdit, Zenon DEF MadeWith

\* No edits make nothing of a text.
LEMMA MadeByNone ==
  ASSUME NEW U, NEW p, Edits(U, p)
  PROVE  Made(p, {}) = p.old
<1>1. PICK N \in Nat : N = Len(p.old) /\ N \in 0..Len(p.old)
  BY DEF Edits
<1>2. OldCells(p, {}, N)
  <2>1. ASSUME NEW n \in 1..N PROVE Cell(p, {}, n) = <<p.old[n]>>
    BY <1>1, OldCell
  <2> QED
    BY <2>1 DEF OldCells
<1>3. Made(p, {}) = SubSeq(p.old, 1, N) \o Rest(p, {}, N)
  BY <1>1, <1>2, MadeInTwo
<1>4. SubSeq(p.old, 1, N) = p.old
  BY <1>1, SubSeqFull DEF Edits
<1>5. PICK c : c = Remaining(p, {}, N)
  OBVIOUS
<1>6. /\ c \in Seq(Seq(U)) /\ Len(c) = N + 1 - N /\ \A n \in 1..(N + 1 - N) : c[n] = Cell(p, {}, N + n)
      /\ PutTogether(c) = Rest(p, {}, N)
  <2>1. N \in 0..Len(p.old)
    BY <1>1
  <2>2. /\ Remaining(p, {}, N) \in Seq(Seq(U)) /\ Len(Remaining(p, {}, N)) = Len(p.old) + 1 - N
        /\ \A n \in 1..(Len(p.old) + 1 - N) : Remaining(p, {}, N)[n] = Cell(p, {}, N + n)
    BY <2>1, RestIs
  <2> QED
    BY <1>1, <1>5, <2>2, Zenon DEF Rest
<1>7. Cell(p, {}, N + 1) = <<>>
  <2>1. PICK M : M = N + 1
    OBVIOUS
  <2>2. PutTogether(NewTexts(p, {}, M - 1)) = <<>>
    BY NoTexts
  <2>3. OldText(p, {}, M) = <<>>
    BY <1>1, <2>1 DEF OldText
  <2>4. <<>> \o <<>> = <<>>
    OBVIOUS
  <2> QED
    BY <2>1, <2>2, <2>3, <2>4, Zenon DEF Cell
<1>8. BlankBut(c, 0)
  BY <1>6, <1>7 DEF BlankBut
<1>9. PutTogether(c) = <<>>
  BY <1>6, <1>8, JoinedBlank
<1>10. p.old \o <<>> = p.old
  BY ConcatEmptySeq DEF Edits
<1> QED
  BY <1>3, <1>4, <1>6, <1>9, <1>10, Zenon

-----------------------------------------------------------------------------
(* Positions and places                                                      *)

\* A position of a document.
IsPosition(lines, p) ==
  /\ p[1] \in Nat /\ p[2] \in Nat
  /\ p[1] < Len(lines) /\ p[2] <= Len(lines[p[1] + 1])

\* The text before a line, and how long it is.
Upto(lines, k) == Pre(SubSeq(lines, 1, k))

StartOf(lines, k) == Len(Upto(lines, k))

\* The text before a position, and after it.
HeadAt(lines, p) == Upto(lines, p[1]) \o SubSeq(lines[p[1] + 1], 1, p[2])

TailAt(lines, p) ==
  SubSeq(lines[p[1] + 1], p[2] + 1, Len(lines[p[1] + 1]))
    \o Post(SubSeq(lines, p[1] + 2, Len(lines)))

LEMMA NextLine ==
  ASSUME NEW U, Edit!Newline \in U, NEW ss \in Seq(Seq(U)), NEW k \in Nat, k < Len(ss)
  PROVE  /\ SubSeq(ss, 1, k) \in Seq(Seq(U)) /\ ss[k + 1] \in Seq(U)
         /\ SubSeq(ss, 1, k + 1) = Append(SubSeq(ss, 1, k), ss[k + 1])
         /\ SubSeq(ss, k + 2, Len(ss)) \in Seq(Seq(U))
         /\ ss = Append(SubSeq(ss, 1, k), ss[k + 1]) \o SubSeq(ss, k + 2, Len(ss))
<1>1. PICK V : V = Seq(U)
  OBVIOUS
<1>2. PICK n \in Nat, m \in Nat : n = Len(ss) /\ m = k + 1
  OBVIOUS
<1>3. ss \in Seq(V)
  BY <1>1
<1>4. 1 \in 1..n /\ m \in 1..n /\ 0 \in 0..n /\ k \in 0..n /\ m \in 0..n /\ n \in m..n /\ m - 1 = k /\ 0 + 1 = 1
  BY <1>2
<1>5. ss[m] \in V
  BY <1>2, <1>3, <1>4, ElementOfSeq
<1>6. SubSeq(ss, 0 + 1, k) \in Seq(V)
  BY <1>2, <1>3, <1>4, PartIs
<1>7. PICK A \in Seq(V) : A = SubSeq(ss, 1, k)
  BY <1>4, <1>6
<1>8. SubSeq(ss, 1, m) = SubSeq(ss, 1, m - 1) \o <<ss[m]>>
  <2>1. m \in 1..Len(ss) /\ 1 \in 1..Len(ss)
    BY <1>2, <1>4
  <2> QED
    BY <1>3, <2>1, SubSeqRecursiveSecond
<1>9. Append(A, ss[m]) = A \o <<ss[m]>>
  BY <1>5, AppendIsConcat
<1>10. SubSeq(ss, m + 1, n) \in Seq(V)
  BY <1>2, <1>3, <1>4, PartIs
<1>11. ss = SubSeq(ss, 1, m) \o SubSeq(ss, m + 1, n)
  BY <1>2, <1>3, <1>4, TwoParts
<1>12. m + 1 = k + 2
  BY <1>2
<1> QED
  BY <1>1, <1>2, <1>4, <1>5, <1>6, <1>7, <1>8, <1>9, <1>10, <1>11, <1>12, Zenon

LEMMA UptoIs ==
  ASSUME NEW U, Edit!Newline \in U, NEW ss \in Seq(Seq(U)), NEW k \in Nat, k < Len(ss)
  PROVE  /\ Upto(ss, 0) = <<>> /\ Upto(ss, k) \in Seq(U)
         /\ StartOf(ss, 0) = 0 /\ StartOf(ss, k) \in Nat /\ Len(ss[k + 1]) \in Nat
         /\ StartOf(ss, k + 1) = StartOf(ss, k) + Len(ss[k + 1]) + 1
<1>1. PICK V : V = Seq(U)
  OBVIOUS
<1>2. /\ SubSeq(ss, 1, k) \in Seq(V) /\ ss[k + 1] \in V
      /\ SubSeq(ss, 1, k + 1) = Append(SubSeq(ss, 1, k), ss[k + 1])
  BY <1>1, NextLine
<1>3. PICK A \in Seq(V), x \in V : A = SubSeq(ss, 1, k) /\ x = ss[k + 1]
  BY <1>2
<1>4. Upto(ss, 0) = <<>>
  <2>1. SubSeq(ss, 1, 0) = <<>>
    BY SubSeqEmpty
  <2> QED
    BY <2>1, Zenon DEF Upto, Pre
<1>5. Pre(A) \in Seq(U) /\ Edit!Flat(Append(A, x)) = Pre(A) \o x
  BY <1>1, PreIs, Zenon
<1>6. Append(A, x) # <<>>
  BY AppendProperties
<1>7. Pre(Append(A, x)) = Pre(A) \o x \o <<Edit!Newline>>
  BY <1>5, <1>6, Zenon DEF Pre
<1>8. PICK q \in Seq(U) : q = Pre(A) \o x /\ Len(q) = Len(Pre(A)) + Len(x)
  BY <1>1, <1>5, ConcatProperties
<1>9. PICK o \in Seq(U) : o = <<Edit!Newline>> /\ Len(o) = 1
  <2>1. <<Edit!Newline>> \in Seq(U) /\ Len(<<Edit!Newline>>) = 1
    BY Single
  <2> QED
    BY <2>1
<1>10. Len(q \o o) = Len(q) + Len(o)
  BY ConcatProperties
<1>11. Len(Pre(Append(A, x))) = Len(Pre(A)) + Len(x) + 1
  BY <1>7, <1>8, <1>9, <1>10
<1>12. StartOf(ss, 0) = 0
  BY <1>4 DEF StartOf
<1>13. Len(x) \in Nat /\ Len(Pre(A)) \in Nat
  BY <1>1, <1>5
<1> QED
  BY <1>2, <1>3, <1>4, <1>5, <1>11, <1>12, <1>13, Zenon DEF Upto, StartOf

\* The text of lines around one.
Around(A, x, B) == Edit!Flat(Append(A, x) \o B) = Pre(A) \o x \o Post(B)

LEMMA AroundIs ==
  ASSUME NEW U, Edit!Newline \in U, NEW A \in Seq(Seq(U)), NEW x \in Seq(U), NEW B \in Seq(Seq(U))
  PROVE  Around(A, x, B)
BY FlatAround DEF Around

\* A text parts in two at every position.
LEMMA PartsAt ==
  ASSUME NEW U, Edit!Newline \in U, NEW ss \in Seq(Seq(U)), NEW p, IsPosition(ss, p)
  PROVE  /\ HeadAt(ss, p) \in Seq(U) /\ TailAt(ss, p) \in Seq(U)
         /\ Len(HeadAt(ss, p)) = StartOf(ss, p[1]) + p[2]
         /\ Edit!Flat(ss) = HeadAt(ss, p) \o TailAt(ss, p)
<1>1. PICK V, k, c : V = Seq(U) /\ k = p[1] /\ c = p[2]
  OBVIOUS
<1>2. k \in Nat /\ c \in Nat /\ k < Len(ss) /\ c <= Len(ss[k + 1])
  BY <1>1 DEF IsPosition
<1>3. /\ SubSeq(ss, 1, k) \in Seq(V) /\ ss[k + 1] \in V
      /\ SubSeq(ss, k + 2, Len(ss)) \in Seq(V)
      /\ ss = Append(SubSeq(ss, 1, k), ss[k + 1]) \o SubSeq(ss, k + 2, Len(ss))
  BY <1>1, <1>2, NextLine
<1>4. PICK A \in Seq(V), x \in V, B \in Seq(V) :
        A = SubSeq(ss, 1, k) /\ x = ss[k + 1] /\ B = SubSeq(ss, k + 2, Len(ss))
  BY <1>3
<1>5. Edit!Flat(Append(A, x) \o B) = Pre(A) \o x \o Post(B)
  <2>1. A \in Seq(Seq(U)) /\ x \in Seq(U) /\ B \in Seq(Seq(U))
    BY <1>1
  <2>2. Around(A, x, B)
    BY <2>1, AroundIs
  <2> QED
    BY <2>2, Zenon DEF Around
<1>6. PICK u \in Seq(U), v \in Seq(U) : u = Pre(A) /\ v = Post(B)
  BY <1>1, PreIs
<1>7. x \in Seq(U) /\ Len(x) \in Nat /\ c \in 0..Len(x) /\ 0 \in 0..Len(x) /\ Len(x) \in c..Len(x)
  BY <1>1, <1>2, <1>4
<1>8. PICK y \in Seq(U), z \in Seq(U) : /\ y = SubSeq(x, 1, c) /\ z = SubSeq(x, c + 1, Len(x))
                                        /\ Len(y) = c
  <2>1. SubSeq(x, c + 1, Len(x)) \in Seq(U)
    BY <1>7, PartIs
  <2>2. SubSeq(x, 0 + 1, c) \in Seq(U) /\ Len(SubSeq(x, 0 + 1, c)) = c - 0
    BY <1>7, PartIs
  <2>3. 0 + 1 = 1 /\ c - 0 = c
    BY <1>7
  <2> QED
    BY <2>1, <2>2, <2>3, Zenon
<1>9. x = y \o z
  BY <1>7, <1>8, TwoParts
<1>10. u \o y \in Seq(U) /\ z \o v \in Seq(U) /\ Len(u \o y) = Len(u) + Len(y)
  BY ConcatProperties
<1>11. Associates(u, y, z)
  BY Association
<1>12. Associates(u \o y, z, v)
  BY <1>10, Association
<1>13. Edit!Flat(ss) = (u \o y) \o (z \o v)
  BY <1>3, <1>4, <1>5, <1>6, <1>9, <1>11, <1>12, Zenon DEF Associates
<1>14. HeadAt(ss, p) = u \o y /\ TailAt(ss, p) = z \o v
  BY <1>1, <1>4, <1>6, <1>8, Zenon DEF HeadAt, TailAt, Upto
<1>15. StartOf(ss, p[1]) = Len(u)
  BY <1>1, <1>4, <1>6, Zenon DEF StartOf, Upto
<1>16. Len(u \o y) = StartOf(ss, p[1]) + p[2]
  BY <1>1, <1>8, <1>10, <1>15, Zenon
<1> QED
  BY <1>10, <1>13, <1>14, <1>16, Zenon

LEMMA OffsetIs ==
  ASSUME NEW U, Edit!Newline \in U, NEW ss \in Seq(Seq(U)), NEW p, IsPosition(ss, p)
  PROVE  Edit!OffsetOf(ss, p) = StartOf(ss, p[1]) + p[2]
<1>1. PICK V, k : V = Seq(U) /\ k = p[1]
  OBVIOUS
<1>2. k \in Nat /\ p[2] \in Nat /\ k < Len(ss)
  BY <1>1 DEF IsPosition
<1>3. PICK A : A = SubSeq(ss, 1, k)
  OBVIOUS
<1>4. A \in Seq(V) /\ Len(A) = k
  <2>1. ss \in Seq(V) /\ 0 \in 0..Len(ss) /\ k \in 0..Len(ss)
    BY <1>1, <1>2
  <2>2. SubSeq(ss, 0 + 1, k) \in Seq(V) /\ Len(SubSeq(ss, 0 + 1, k)) = k - 0
    BY <2>1, PartIs
  <2>3. 0 + 1 = 1 /\ k - 0 = k
    BY <1>2
  <2> QED
    BY <1>3, <2>2, <2>3, Zenon
<1>5. PICK f \in Seq(U) : f = Edit!Flat(A)
  BY <1>1, <1>4, FlatIs
<1>6. Edit!OffsetOf(ss, p) = Len(f) + (IF k > 0 THEN 1 ELSE 0) + p[2]
  BY <1>1, <1>3, <1>5, Zenon DEF Edit!OffsetOf
<1>7. Len(Pre(A)) = Len(f) + (IF k > 0 THEN 1 ELSE 0)
  <2>1. CASE A = <<>>
    <3>1. k = 0
      BY <1>4, <2>1
    <3>2. Pre(A) = <<>> /\ f = <<>>
      BY <1>5, <2>1, FlatIs, Zenon DEF Pre
    <3> QED
      BY <3>1, <3>2
  <2>2. CASE A # <<>>
    <3>1. k > 0
      BY <1>2, <1>4, <2>2, EmptySeq
    <3>2. Pre(A) = f \o <<Edit!Newline>>
      BY <1>5, <2>2, Zenon DEF Pre
    <3>3. PICK o \in Seq(U) : o = <<Edit!Newline>> /\ Len(o) = 1
      <4>1. <<Edit!Newline>> \in Seq(U) /\ Len(<<Edit!Newline>>) = 1
        BY Single
      <4> QED
        BY <4>1
    <3>4. Len(f \o o) = Len(f) + Len(o)
      BY ConcatProperties
    <3> QED
      BY <3>1, <3>2, <3>3, <3>4
  <2> QED
    BY <2>1, <2>2
<1>8. StartOf(ss, p[1]) = Len(Pre(A))
  BY <1>1, <1>3, Zenon DEF StartOf, Upto
<1> QED
  BY <1>6, <1>7, <1>8

LEMMA StartsGrow ==
  ASSUME NEW U, Edit!Newline \in U, NEW ss \in Seq(Seq(U)), NEW k \in Nat, k < Len(ss),
         NEW i \in Nat, i < k
  PROVE  StartOf(ss, i) + Len(ss[i + 1]) + 1 <= StartOf(ss, k)
<1>1. PICK T \in SUBSET Nat :
        T = {n \in Nat : n < Len(ss) /\ i < n => StartOf(ss, i) + Len(ss[i + 1]) + 1 <= StartOf(ss, n)}
  OBVIOUS
<1>2. 0 \in T
  BY <1>1
<1>3. ASSUME NEW n \in T PROVE n + 1 \in T
  <2> SUFFICES ASSUME n + 1 < Len(ss), i < n + 1
               PROVE  StartOf(ss, i) + Len(ss[i + 1]) + 1 <= StartOf(ss, n + 1)
    BY <1>1
  <2>1. n < Len(ss) /\ i < Len(ss) /\ n \in Nat
    OBVIOUS
  <2>2. /\ StartOf(ss, n) \in Nat /\ Len(ss[n + 1]) \in Nat
        /\ StartOf(ss, n + 1) = StartOf(ss, n) + Len(ss[n + 1]) + 1
    BY <2>1, UptoIs
  <2>3. StartOf(ss, i) \in Nat /\ Len(ss[i + 1]) \in Nat
    BY <2>1, UptoIs
  <2>4. CASE i = n
    BY <2>2, <2>4
  <2>5. CASE i # n
    <3>1. i < n
      BY <2>5
    <3>2. StartOf(ss, i) + Len(ss[i + 1]) + 1 <= StartOf(ss, n)
      BY <1>1, <2>1, <3>1
    <3>3. PICK a, b, c, d : /\ a = StartOf(ss, i) + Len(ss[i + 1]) + 1 /\ b = StartOf(ss, n)
                            /\ c = Len(ss[n + 1]) /\ d = StartOf(ss, n + 1)
      OBVIOUS
    <3>4. a \in Nat /\ b \in Nat /\ c \in Nat /\ d = b + c + 1 /\ a <= b
      <4>1. d = b + c + 1 /\ a <= b
        BY <2>2, <3>2, <3>3, Zenon
      <4>2. b \in Nat /\ c \in Nat
        BY <2>2, <3>3
      <4>3. a \in Nat
        BY <2>3, <3>3
      <4> QED
        BY <4>1, <4>2, <4>3
    <3>5. a <= d
      BY <3>4
    <3> QED
      BY <3>3, <3>5, Zenon
  <2> QED
    BY <2>4, <2>5
<1>4. T = Nat
  BY <1>2, <1>3, Induction
<1> QED
  BY <1>1, <1>4

\* The place of a position in the text.
Place(ss, p) == StartOf(ss, p[1]) + p[2]

LEMMA PlaceIs ==
  ASSUME NEW U, Edit!Newline \in U, NEW ss \in Seq(Seq(U)), NEW p, IsPosition(ss, p)
  PROVE  /\ Place(ss, p) = Edit!OffsetOf(ss, p) /\ Place(ss, p) \in Nat
         /\ Place(ss, p) <= Len(Edit!Flat(ss)) /\ Len(Edit!Flat(ss)) \in Nat
<1>1. Place(ss, p) = Edit!OffsetOf(ss, p)
  BY OffsetIs DEF Place
<1>2. PICK h \in Seq(U), t \in Seq(U) :
        h = HeadAt(ss, p) /\ t = TailAt(ss, p) /\ Len(h) = Place(ss, p) /\ Edit!Flat(ss) = h \o t
  BY PartsAt DEF Place
<1>3. Len(h \o t) = Len(h) + Len(t) /\ Len(h) \in Nat /\ Len(t) \in Nat
  BY ConcatProperties
<1> QED
  BY <1>1, <1>2, <1>3

\* Positions have the order of their places.
LEMMA PlacesOrdered ==
  ASSUME NEW U, Edit!Newline \in U, NEW ss \in Seq(Seq(U)), NEW p, NEW q,
         IsPosition(ss, p), IsPosition(ss, q)
  PROVE  Edit!Before(p, q) <=> Place(ss, p) < Place(ss, q)
<1>1. PICK k, c, l, d : k = p[1] /\ c = p[2] /\ l = q[1] /\ d = q[2]
  OBVIOUS
<1>2. /\ k \in Nat /\ c \in Nat /\ k < Len(ss) /\ c <= Len(ss[k + 1])
      /\ l \in Nat /\ d \in Nat /\ l < Len(ss) /\ d <= Len(ss[l + 1])
  BY <1>1 DEF IsPosition
<1>3. /\ StartOf(ss, k) \in Nat /\ Len(ss[k + 1]) \in Nat
      /\ StartOf(ss, l) \in Nat /\ Len(ss[l + 1]) \in Nat
  BY <1>2, UptoIs
<1>4. k < l => StartOf(ss, k) + Len(ss[k + 1]) + 1 <= StartOf(ss, l)
  BY <1>2, StartsGrow
<1>5. l < k => StartOf(ss, l) + Len(ss[l + 1]) + 1 <= StartOf(ss, k)
  BY <1>2, StartsGrow
<1>6. k = l => StartOf(ss, k) = StartOf(ss, l)
  OBVIOUS
<1>7. (k < l \/ (k = l /\ c < d)) <=> StartOf(ss, k) + c < StartOf(ss, l) + d
  <2>1. PICK a, b, m, n : a = StartOf(ss, k) /\ b = StartOf(ss, l) /\ m = Len(ss[k + 1]) /\ n = Len(ss[l + 1])
    OBVIOUS
  <2>2. a \in Nat /\ b \in Nat /\ m \in Nat /\ n \in Nat /\ c <= m /\ d <= n
    BY <1>2, <1>3, <2>1
  <2>3. (k < l => a + m + 1 <= b) /\ (l < k => b + n + 1 <= a) /\ (k = l => a = b)
    BY <1>4, <1>5, <1>6, <2>1
  <2>4. (k < l \/ (k = l /\ c < d)) <=> a + c < b + d
    BY <1>2, <2>2, <2>3
  <2> QED
    BY <2>1, <2>4, Zenon
<1> QED
  BY <1>1, <1>7, Zenon DEF Edit!Before, Place

-----------------------------------------------------------------------------
(* The edits of the document                                                 *)

Char == Plain \cup {Edit!Newline}

\* The new texts without a "\r".
PlainTexts == {t \in Texts : t \in Seq(Seq(Plain))}

EditsInv ==
  /\ doc \in Seq(Seq(Plain))
  /\ edits \in Seq([start : Positions, end : Positions, text : PlainTexts])
  /\ \A i \in DOMAIN edits : ~Edit!Before(edits[i].end, edits[i].start)

\* The edits as they change the text of the document.
Changes ==
  [size |-> Len(edits), old |-> Edit!Flat(doc),
   from |-> [i \in DOMAIN edits |-> Edit!OffsetOf(doc, edits[i].start)],
   to   |-> [i \in DOMAIN edits |-> Edit!OffsetOf(doc, edits[i].end)],
   text |-> [i \in DOMAIN edits |-> Edit!Flat(edits[i].text)]]

LEMMA LinesOfChar ==
  ASSUME NEW ss \in Seq(Seq(Plain))
  PROVE  ss \in Seq(Seq(Char))
<1>1. PICK A, B : A = Seq(Plain) /\ B = Seq(Char)
  OBVIOUS
<1>2. A \subseteq B
  <2>1. Plain \subseteq Char
    BY DEF Char
  <2>2. \A s \in Seq(Plain) : s \in Seq(Char)
    BY <2>1, SeqMonotonic
  <2> QED
    BY <1>1, <2>2
<1>3. ss \in Seq(A)
  BY <1>1
<1>4. ss \in Seq(B)
  BY <1>2, <1>3, SeqMonotonic
<1> QED
  BY <1>1, <1>4

LEMMA PositionsAre ==
  ASSUME EditsInv, NEW p \in Positions
  PROVE  IsPosition(doc, p)
<1>1. PICK i \in DOMAIN doc : p \in {<<i - 1, c>> : c \in 0..Len(doc[i])}
  BY DEF Positions
<1>2. PICK c \in 0..Len(doc[i]) : p = <<i - 1, c>>
  BY <1>1
<1>3. i \in 1..Len(doc) /\ Len(doc) \in Nat
  BY DEF EditsInv
<1>4. doc[i] \in Seq(Plain)
  <2>1. PICK V : V = Seq(Plain)
    OBVIOUS
  <2>2. doc \in Seq(V)
    BY <2>1 DEF EditsInv
  <2>3. doc[i] \in V
    BY <1>3, <2>2, ElementOfSeq
  <2> QED
    BY <2>1, <2>3
<1>5. Len(doc[i]) \in Nat
  BY <1>4
<1>6. p[1] = i - 1 /\ p[2] = c /\ p[1] + 1 = i
  BY <1>2, <1>3
<1> QED
  BY <1>3, <1>5, <1>6 DEF IsPosition

LEMMA EditIs ==
  ASSUME EditsInv, NEW i \in DOMAIN edits
  PROVE  /\ DOMAIN edits = 1..Len(edits) /\ Len(edits) \in Nat /\ doc \in Seq(Seq(Char))
         /\ IsPosition(doc, edits[i].start) /\ IsPosition(doc, edits[i].end)
         /\ Changes.from[i] = Place(doc, edits[i].start)
         /\ Changes.to[i] = Place(doc, edits[i].end)
         /\ edits[i].text \in Seq(Seq(Char)) /\ edits[i].text # <<>>
         /\ Changes.text[i] = Edit!Flat(edits[i].text) /\ Changes.text[i] \in Seq(Char)
         /\ Place(doc, edits[i].start) <= Place(doc, edits[i].end)
<1>1. PICK E : E = [start : Positions, end : Positions, text : PlainTexts]
  OBVIOUS
<1>2. edits \in Seq(E)
  BY <1>1 DEF EditsInv
<1>3. DOMAIN edits = 1..Len(edits) /\ Len(edits) \in Nat
  BY <1>2, LenProperties
<1>4. edits[i] \in E
  BY <1>2, <1>3, ElementOfSeq
<1>5. edits[i].start \in Positions /\ edits[i].end \in Positions /\ edits[i].text \in PlainTexts
  BY <1>1, <1>4
<1>6. doc \in Seq(Seq(Char))
  BY LinesOfChar DEF EditsInv
<1>7. IsPosition(doc, edits[i].start) /\ IsPosition(doc, edits[i].end)
  BY <1>5, PositionsAre
<1>8. Edit!Newline \in Char
  BY DEF Char
<1>9. Changes.from[i] = Place(doc, edits[i].start) /\ Changes.to[i] = Place(doc, edits[i].end)
  BY <1>6, <1>7, <1>8, PlaceIs DEF Changes
<1>10. edits[i].text \in Seq(Seq(Char)) /\ edits[i].text # <<>>
  <2>1. edits[i].text \in Seq(Seq(Plain)) /\ edits[i].text # <<>>
    BY <1>5, AlgorithmsAssumption DEF PlainTexts
  <2> QED
    BY <2>1, LinesOfChar
<1>11. Changes.text[i] = Edit!Flat(edits[i].text)
  BY DEF Changes
<1>12. Edit!Flat(edits[i].text) \in Seq(Char)
  BY <1>8, <1>10, FlatIs
<1>13. Place(doc, edits[i].start) <= Place(doc, edits[i].end)
  <2>1. ~Edit!Before(edits[i].end, edits[i].start)
    BY DEF EditsInv
  <2>2. ~(Place(doc, edits[i].end) < Place(doc, edits[i].start))
    BY <1>6, <1>7, <1>8, <2>1, PlacesOrdered
  <2>3. Place(doc, edits[i].end) \in Nat /\ Place(doc, edits[i].start) \in Nat
    BY <1>6, <1>7, <1>8, PlaceIs
  <2> QED
    BY <2>2, <2>3
<1> QED
  BY <1>3, <1>6, <1>7, <1>9, <1>10, <1>11, <1>12, <1>13

LEMMA ChangesAre ==
  ASSUME EditsInv
  PROVE  /\ Edits(Char, Changes) /\ Changes.size = Len(edits) /\ Changes.old = Edit!Flat(doc)
         /\ DOMAIN edits = 1..Len(edits)
<1>1. PICK E : E = [start : Positions, end : Positions, text : PlainTexts]
  OBVIOUS
<1>2. edits \in Seq(E)
  BY <1>1 DEF EditsInv
<1>3. DOMAIN edits = 1..Len(edits) /\ Len(edits) \in Nat
  BY <1>2, LenProperties
<1>4. Edit!Newline \in Char /\ doc \in Seq(Seq(Char))
  BY LinesOfChar DEF Char, EditsInv
<1>5. Edit!Flat(doc) \in Seq(Char)
  BY <1>4, FlatIs
<1>6. Changes.size = Len(edits) /\ Changes.old = Edit!Flat(doc)
  BY DEF Changes
<1>7. ASSUME NEW j \in 1..Changes.size
      PROVE  /\ Changes.from[j] \in Nat /\ Changes.to[j] \in Nat
             /\ Changes.from[j] <= Changes.to[j] /\ Changes.to[j] <= Len(Changes.old)
             /\ Changes.text[j] \in Seq(Char)
  <2>1. j \in DOMAIN edits
    BY <1>3, <1>6
  <2>2. /\ IsPosition(doc, edits[j].start) /\ IsPosition(doc, edits[j].end)
        /\ Changes.from[j] = Place(doc, edits[j].start)
        /\ Changes.to[j] = Place(doc, edits[j].end)
        /\ Changes.text[j] \in Seq(Char)
        /\ Place(doc, edits[j].start) <= Place(doc, edits[j].end)
    BY <2>1, EditIs
  <2>3. /\ Place(doc, edits[j].start) \in Nat /\ Place(doc, edits[j].end) \in Nat
        /\ Place(doc, edits[j].end) <= Len(Edit!Flat(doc))
    BY <1>4, <2>2, PlaceIs
  <2> QED
    BY <1>6, <2>2, <2>3
<1>8. Edits(Char, Changes)
  BY <1>3, <1>5, <1>6, <1>7 DEF Edits
<1> QED
  BY <1>3, <1>6, <1>8

\* The edits of D; the others do nothing.
Masked(D) == [j \in DOMAIN edits |-> IF j \in D THEN edits[j] ELSE Edit!Nothing]

\* The texts of the edits that start at a place, and whether it is removed.
TextsAt(lines, es, o) ==
  [i \in DOMAIN es |-> IF Edit!OffsetOf(lines, es[i].start) = o THEN Edit!Flat(es[i].text) ELSE <<>>]

GoneAt(lines, es, o) ==
  \E i \in DOMAIN es : /\ Edit!OffsetOf(lines, es[i].start) <= o
                       /\ o < Edit!OffsetOf(lines, es[i].end)

LEMMA Simultaneous ==
  ASSUME NEW lines, NEW es
  PROVE  Edit!Simultaneously(lines, es) =
           PutTogether([n \in 1..(Len(Edit!Flat(lines)) + 1) |->
             PutTogether(TextsAt(lines, es, n - 1))
               \o (IF n > Len(Edit!Flat(lines)) \/ GoneAt(lines, es, n - 1) THEN <<>>
                   ELSE <<Edit!Flat(lines)[n]>>)])
BY Zenon DEF Edit!Simultaneously, TextsAt, GoneAt, PutTogether

LEMMA NothingIs ==
  /\ Edit!OffsetOf(doc, Edit!Nothing.start) = 0 /\ Edit!OffsetOf(doc, Edit!Nothing.end) = 0
  /\ Edit!Flat(Edit!Nothing.text) = <<>>
<1>1. PICK z : z = <<0, 0>>
  OBVIOUS
<1>2. z[1] = 0 /\ z[2] = 0
  BY <1>1
<1>3. Edit!Nothing.start = z /\ Edit!Nothing.end = z /\ Edit!Nothing.text = << <<>> >>
  BY <1>1 DEF Edit!Nothing
<1>4. Edit!Flat(<<>>) = <<>>
  <2>1. Edit!Newline \in Char
    BY DEF Char
  <2> QED
    BY <2>1, FlatIs
<1>5. SubSeq(doc, 1, 0) = <<>>
  BY SubSeqEmpty
<1>6. Edit!OffsetOf(doc, z) = Len(<<>>) + (IF 0 > 0 THEN 1 ELSE 0) + 0
  BY <1>2, <1>4, <1>5, Zenon DEF Edit!OffsetOf
<1>7. Edit!OffsetOf(doc, z) = 0
  BY <1>6
<1>8. Edit!Flat(<< <<>> >>) = <<>>
  <2>1. PICK U : U = Char
    OBVIOUS
  <2>2. <<>> \in Seq(Seq(U)) /\ <<>> \in Seq(U) /\ Edit!Newline \in U
    BY <2>1 DEF Char
  <2>3. Edit!Flat(Append(<<>>, <<>>)) = Edit!Flat(<<>>) \o <<>>
    BY <2>2, FlatIs, Zenon
  <2>4. Append(<<>>, <<>>) = << <<>> >> /\ <<>> \o <<>> = <<>>
    OBVIOUS
  <2> QED
    BY <1>4, <2>3, <2>4, Zenon
<1> QED
  BY <1>3, <1>7, <1>8, Zenon

LEMMA SimultaneousIs ==
  ASSUME EditsInv, NEW D \in SUBSET DOMAIN edits
  PROVE  Edit!Simultaneously(doc, Masked(D)) = Made(Changes, D)
<1>1. PICK m, p, N : m = Masked(D) /\ p = Changes /\ N = Len(Edit!Flat(doc))
  OBVIOUS
<1>2. /\ Edits(Char, p) /\ p.size = Len(edits) /\ p.old = Edit!Flat(doc) /\ DOMAIN edits = 1..Len(edits)
  BY <1>1, ChangesAre
<1>3. DOMAIN m = DOMAIN edits /\ DOMAIN m = 1..p.size
  BY <1>1, <1>2 DEF Masked
<1>4. ASSUME NEW j \in D
      PROVE  /\ Edit!OffsetOf(doc, m[j].start) = p.from[j]
             /\ Edit!OffsetOf(doc, m[j].end) = p.to[j]
             /\ Edit!Flat(m[j].text) = p.text[j]
  <2>1. j \in DOMAIN edits
    OBVIOUS
  <2>2. m[j] = edits[j]
    BY <1>1, <2>1 DEF Masked
  <2> QED
    BY <1>1, <2>1, <2>2 DEF Changes
<1>5. ASSUME NEW j \in DOMAIN edits, j \notin D
      PROVE  /\ Edit!OffsetOf(doc, m[j].start) = 0 /\ Edit!OffsetOf(doc, m[j].end) = 0
             /\ Edit!Flat(m[j].text) = <<>>
  <2>1. m[j] = Edit!Nothing
    BY <1>1, <1>5 DEF Masked
  <2> QED
    BY <2>1, NothingIs, Zenon
<1>6. ASSUME NEW o \in Nat PROVE TextsAt(doc, m, o) = NewTexts(p, D, o)
  <2>1. ASSUME NEW j \in DOMAIN m
        PROVE  (IF Edit!OffsetOf(doc, m[j].start) = o THEN Edit!Flat(m[j].text) ELSE <<>>)
                 = (IF j \in D /\ p.from[j] = o THEN p.text[j] ELSE <<>>)
    <3>1. CASE j \in D
      BY <1>4, <3>1, Zenon
    <3>2. CASE j \notin D
      BY <1>3, <1>5, <3>2, Zenon
    <3> QED
      BY <3>1, <3>2
  <2> QED
    BY <1>3, <2>1, Zenon DEF TextsAt, NewTexts
<1>7. ASSUME NEW o \in Nat PROVE GoneAt(doc, m, o) <=> Removed(p, D, o)
  <2>1. GoneAt(doc, m, o) => Removed(p, D, o)
    <3> SUFFICES ASSUME NEW j \in DOMAIN m, Edit!OffsetOf(doc, m[j].start) <= o,
                        o < Edit!OffsetOf(doc, m[j].end)
                 PROVE  Removed(p, D, o)
      BY DEF GoneAt
    <3>1. j \in D
      <4> SUFFICES ASSUME j \notin D PROVE FALSE
        OBVIOUS
      <4>1. Edit!OffsetOf(doc, m[j].end) = 0
        BY <1>3, <1>5
      <4> QED
        BY <4>1
    <3> QED
      BY <1>4, <3>1 DEF Removed
  <2>2. Removed(p, D, o) => GoneAt(doc, m, o)
    BY <1>3, <1>4 DEF Removed, GoneAt
  <2> QED
    BY <2>1, <2>2
<1>8. ASSUME NEW n \in 1..(N + 1)
      PROVE  PutTogether(TextsAt(doc, m, n - 1))
               \o (IF n > N \/ GoneAt(doc, m, n - 1) THEN <<>> ELSE <<Edit!Flat(doc)[n]>>)
             = Cell(p, D, n)
  <2>1. n - 1 \in Nat
    OBVIOUS
  <2>2. TextsAt(doc, m, n - 1) = NewTexts(p, D, n - 1)
    BY <1>6, <2>1
  <2>3. GoneAt(doc, m, n - 1) <=> Removed(p, D, n - 1)
    BY <1>7, <2>1
  <2> QED
    BY <1>1, <1>2, <2>2, <2>3, Zenon DEF Cell, OldText
<1>9. Edit!Simultaneously(doc, m) =
        PutTogether([n \in 1..(N + 1) |->
          PutTogether(TextsAt(doc, m, n - 1))
            \o (IF n > N \/ GoneAt(doc, m, n - 1) THEN <<>> ELSE <<Edit!Flat(doc)[n]>>)])
  BY <1>1, Simultaneous, Zenon
<1>10. Made(p, D) = PutTogether([n \in 1..(N + 1) |-> Cell(p, D, n)])
  BY <1>1, <1>2, Zenon DEF Made, Cells
<1>11. Edit!Simultaneously(doc, m) = Made(p, D)
  BY <1>8, <1>9, <1>10, Zenon
<1> QED
  BY <1>1, <1>11, Zenon

LEMMA AllSimultaneous ==
  ASSUME EditsInv
  PROVE  Edit!Simultaneously(doc, edits) = Made(Changes, DOMAIN edits)
<1>1. PICK E : E = [start : Positions, end : Positions, text : PlainTexts]
  OBVIOUS
<1>2. edits \in Seq(E)
  BY <1>1 DEF EditsInv
<1>3. edits = [j \in DOMAIN edits |-> edits[j]]
  BY <1>2
<1>4. Masked(DOMAIN edits) = edits
  BY <1>3, Zenon DEF Masked
<1>5. DOMAIN edits \in SUBSET DOMAIN edits
  OBVIOUS
<1>6. Edit!Simultaneously(doc, Masked(DOMAIN edits)) = Made(Changes, DOMAIN edits)
  BY <1>5, SimultaneousIs
<1> QED
  BY <1>4, <1>6, Zenon

\* Edits overlap when each starts before the other ends.
LEMMA OverlapsAre ==
  ASSUME EditsInv, NEW i \in DOMAIN edits, NEW j \in DOMAIN edits
  PROVE  Edit!rangesOverlap(edits[i], edits[j])
           <=> Changes.from[i] < Changes.to[j] /\ Changes.from[j] < Changes.to[i]
<1>1. PICK e, f : e = edits[i] /\ f = edits[j]
  OBVIOUS
<1>2. /\ doc \in Seq(Seq(Char)) /\ Edit!Newline \in Char
      /\ IsPosition(doc, e.start) /\ IsPosition(doc, e.end)
      /\ IsPosition(doc, f.start) /\ IsPosition(doc, f.end)
  BY <1>1, EditIs DEF Char
<1>3. /\ Changes.from[i] = Place(doc, e.start) /\ Changes.to[i] = Place(doc, e.end)
      /\ Changes.from[j] = Place(doc, f.start) /\ Changes.to[j] = Place(doc, f.end)
  BY <1>1, EditIs
<1>4. Edit!Before(e.start, f.end) <=> Changes.from[i] < Changes.to[j]
  BY <1>2, <1>3, PlacesOrdered
<1>5. Edit!Before(f.start, e.end) <=> Changes.from[j] < Changes.to[i]
  BY <1>2, <1>3, PlacesOrdered
<1>6. PICK a, b, c, d : a = e.start /\ b = e.end /\ c = f.start /\ d = f.end
  OBVIOUS
<1>7. /\ a[1] \in Nat /\ a[2] \in Nat /\ b[1] \in Nat /\ b[2] \in Nat
      /\ c[1] \in Nat /\ c[2] \in Nat /\ d[1] \in Nat /\ d[2] \in Nat
  BY <1>2, <1>6 DEF IsPosition
<1>8. Edit!rangesOverlap(e, f) <=> Edit!Before(a, d) /\ Edit!Before(c, b)
  <2>1. Edit!rangesOverlap(e, f)
          <=> ~(\/ a[1] > d[1] \/ c[1] > b[1]
                \/ a[1] = d[1] /\ a[2] >= d[2]
                \/ c[1] = b[1] /\ c[2] >= b[2])
    BY <1>6, Zenon DEF Edit!rangesOverlap
  <2>2. Edit!Before(a, d) <=> (a[1] < d[1] \/ (a[1] = d[1] /\ a[2] < d[2]))
    BY DEF Edit!Before
  <2>3. Edit!Before(c, b) <=> (c[1] < b[1] \/ (c[1] = b[1] /\ c[2] < b[2]))
    BY DEF Edit!Before
  <2> QED
    BY <1>7, <2>1, <2>2, <2>3
<1> QED
  BY <1>1, <1>4, <1>5, <1>6, <1>8, Zenon

-----------------------------------------------------------------------------
(* One edit                                                                  *)

\* The parts an edit leaves: the last line it concerns, the beginning of the
\* first line and the end of the last; and what it puts in their place.
EndLine(lines, e) == IF e.end[1] >= Len(lines) THEN Len(lines) - 1 ELSE e.end[1]

Prefix(lines, e) ==
  SubSeq(lines[e.start[1] + 1], 1, Edit!Cut(lines[e.start[1] + 1], e.start[2]))

Suffix(lines, e) ==
  SubSeq(lines[EndLine(lines, e) + 1], Edit!Cut(lines[EndLine(lines, e) + 1], e.end[2]) + 1,
         Len(lines[EndLine(lines, e) + 1]))

Middle(p, text, s) ==
  IF Edit!Empty(text) THEN (IF p \o s = <<>> THEN <<>> ELSE <<p \o s>>)
  ELSE IF Len(text) = 1 THEN <<p \o text[1] \o s>>
  ELSE <<p \o text[1]>> \o SubSeq(text, 2, Len(text) - 1) \o <<text[Len(text)] \o s>>

LEMMA ApplyIs ==
  ASSUME NEW lines, NEW e
  PROVE  Edit!applyTextEdit(lines, e) =
           SubSeq(lines, 1, e.start[1])
             \o Middle(Prefix(lines, e), e.text, Suffix(lines, e))
             \o SubSeq(lines, EndLine(lines, e) + 2, Len(lines))
BY Zenon DEF Edit!applyTextEdit, EndLine, Prefix, Suffix, Middle

\* An edit as Algorithms has them, on any lines.
IsEdit(U, e) ==
  /\ e.start[1] \in Nat /\ e.start[2] \in Nat /\ e.end[1] \in Nat /\ e.end[2] \in Nat
  /\ e.text \in Seq(Seq(U)) /\ e.text # <<>>

LEMMA CutType ==
  ASSUME NEW U, NEW x \in Seq(U), NEW n \in Nat
  PROVE  /\ SubSeq(x, 1, Edit!Cut(x, n)) \in Seq(U)
         /\ SubSeq(x, Edit!Cut(x, n) + 1, Len(x)) \in Seq(U)
         /\ n <= Len(x) => Edit!Cut(x, n) = n
<1>1. PICK c \in 0..Len(x) : c = Edit!Cut(x, n) /\ (n <= Len(x) => c = n)
  <2>1. Len(x) \in Nat
    OBVIOUS
  <2>2. Edit!Cut(x, n) \in 0..Len(x) /\ (n <= Len(x) => Edit!Cut(x, n) = n)
    BY <2>1 DEF Edit!Cut
  <2> QED
    BY <2>2
<1>2. 0 \in 0..Len(x) /\ c \in 0..Len(x) /\ Len(x) \in c..Len(x) /\ 0 + 1 = 1
  OBVIOUS
<1>3. SubSeq(x, 0 + 1, c) \in Seq(U)
  BY <1>2, PartIs
<1>4. SubSeq(x, c + 1, Len(x)) \in Seq(U)
  BY <1>2, PartIs
<1> QED
  BY <1>1, <1>2, <1>3, <1>4, Zenon

LEMMA ApplyParts ==
  ASSUME NEW U, NEW lines \in Seq(Seq(U)), NEW e, IsEdit(U, e), e.start[1] < Len(lines)
  PROVE  /\ EndLine(lines, e) \in Nat /\ EndLine(lines, e) < Len(lines)
         /\ Prefix(lines, e) \in Seq(U) /\ Suffix(lines, e) \in Seq(U)
         /\ SubSeq(lines, 1, e.start[1]) \in Seq(Seq(U))
         /\ SubSeq(lines, EndLine(lines, e) + 2, Len(lines)) \in Seq(Seq(U))
<1>1. PICK V, n, k, l : V = Seq(U) /\ n = Len(lines) /\ k = e.start[1] /\ l = EndLine(lines, e)
  OBVIOUS
<1>2. lines \in Seq(V) /\ n \in Nat /\ k \in Nat /\ k < n
  BY <1>1 DEF IsEdit
<1>3. l \in Nat /\ l < n
  BY <1>1, <1>2 DEF EndLine, IsEdit
<1>4. k + 1 \in 1..n /\ l + 1 \in 1..n
  BY <1>2, <1>3
<1>5. lines[k + 1] \in V /\ lines[l + 1] \in V
  BY <1>1, <1>2, <1>4, ElementOfSeq
<1>6. PICK x \in Seq(U), y \in Seq(U) : x = lines[k + 1] /\ y = lines[l + 1]
  BY <1>1, <1>5
<1>7. SubSeq(x, 1, Edit!Cut(x, e.start[2])) \in Seq(U)
  BY CutType DEF IsEdit
<1>8. SubSeq(y, Edit!Cut(y, e.end[2]) + 1, Len(y)) \in Seq(U)
  BY CutType DEF IsEdit
<1>9. Prefix(lines, e) \in Seq(U) /\ Suffix(lines, e) \in Seq(U)
  BY <1>1, <1>6, <1>7, <1>8, Zenon DEF Prefix, Suffix
<1>10. 0 \in 0..n /\ k \in 0..n /\ 0 + 1 = 1 /\ l + 1 \in 0..n /\ n \in (l + 1)..n /\ l + 1 + 1 = l + 2
  BY <1>2, <1>3
<1>11. SubSeq(lines, 0 + 1, k) \in Seq(V)
  BY <1>1, <1>2, <1>10, PartIs
<1>12. SubSeq(lines, l + 1 + 1, n) \in Seq(V)
  BY <1>1, <1>2, <1>10, PartIs
<1> QED
  BY <1>1, <1>3, <1>9, <1>10, <1>11, <1>12, Zenon

\* A text of several lines: the first, those in between, and the last.
LEMMA TextIs ==
  ASSUME NEW U, NEW text \in Seq(Seq(U)), text # <<>>
  PROVE  /\ text[1] \in Seq(U) /\ text[Len(text)] \in Seq(U) /\ Len(text) \in Nat \ {0}
         /\ Len(text) = 1 => text = Append(<<>>, text[1])
         /\ Len(text) # 1 =>
              /\ SubSeq(text, 2, Len(text) - 1) \in Seq(Seq(U))
              /\ text = Append(Append(<<>>, text[1]) \o SubSeq(text, 2, Len(text) - 1), text[Len(text)])
<1>1. PICK V, n : V = Seq(U) /\ n = Len(text)
  OBVIOUS
<1>2. text \in Seq(V)
  BY <1>1
<1>3. n \in Nat \ {0}
  BY <1>1, <1>2, EmptySeq
<1>4. 1 \in 1..n /\ n \in 1..n
  BY <1>3
<1>5. PICK f \in V, g \in V : f = text[1] /\ g = text[n]
  <2>1. text[1] \in V /\ text[n] \in V
    BY <1>1, <1>2, <1>4, ElementOfSeq
  <2> QED
    BY <2>1
<1>6. Append(<<>>, f) = <<f>> /\ <<f>> \in Seq(V) /\ Len(<<f>>) = 1 /\ <<f>>[1] = f
  OBVIOUS
<1>7. n = 1 => text = Append(<<>>, f)
  <2> SUFFICES ASSUME n = 1 PROVE text = <<f>>
    BY <1>6
  <2>1. ASSUME NEW i \in 1..Len(text) PROVE text[i] = <<f>>[i]
    <3>0. Len(text) = 1
      BY <1>1, Zenon
    <3>1. i = 1
      BY <3>0
    <3> QED
      BY <1>5, <1>6, <3>1, Zenon
  <2> QED
    BY <1>1, <1>2, <1>6, <2>1, SeqEqual
<1>8. ASSUME n # 1
      PROVE  /\ SubSeq(text, 2, n - 1) \in Seq(V)
             /\ text = Append(Append(<<>>, f) \o SubSeq(text, 2, n - 1), g)
  <2>1. PICK m \in Nat : m = n - 1
    BY <1>3
  <2>2. 1 \in 0..n /\ m \in 1..n /\ 1 + 1 = 2 /\ 1 \in 1..n /\ m + 1 = n
    BY <1>3, <1>8, <2>1
  <2>3. SubSeq(text, 1 + 1, m) \in Seq(V)
    BY <1>1, <1>2, <2>2, PartIs
  <2>4. SubSeq(text, 1, n) = text
    BY <1>1, <1>2, SubSeqFull
  <2>5. SubSeq(text, 1, n) = SubSeq(text, 1, n - 1) \o <<text[n]>>
    BY <1>1, <1>2, <1>4, SubSeqRecursiveSecond
  <2>6. SubSeq(text, 1, m) = <<text[1]>> \o SubSeq(text, 1 + 1, m)
    BY <1>1, <1>2, <2>2, SubSeqRecursiveFirst
  <2>7. PICK q \in Seq(V) : q = SubSeq(text, 2, m)
    BY <2>2, <2>3
  <2>8. <<f>> \o q \in Seq(V)
    BY <1>6, ConcatProperties
  <2>9. Append(<<f>> \o q, g) = (<<f>> \o q) \o <<g>>
    BY <2>8, AppendIsConcat
  <2> QED
    BY <1>5, <1>6, <2>1, <2>2, <2>4, <2>5, <2>6, <2>7, <2>9, Zenon
<1> QED
  BY <1>1, <1>3, <1>5, <1>7, <1>8, Zenon

LEMMA MiddleType ==
  ASSUME NEW U, NEW text \in Seq(Seq(U)), text # <<>>, NEW p \in Seq(U), NEW s \in Seq(U)
  PROVE  Middle(p, text, s) \in Seq(Seq(U))
<1>1. PICK V : V = Seq(U)
  OBVIOUS
<1>2. PICK f \in V, g \in V : f = text[1] /\ g = text[Len(text)]
  BY <1>1, TextIs
<1>3. p \o s \in V /\ p \o f \in V /\ g \o s \in V
  BY <1>1, ConcatProperties
<1>4. (p \o f) \o s \in V
  BY <1>1, <1>3, ConcatProperties
<1>5. /\ <<>> \in Seq(V) /\ <<p \o s>> \in Seq(V) /\ <<(p \o f) \o s>> \in Seq(V)
      /\ <<p \o f>> \in Seq(V) /\ <<g \o s>> \in Seq(V)
  BY <1>3, <1>4, Single, EmptySeq
<1>6. CASE Edit!Empty(text) \/ Len(text) = 1
  BY <1>1, <1>2, <1>5, <1>6, Zenon DEF Middle
<1>7. CASE ~Edit!Empty(text) /\ Len(text) # 1
  <2>1. PICK q \in Seq(V) : q = SubSeq(text, 2, Len(text) - 1)
    BY <1>1, <1>7, TextIs
  <2>2. <<p \o f>> \o q \in Seq(V)
    BY <1>5, ConcatProperties
  <2>3. (<<p \o f>> \o q) \o <<g \o s>> \in Seq(V)
    BY <1>5, <2>2, ConcatProperties
  <2> QED
    BY <1>1, <1>2, <1>7, <2>1, <2>3, Zenon DEF Middle
<1> QED
  BY <1>6, <1>7

LEMMA ApplyType ==
  ASSUME NEW U, NEW lines \in Seq(Seq(U)), NEW e, IsEdit(U, e), e.start[1] < Len(lines)
  PROVE  Edit!applyTextEdit(lines, e) \in Seq(Seq(U))
<1>1. PICK V : V = Seq(U)
  OBVIOUS
<1>2. PICK A \in Seq(V), B \in Seq(V) :
        A = SubSeq(lines, 1, e.start[1]) /\ B = SubSeq(lines, EndLine(lines, e) + 2, Len(lines))
  BY <1>1, ApplyParts
<1>3. PICK m \in Seq(V) : m = Middle(Prefix(lines, e), e.text, Suffix(lines, e))
  <2>1. Prefix(lines, e) \in Seq(U) /\ Suffix(lines, e) \in Seq(U)
    BY ApplyParts
  <2>2. e.text \in Seq(Seq(U)) /\ e.text # <<>>
    BY DEF IsEdit
  <2> QED
    BY <1>1, <2>1, <2>2, MiddleType
<1>4. A \o m \in Seq(V)
  BY ConcatProperties
<1>5. (A \o m) \o B \in Seq(V)
  BY <1>4, ConcatProperties
<1> QED
  BY <1>1, <1>2, <1>3, <1>5, ApplyIs, Zenon

\* One line in place of what was removed.
OneLine(a, p, t, s, b) == (a \o ((p \o t) \o s)) \o b = (a \o p) \o (t \o (s \o b))

LEMMA OneLineParts ==
  ASSUME NEW U, NEW a \in Seq(U), NEW p \in Seq(U), NEW t \in Seq(U), NEW s \in Seq(U), NEW b \in Seq(U)
  PROVE  OneLine(a, p, t, s, b)
<1>1. p \o t \in Seq(U) /\ (p \o t) \o s \in Seq(U) /\ s \o b \in Seq(U) /\ t \o s \in Seq(U)
      /\ t \o (s \o b) \in Seq(U) /\ (t \o s) \o b \in Seq(U)
  <2>1. p \o t \in Seq(U) /\ s \o b \in Seq(U) /\ t \o s \in Seq(U)
    BY ConcatProperties
  <2> QED
    BY <2>1, ConcatProperties
<1>2. Associates(p, t, s)
  BY Association
<1>3. Associates(a, p \o (t \o s), b)
  <2>1. p \o (t \o s) \in Seq(U)
    BY <1>1, ConcatProperties
  <2> QED
    BY <2>1, Association
<1>4. Associates(p, t \o s, b)
  BY <1>1, Association
<1>5. Associates(t, s, b)
  BY Association
<1>6. Associates(a, p, t \o (s \o b))
  BY <1>1, Association
<1> QED
  BY <1>2, <1>3, <1>4, <1>5, <1>6, Zenon DEF Associates, OneLine

Appended(S, s, x) == Append(s, x) \in Seq(S) /\ Append(s, x) # <<>>

LEMMA AppendedIs ==
  ASSUME NEW S, NEW s \in Seq(S), NEW x \in S
  PROVE  Appended(S, s, x)
BY AppendProperties DEF Appended

\* Several lines in its place: z are those between the first and the last.
ManyLines(a, p, f, z, o, g, s, b) ==
  ((((a \o (p \o f)) \o z) \o o) \o (g \o s)) \o b
    = (a \o p) \o ((((f \o z) \o o) \o g) \o (s \o b))

LEMMA ManyLinesParts ==
  ASSUME NEW U, NEW a \in Seq(U), NEW p \in Seq(U), NEW f \in Seq(U), NEW z \in Seq(U),
         NEW o \in Seq(U), NEW g \in Seq(U), NEW s \in Seq(U), NEW b \in Seq(U)
  PROVE  ManyLines(a, p, f, z, o, g, s, b)
<1>1. PICK u \in Seq(U), v \in Seq(U), h \in Seq(U), w \in Seq(U), y \in Seq(U) :
        u = a \o p /\ v = f \o z /\ h = (f \o z) \o o /\ w = g \o s /\ y = s \o b
  <2>1. a \o p \in Seq(U) /\ f \o z \in Seq(U) /\ g \o s \in Seq(U) /\ s \o b \in Seq(U)
    BY ConcatProperties
  <2>2. (f \o z) \o o \in Seq(U)
    BY <2>1, ConcatProperties
  <2> QED
    BY <2>1, <2>2
<1>2. u \o f \in Seq(U) /\ u \o v \in Seq(U) /\ h \o g \in Seq(U) /\ h \o w \in Seq(U) /\ g \o y \in Seq(U)
  BY ConcatProperties
<1>3. Associates(a, p, f)
  BY Association
<1>4. Associates(u, f, z)
  BY Association
<1>5. Associates(u, v, o)
  BY Association
<1>6. ((a \o (p \o f)) \o z) \o o = u \o h
  BY <1>1, <1>3, <1>4, <1>5, Zenon DEF Associates
<1>7. Associates(u, h, w)
  BY Association
<1>8. Associates(u, h \o w, b)
  BY <1>2, Association
<1>9. Associates(h, w, b)
  BY Association
<1>10. Associates(g, s, b)
  BY Association
<1>11. Associates(h, g, y)
  BY Association
<1>12. ((u \o h) \o w) \o b = u \o (h \o (w \o b))
  BY <1>7, <1>8, <1>9, Zenon DEF Associates
<1>13. h \o (w \o b) = (h \o g) \o y
  BY <1>1, <1>10, <1>11, Zenon DEF Associates
<1> QED
  BY <1>1, <1>6, <1>12, <1>13, Zenon DEF ManyLines

\* The first of the lines goes on from p.
Goes(U, p, lines) == \E r \in Seq(U), R \in Seq(Seq(U)) : lines = <<p \o r>> \o R

\* The lines of an edit of lines A, p .. s, B.
Replaces(U, A, p, text, s, B) ==
  /\ Edit!Flat(A \o Middle(p, text, s) \o B)
       = (Pre(A) \o p) \o (Edit!Flat(text) \o (s \o Post(B)))
  /\ Goes(U, p, Middle(p, text, s))

\* Nothing is left of the line of a removal.
Vanishes(p, text, s) == Edit!Empty(text) /\ p \o s = <<>>

\* What an edit puts in the place of what it removes, for a text of one line.
LEMMA OneLineText ==
  ASSUME NEW U, Edit!Newline \in U, NEW A \in Seq(Seq(U)), NEW B \in Seq(Seq(U)),
         NEW p \in Seq(U), NEW s \in Seq(U), NEW text \in Seq(Seq(U)), Len(text) = 1,
         ~Vanishes(p, text, s)
  PROVE  Replaces(U, A, p, text, s, B)
<1>1. text # <<>>
  <2>1. PICK n : n = Len(text) /\ n = 1
    OBVIOUS
  <2>2. Len(<<>>) = 0 /\ 0 # 1
    OBVIOUS
  <2> QED
    BY <2>1, <2>2, Zenon
<1>2. PICK f \in Seq(U) : f = text[1] /\ text = Append(<<>>, f)
  BY <1>1, TextIs
<1>3. PICK a \in Seq(U), b \in Seq(U) : a = Pre(A) /\ b = Post(B)
  BY PreIs
<1>4. PICK x \in Seq(U) : x = (p \o f) \o s
  <2>1. p \o f \in Seq(U)
    BY ConcatProperties
  <2> QED
    BY <2>1, ConcatProperties
<1>5. PICK r \in Seq(U) : r = f \o s
  BY ConcatProperties
<1>6. Middle(p, text, s) = <<x>>
  <2>1. p \o <<>> = p
    BY ConcatEmptySeq
  <2>2. Edit!Empty(text) => f = <<>>
    <3>1. << <<>> >>[1] = <<>>
      OBVIOUS
    <3> QED
      BY <1>2, <3>1, Zenon DEF Edit!Empty
  <2> QED
    BY <1>2, <1>4, <2>1, <2>2, Zenon DEF Middle, Vanishes
<1>7. Edit!Flat(text) = f
  <2>1. <<>> \in Seq(Seq(U))
    BY EmptySeq
  <2>2. Edit!Flat(Append(<<>>, f)) = Pre(<<>>) \o f
    BY <2>1, PreIs, Zenon
  <2>3. Pre(<<>>) = <<>> /\ <<>> \o f = f
    BY ConcatEmptySeq DEF Pre
  <2> QED
    BY <1>2, <2>2, <2>3, Zenon
<1>8. A \o <<x>> = Append(A, x)
  <2>1. PICK V : V = Seq(U)
    OBVIOUS
  <2>2. A \in Seq(V) /\ x \in V
    BY <2>1, Zenon
  <2> QED
    BY <2>2, AppendIsConcat
<1>9. Around(A, x, B)
  BY AroundIs
<1>10. OneLine(a, p, f, s, b)
  BY OneLineParts
<1>11. <<x>> \o <<>> = <<x>> /\ <<>> \in Seq(Seq(U))
  BY EmptySeq
<1>12. Associates(p, f, s)
  BY Association
<1>13. Middle(p, text, s) = <<p \o r>> \o <<>>
  BY <1>4, <1>5, <1>6, <1>11, <1>12, Zenon DEF Associates
<1> QED
  BY <1>3, <1>4, <1>6, <1>7, <1>8, <1>9, <1>10, <1>11, <1>13, Zenon DEF OneLine, Goes, Around, Replaces

\* And for a text of several lines: f is the first, q are those in between, g
\* is the last.
ReplacesMany(A, p, f, q, g, s, B) ==
  Edit!Flat(A \o ((<<p \o f>> \o q) \o <<g \o s>>) \o B)
    = (Pre(A) \o p) \o (Edit!Flat(Append(Append(<<>>, f) \o q, g)) \o (s \o Post(B)))

\* What begins with a sequence that is not empty is not empty.
LEMMA NotEmpty ==
  ASSUME NEW S, NEW s \in Seq(S), s # <<>>, NEW t \in Seq(S)
  PROVE  s \o t \in Seq(S) /\ s \o t # <<>>
BY ConcatProperties, ConcatEqualIffEmpty

LEMMA SeveralLines ==
  ASSUME NEW U, Edit!Newline \in U, NEW A \in Seq(Seq(U)), NEW B \in Seq(Seq(U)),
         NEW p \in Seq(U), NEW s \in Seq(U),
         NEW f \in Seq(U), NEW q \in Seq(Seq(U)), NEW g \in Seq(U)
  PROVE  ReplacesMany(A, p, f, q, g, s, B)
<1>1. PICK a \in Seq(U), b \in Seq(U), z \in Seq(U) : a = Pre(A) /\ b = Post(B) /\ z = Post(q)
  BY PreIs
<1>2. PICK x \in Seq(U), y \in Seq(U), o \in Seq(U) :
        x = p \o f /\ y = g \o s /\ o = <<Edit!Newline>>
  BY ConcatProperties, Single
<1>3. PICK V : V = Seq(U)
  OBVIOUS
<1>4. x \in V /\ y \in V /\ f \in V /\ A \in Seq(V) /\ q \in Seq(V) /\ <<>> \in Seq(V)
  <2>1. /\ x \in Seq(U) /\ y \in Seq(U) /\ f \in Seq(U) /\ A \in Seq(Seq(U))
        /\ q \in Seq(Seq(U)) /\ <<>> \in Seq(Seq(U))
    BY EmptySeq
  <2> QED
    BY <1>3, <2>1
<1>5. Append(A, x) \in Seq(V) /\ Append(A, x) # <<>>
  BY <1>4, AppendedIs DEF Appended
<1>6. Append(<<>>, f) \in Seq(V) /\ Append(<<>>, f) # <<>>
  BY <1>4, AppendProperties
<1>7. Append(A, x) \o q \in Seq(V) /\ Append(A, x) \o q # <<>>
  <2>1. PICK u \in Seq(V) : u = Append(A, x) /\ u # <<>>
    BY <1>5, Zenon
  <2>2. u \o q \in Seq(V) /\ u \o q # <<>>
    BY <1>4, <2>1, NotEmpty
  <2> QED
    BY <2>1, <2>2, Zenon
<1>8. Append(<<>>, f) \o q \in Seq(V) /\ Append(<<>>, f) \o q # <<>>
  <2>1. PICK u \in Seq(V) : u = Append(<<>>, f) /\ u # <<>>
    BY <1>6, Zenon
  <2>2. u \o q \in Seq(V) /\ u \o q # <<>>
    BY <1>4, <2>1, NotEmpty
  <2> QED
    BY <2>1, <2>2, Zenon
<1>9. PICK A2 \in Seq(V), T2 \in Seq(V) :
        /\ A2 = Append(A, x) \o q /\ A2 # <<>>
        /\ T2 = Append(<<>>, f) \o q /\ T2 # <<>>
  BY <1>7, <1>8
<1>10. A2 \in Seq(Seq(U)) /\ T2 \in Seq(Seq(U)) /\ <<>> \in Seq(Seq(U))
  BY <1>3, EmptySeq, Zenon
<1>11. Pre(A2) = ((a \o (p \o f)) \o z) \o o
  <2>1. Around(A, x, q)
    BY AroundIs
  <2> QED
    BY <1>1, <1>2, <1>9, <2>1, Zenon DEF Pre, Around
<1>12. Pre(T2) = (f \o z) \o o
  <2>1. Around(<<>>, f, q)
    BY <1>10, AroundIs
  <2>2. Pre(<<>>) = <<>> /\ <<>> \o f = f
    BY ConcatEmptySeq DEF Pre
  <2> QED
    BY <1>1, <1>2, <1>9, <2>1, <2>2, Zenon DEF Pre, Around
<1>13. Edit!Flat(Append(T2, g)) = ((f \o z) \o o) \o g
  <2>1. Edit!Flat(Append(T2, g)) = Pre(T2) \o g
    BY <1>10, PreIs, Zenon
  <2> QED
    BY <1>12, <2>1, Zenon
<1>14. Around(A2, y, B)
  BY <1>10, AroundIs
<1>15. A \o ((<<x>> \o q) \o <<y>>) = Append(A2, y)
  <2>1. <<x>> \in Seq(V) /\ <<y>> \in Seq(V)
    BY <1>4, Single
  <2>2. <<x>> \o q \in Seq(V)
    BY <1>4, <2>1, ConcatProperties
  <2>3. Associates(A, <<x>> \o q, <<y>>)
    BY <1>4, <2>1, <2>2, Association
  <2>4. Associates(A, <<x>>, q)
    BY <1>4, <2>1, Association
  <2>5. Append(A, x) = A \o <<x>>
    BY <1>4, AppendIsConcat
  <2>6. Append(A2, y) = A2 \o <<y>>
    BY <1>4, AppendIsConcat
  <2> QED
    BY <1>9, <2>3, <2>4, <2>5, <2>6, Zenon DEF Associates
<1>16. ManyLines(a, p, f, z, o, g, s, b)
  BY ManyLinesParts
<1> QED
  BY <1>1, <1>2, <1>9, <1>11, <1>13, <1>14, <1>15, <1>16, Zenon DEF ManyLines, Around, ReplacesMany

LEMMA MiddleText ==
  ASSUME NEW U, Edit!Newline \in U, NEW A \in Seq(Seq(U)), NEW B \in Seq(Seq(U)),
         NEW p \in Seq(U), NEW s \in Seq(U), NEW text \in Seq(Seq(U)), text # <<>>,
         ~Vanishes(p, text, s)
  PROVE  Replaces(U, A, p, text, s, B)
<1>1. CASE Len(text) = 1
  BY <1>1, OneLineText
<1>2. CASE Len(text) # 1
  <2>1. PICK f \in Seq(U), g \in Seq(U), q \in Seq(Seq(U)) :
          /\ f = text[1] /\ g = text[Len(text)] /\ q = SubSeq(text, 2, Len(text) - 1)
          /\ text = Append(Append(<<>>, f) \o q, g)
    <3>1. /\ text[1] \in Seq(U) /\ text[Len(text)] \in Seq(U)
          /\ SubSeq(text, 2, Len(text) - 1) \in Seq(Seq(U))
          /\ text = Append(Append(<<>>, text[1]) \o SubSeq(text, 2, Len(text) - 1), text[Len(text)])
      BY <1>2, TextIs
    <3> QED
      BY <3>1, Zenon
  <2>2. Middle(p, text, s) = (<<p \o f>> \o q) \o <<g \o s>>
    <3>1. Len(<< <<>> >>) = 1
      OBVIOUS
    <3>2. ~Edit!Empty(text)
      BY <1>2, <3>1, Zenon DEF Edit!Empty
    <3> QED
      BY <1>2, <2>1, <3>2, Zenon DEF Middle, Vanishes
  <2>3. ReplacesMany(A, p, f, q, g, s, B)
    BY SeveralLines
  <2>4. PICK R \in Seq(Seq(U)) : Middle(p, text, s) = <<p \o f>> \o R
    <3>1. PICK V : V = Seq(U)
      OBVIOUS
    <3>2. q \in Seq(V)
      BY <3>1
    <3>3. PICK x \in V, y \in V : x = p \o f /\ y = g \o s
      BY <3>1, ConcatProperties, Zenon
    <3>4. PICK o \in Seq(V), n \in Seq(V) : o = <<x>> /\ n = <<y>>
      BY Single
    <3>5. Associates(o, q, n)
      BY <3>2, Association
    <3>6. q \o n \in Seq(V)
      BY <3>2, ConcatProperties
    <3> QED
      BY <2>2, <3>1, <3>3, <3>4, <3>5, <3>6, Zenon DEF Associates
  <2> QED
    BY <2>1, <2>2, <2>3, <2>4, Zenon DEF Goes, Replaces, ReplacesMany
<1> QED
  BY <1>1, <1>2

\* What an edit does to the text, and to the beginning of the lines.
Applied(U, lines, e) ==
  /\ Edit!Flat(Edit!applyTextEdit(lines, e))
       = HeadAt(lines, e.start) \o (Edit!Flat(e.text) \o TailAt(lines, e.end))
  /\ \E M \in Seq(Seq(U)) :
       /\ Edit!applyTextEdit(lines, e) = SubSeq(lines, 1, e.start[1]) \o M
       /\ Goes(U, SubSeq(lines[e.start[1] + 1], 1, e.start[2]), M)

\* The parts of an edit whose range is in the lines.
LEMMA PartsOf ==
  ASSUME NEW U, Edit!Newline \in U, NEW lines \in Seq(Seq(U)), NEW e, IsEdit(U, e),
         IsPosition(lines, e.start), IsPosition(lines, e.end)
  PROVE  /\ EndLine(lines, e) = e.end[1]
         /\ Prefix(lines, e) = SubSeq(lines[e.start[1] + 1], 1, e.start[2])
         /\ Suffix(lines, e) = SubSeq(lines[e.end[1] + 1], e.end[2] + 1, Len(lines[e.end[1] + 1]))
<1>1. EndLine(lines, e) = e.end[1]
  BY DEF EndLine, IsPosition
<1>2. Edit!Cut(lines[e.start[1] + 1], e.start[2]) = e.start[2]
  <2>1. PICK x : x = lines[e.start[1] + 1]
    OBVIOUS
  <2>2. x \in Seq(U) /\ e.start[2] \in Nat /\ e.start[2] <= Len(x)
    BY <2>1, NextLine DEF IsPosition
  <2> QED
    BY <2>1, <2>2 DEF Edit!Cut
<1>3. Edit!Cut(lines[e.end[1] + 1], e.end[2]) = e.end[2]
  <2>1. PICK x : x = lines[e.end[1] + 1]
    OBVIOUS
  <2>2. x \in Seq(U) /\ e.end[2] \in Nat /\ e.end[2] <= Len(x)
    BY <2>1, NextLine DEF IsPosition
  <2> QED
    BY <2>1, <2>2 DEF Edit!Cut
<1> QED
  BY <1>1, <1>2, <1>3, Zenon DEF Prefix, Suffix

LEMMA ApplyText ==
  ASSUME NEW U, Edit!Newline \in U, NEW lines \in Seq(Seq(U)), NEW e, IsEdit(U, e),
         IsPosition(lines, e.start), IsPosition(lines, e.end),
         ~Vanishes(Prefix(lines, e), e.text, Suffix(lines, e))
  PROVE  Applied(U, lines, e)
<1>0. e.start[1] < Len(lines)
  BY DEF IsPosition
<1>1. PICK A \in Seq(Seq(U)), B \in Seq(Seq(U)), p \in Seq(U), s \in Seq(U) :
        /\ A = SubSeq(lines, 1, e.start[1]) /\ B = SubSeq(lines, EndLine(lines, e) + 2, Len(lines))
        /\ p = Prefix(lines, e) /\ s = Suffix(lines, e)
  BY <1>0, ApplyParts
<1>2. PICK t \in Seq(Seq(U)) : t = e.text /\ t # <<>>
  BY DEF IsEdit
<1>3. ~Vanishes(p, t, s)
  BY <1>1, <1>2, Zenon
<1>4. Replaces(U, A, p, t, s, B)
  BY <1>2, <1>3, MiddleText
<1>5. PICK m \in Seq(Seq(U)) : m = Middle(p, t, s)
  BY <1>2, MiddleType
<1>6. Edit!applyTextEdit(lines, e) = A \o m \o B
  BY <1>1, <1>2, <1>5, ApplyIs, Zenon
<1>7. PICK a \in Seq(U), b \in Seq(U) : a = Pre(A) /\ b = Post(B)
  BY PreIs
<1>8. HeadAt(lines, e.start) = a \o p
  BY <1>1, <1>7, PartsOf, Zenon DEF HeadAt, Upto
<1>9. TailAt(lines, e.end) = s \o b
  BY <1>1, <1>7, PartsOf, Zenon DEF TailAt
<1>10. Edit!Flat(Edit!applyTextEdit(lines, e))
       = HeadAt(lines, e.start) \o (Edit!Flat(e.text) \o TailAt(lines, e.end))
  BY <1>2, <1>4, <1>5, <1>6, <1>7, <1>8, <1>9, Zenon DEF Replaces
<1>11. PICK r \in Seq(U), R \in Seq(Seq(U)) : m = <<p \o r>> \o R
  BY <1>4, <1>5, Zenon DEF Replaces, Goes
<1>12. PICK V : V = Seq(U)
  OBVIOUS
<1>13. A \in Seq(V) /\ m \in Seq(V) /\ B \in Seq(V) /\ R \in Seq(V)
  BY <1>12
<1>14. PICK o \in Seq(V) : o = <<p \o r>>
  <2>1. p \o r \in V
    BY <1>12, ConcatProperties
  <2> QED
    BY <2>1, Single
<1>15. Associates(A, m, B) /\ Associates(o, R, B) /\ m \o B \in Seq(V) /\ R \o B \in Seq(V)
  <2>1. m \o B \in Seq(V) /\ R \o B \in Seq(V)
    BY <1>13, ConcatProperties
  <2>2. Associates(A, m, B)
    BY <1>13, Association
  <2>3. Associates(o, R, B)
    BY <1>13, Association
  <2> QED
    BY <2>1, <2>2, <2>3
<1>16. Goes(U, p, m \o B)
  BY <1>11, <1>12, <1>14, <1>15, Zenon DEF Associates, Goes
<1>17. p = SubSeq(lines[e.start[1] + 1], 1, e.start[2])
  BY <1>1, PartsOf, Zenon
<1>18. Edit!applyTextEdit(lines, e) = SubSeq(lines, 1, e.start[1]) \o (m \o B)
  BY <1>1, <1>6, <1>15, Zenon DEF Associates
<1> QED
  BY <1>10, <1>12, <1>15, <1>16, <1>17, <1>18, Zenon DEF Applied

-----------------------------------------------------------------------------
(* Lines that begin alike                                                    *)

\* Putting together s and t.
Concats(S, s, t) ==
  /\ s \o t \in Seq(S) /\ Len(s \o t) = Len(s) + Len(t) /\ Len(s) \in Nat /\ Len(t) \in Nat
  /\ \A i \in 1..Len(s) : (s \o t)[i] = s[i]
  /\ \A i \in 1..Len(t) : (s \o t)[Len(s) + i] = t[i]

LEMMA ConcatsIs ==
  ASSUME NEW S, NEW s \in Seq(S), NEW t \in Seq(S)
  PROVE  Concats(S, s, t)
<1>1. Len(s) \in Nat /\ Len(t) \in Nat
  OBVIOUS
<1>2. s \o t \in Seq(S)
  BY ConcatProperties
<1>3. Len(s \o t) = Len(s) + Len(t)
  BY ConcatProperties
<1>4. \A i \in 1..Len(s) : (s \o t)[i] = s[i]
  BY ConcatProperties
<1>5. \A i \in 1..Len(t) : (s \o t)[Len(s) + i] = t[i]
  BY <1>1
<1> QED
  BY <1>1, <1>2, <1>3, <1>4, <1>5 DEF Concats

LEMMA FirstPart ==
  ASSUME NEW S, NEW s \in Seq(S), NEW t \in Seq(S)
  PROVE  SubSeq(s \o t, 1, Len(s)) = s
<1>1. PICK n \in Nat, m \in Nat : n = Len(s) /\ m = Len(t)
  OBVIOUS
<1>2. PICK q \in Seq(S) : q = s \o t /\ Len(q) = n + m /\ \A i \in 1..n : q[i] = s[i]
  <2>1. Concats(S, s, t)
    BY ConcatsIs
  <2> QED
    BY <1>1, <2>1, Zenon DEF Concats
<1>3. 0 \in 0..Len(q) /\ n \in 0..Len(q) /\ 0 + 1 = 1 /\ n - 0 = n
  BY <1>2
<1>4. /\ SubSeq(q, 0 + 1, n) \in Seq(S) /\ Len(SubSeq(q, 0 + 1, n)) = n - 0
      /\ \A i \in 1..(n - 0) : SubSeq(q, 0 + 1, n)[i] = q[0 + i]
  BY <1>3, PartIs
<1>5. PICK w \in Seq(S) : w = SubSeq(q, 1, n) /\ Len(w) = n /\ \A i \in 1..n : w[i] = q[0 + i]
  BY <1>3, <1>4
<1>6. ASSUME NEW i \in 1..n PROVE w[i] = s[i]
  <2>1. 0 + i = i
    OBVIOUS
  <2> QED
    BY <1>2, <1>5, <2>1, Zenon
<1>7. w = s
  BY <1>1, <1>5, <1>6, SeqEqual
<1> QED
  BY <1>1, <1>2, <1>5, <1>7, Zenon

LEMMA Cancels ==
  ASSUME NEW S, NEW s \in Seq(S), NEW t \in Seq(S), NEW u \in Seq(S), NEW v \in Seq(S),
         s \o t = u \o v, Len(s) = Len(u)
  PROVE  s = u /\ t = v
<1>1. SubSeq(s \o t, 1, Len(s)) = s
  BY FirstPart
<1>2. SubSeq(u \o v, 1, Len(u)) = u
  BY FirstPart
<1>3. s = u
  BY <1>1, <1>2, Zenon
<1>4. PICK n \in Nat, m \in Nat, k \in Nat : n = Len(s) /\ m = Len(t) /\ k = Len(v) /\ n = Len(u)
  OBVIOUS
<1>5. PICK q \in Seq(S) : /\ q = s \o t /\ Len(q) = n + m
                          /\ \A i \in 1..m : q[n + i] = t[i]
  <2>1. Concats(S, s, t)
    BY ConcatsIs
  <2> QED
    BY <1>4, <2>1, Zenon DEF Concats
<1>6. Len(q) = n + k /\ \A i \in 1..k : q[n + i] = v[i]
  <2>1. Concats(S, u, v)
    BY ConcatsIs
  <2> QED
    BY <1>4, <1>5, <2>1, Zenon DEF Concats
<1>7. m = k
  BY <1>5, <1>6
<1>8. \A i \in 1..m : t[i] = v[i]
  BY <1>5, <1>6, <1>7, Zenon
<1>9. t = v
  BY <1>4, <1>7, <1>8, SeqEqual
<1> QED
  BY <1>3, <1>9

\* Two sequences alike up to n.
AlikeUpto(s, t, n) ==
  /\ \A i \in 1..n : s[i] = t[i]
  /\ \A k \in 0..n : SubSeq(s, 1, k) = SubSeq(t, 1, k)

LEMMA Alike ==
  ASSUME NEW S, NEW s \in Seq(S), NEW t \in Seq(S), NEW n \in Nat, n <= Len(s), n <= Len(t),
         SubSeq(s, 1, n) = SubSeq(t, 1, n)
  PROVE  AlikeUpto(s, t, n)
<1>1. ASSUME NEW k \in 0..n
      PROVE  /\ SubSeq(s, 1, k) \in Seq(S) /\ Len(SubSeq(s, 1, k)) = k
             /\ SubSeq(t, 1, k) \in Seq(S) /\ Len(SubSeq(t, 1, k)) = k
             /\ \A i \in 1..k : SubSeq(s, 1, k)[i] = s[i]
             /\ \A i \in 1..k : SubSeq(t, 1, k)[i] = t[i]
  <2>1. /\ 0 \in 0..Len(s) /\ k \in 0..Len(s) /\ 0 + 1 = 1 /\ k - 0 = k
        /\ 0 \in 0..Len(t) /\ k \in 0..Len(t) /\ \A i \in 1..k : 0 + i = i
    OBVIOUS
  <2>2. /\ SubSeq(s, 0 + 1, k) \in Seq(S) /\ Len(SubSeq(s, 0 + 1, k)) = k - 0
        /\ \A i \in 1..(k - 0) : SubSeq(s, 0 + 1, k)[i] = s[0 + i]
    BY <2>1, PartIs
  <2>3. /\ SubSeq(t, 0 + 1, k) \in Seq(S) /\ Len(SubSeq(t, 0 + 1, k)) = k - 0
        /\ \A i \in 1..(k - 0) : SubSeq(t, 0 + 1, k)[i] = t[0 + i]
    BY <2>1, PartIs
  <2> QED
    BY <2>1, <2>2, <2>3
<1>2. n \in 0..n
  OBVIOUS
<1>3. \A i \in 1..n : s[i] = t[i]
  BY <1>1, <1>2, Zenon
<1>4. ASSUME NEW k \in 0..n PROVE SubSeq(s, 1, k) = SubSeq(t, 1, k)
  <2>1. PICK v \in Seq(S), w \in Seq(S) : v = SubSeq(s, 1, k) /\ w = SubSeq(t, 1, k)
    BY <1>1
  <2>2. Len(v) = k /\ Len(w) = k /\ \A i \in 1..k : v[i] = s[i] /\ w[i] = t[i]
    BY <1>1, <2>1, Zenon
  <2>3. \A i \in 1..k : i \in 1..n
    OBVIOUS
  <2>4. \A i \in 1..k : v[i] = w[i]
    BY <1>3, <2>2, <2>3, Zenon
  <2>5. v = w
    BY <2>2, <2>4, SeqEqual
  <2> QED
    BY <2>1, <2>5
<1> QED
  BY <1>3, <1>4, Zenon DEF AlikeUpto

\* The lines are the same up to a position.
Agrees(lines, ss, p) ==
  /\ IsPosition(lines, p)
  /\ SubSeq(lines, 1, p[1]) = SubSeq(ss, 1, p[1])
  /\ SubSeq(lines[p[1] + 1], 1, p[2]) = SubSeq(ss[p[1] + 1], 1, p[2])

LEMMA AgreesHead ==
  ASSUME NEW lines, NEW ss, NEW p, Agrees(lines, ss, p)
  PROVE  HeadAt(lines, p) = HeadAt(ss, p)
BY Zenon DEF Agrees, HeadAt, Upto

LEMMA AgreesBefore ==
  ASSUME NEW U, Edit!Newline \in U, NEW lines \in Seq(Seq(U)), NEW ss \in Seq(Seq(U)), NEW p, NEW q,
         IsPosition(ss, p), IsPosition(ss, q), ~Edit!Before(q, p), Agrees(lines, ss, q)
  PROVE  Agrees(lines, ss, p)
<1>0. PICK V : V = Seq(U)
  OBVIOUS
<1>1. PICK k \in Nat, c \in Nat, l \in Nat, d \in Nat :
        k = p[1] /\ c = p[2] /\ l = q[1] /\ d = q[2]
  BY DEF IsPosition
<1>2. lines \in Seq(V) /\ ss \in Seq(V)
  BY <1>0
<1>3. PICK n \in Nat, m \in Nat : n = Len(lines) /\ m = Len(ss)
  BY <1>2
<1>4. /\ k < m /\ l < m /\ l < n /\ (k < l \/ (k = l /\ c <= d))
      /\ c <= Len(ss[k + 1]) /\ d <= Len(ss[l + 1]) /\ d <= Len(lines[l + 1])
      /\ SubSeq(lines, 1, l) = SubSeq(ss, 1, l)
      /\ SubSeq(lines[l + 1], 1, d) = SubSeq(ss[l + 1], 1, d)
  <2>1. l < n /\ d <= Len(lines[l + 1])
    BY <1>1, <1>3, Zenon DEF Agrees, IsPosition
  <2>2. SubSeq(lines, 1, l) = SubSeq(ss, 1, l) /\ SubSeq(lines[l + 1], 1, d) = SubSeq(ss[l + 1], 1, d)
    BY <1>1, Zenon DEF Agrees
  <2>3. k < m /\ l < m /\ c <= Len(ss[k + 1]) /\ d <= Len(ss[l + 1])
    BY <1>1, <1>3, Zenon DEF IsPosition
  <2>4. ~(l < k \/ (l = k /\ d < c))
    BY <1>1, Zenon DEF Edit!Before
  <2>5. k < l \/ (k = l /\ c <= d)
    BY <2>4
  <2> QED
    BY <2>1, <2>2, <2>3, <2>5, Zenon
<1>5. /\ \A i \in 1..l : lines[i] = ss[i]
      /\ \A i \in 0..l : SubSeq(lines, 1, i) = SubSeq(ss, 1, i)
  <2>1. /\ l <= Len(lines) /\ l <= Len(ss) /\ l \in Nat /\ lines \in Seq(V) /\ ss \in Seq(V)
        /\ SubSeq(lines, 1, l) = SubSeq(ss, 1, l)
    BY <1>2, <1>3, <1>4
  <2>2. AlikeUpto(lines, ss, l)
    BY <2>1, Alike
  <2> QED
    BY <2>2, Zenon DEF AlikeUpto
<1>6. CASE k < l
  <2>1. k \in 0..l /\ k + 1 \in 1..l /\ k < n
    BY <1>4, <1>6
  <2>2. SubSeq(lines, 1, k) = SubSeq(ss, 1, k) /\ lines[k + 1] = ss[k + 1]
    BY <1>5, <2>1
  <2> QED
    BY <1>1, <1>3, <1>4, <2>1, <2>2, Zenon DEF Agrees, IsPosition
<1>7. CASE k = l /\ c <= d
  <2>1. l + 1 \in 1..n /\ l + 1 \in 1..m
    BY <1>4
  <2>2. lines[l + 1] \in V /\ ss[l + 1] \in V
    BY <1>2, <1>3, <2>1, ElementOfSeq
  <2>3. PICK x \in Seq(U), y \in Seq(U) : x = lines[l + 1] /\ y = ss[l + 1]
    BY <1>0, <2>2
  <2>4. d <= Len(x) /\ d <= Len(y) /\ SubSeq(x, 1, d) = SubSeq(y, 1, d) /\ c \in 0..d
    BY <1>4, <1>7, <2>3
  <2>5. SubSeq(x, 1, c) = SubSeq(y, 1, c)
    <3>1. AlikeUpto(x, y, d)
      BY <2>4, Alike
    <3> QED
      BY <2>4, <3>1, Zenon DEF AlikeUpto
  <2>6. c <= Len(x)
    BY <2>4
  <2> QED
    BY <1>1, <1>3, <1>4, <1>7, <2>3, <2>5, <2>6, Zenon DEF Agrees, IsPosition
<1> QED
  BY <1>4, <1>6, <1>7

LEMMA AgreesAfter ==
  ASSUME NEW U, Edit!Newline \in U, NEW lines \in Seq(Seq(U)), NEW p, IsPosition(lines, p),
         NEW M \in Seq(Seq(U)), Goes(U, SubSeq(lines[p[1] + 1], 1, p[2]), M)
  PROVE  Agrees(SubSeq(lines, 1, p[1]) \o M, lines, p)
<1>0. PICK V : V = Seq(U)
  OBVIOUS
<1>1. PICK k \in Nat, c \in Nat, n \in Nat : k = p[1] /\ c = p[2] /\ n = Len(lines)
  BY DEF IsPosition
<1>2. lines \in Seq(V) /\ M \in Seq(V) /\ k < n
  BY <1>0, <1>1 DEF IsPosition
<1>3. PICK A \in Seq(V) : A = SubSeq(lines, 1, k) /\ Len(A) = k
  <2>1. 0 \in 0..n /\ k \in 0..n /\ 0 + 1 = 1 /\ k - 0 = k
    BY <1>2
  <2>2. SubSeq(lines, 0 + 1, k) \in Seq(V) /\ Len(SubSeq(lines, 0 + 1, k)) = k - 0
    BY <1>1, <1>2, <2>1, PartIs
  <2> QED
    BY <2>1, <2>2
<1>4. PICK x \in Seq(U) : x = SubSeq(lines[k + 1], 1, c) /\ Len(x) = c
  <2>1. PICK y \in Seq(U) : y = lines[k + 1]
    <3>1. k < Len(lines) /\ lines \in Seq(Seq(U))
      BY <1>1, <1>2, Zenon
    <3> QED
      BY <3>1, NextLine
  <2>2. c <= Len(y)
    BY <1>1, <2>1 DEF IsPosition
  <2>3. 0 \in 0..Len(y) /\ c \in 0..Len(y) /\ 0 + 1 = 1 /\ c - 0 = c
    BY <2>2
  <2>4. SubSeq(y, 0 + 1, c) \in Seq(U) /\ Len(SubSeq(y, 0 + 1, c)) = c - 0
    BY <2>3, PartIs
  <2> QED
    BY <2>1, <2>3, <2>4
<1>5. PICK r \in Seq(U), R \in Seq(Seq(U)) : M = <<x \o r>> \o R
  BY <1>1, <1>4, Zenon DEF Goes
<1>6. PICK f \in Seq(U) : f = x \o r
  BY ConcatProperties
<1>7. f \in V /\ R \in Seq(V)
  BY <1>0
<1>8. PICK o \in Seq(V) : o = <<f>> /\ Len(o) = 1 /\ o[1] = f
  <2>1. <<f>> \in Seq(V)
    BY <1>7, Single
  <2>2. Len(<<f>>) = 1 /\ <<f>>[1] = f
    OBVIOUS
  <2> QED
    BY <2>1, <2>2, Zenon
<1>9. Len(M) \in Nat /\ Len(M) > 0 /\ M[1] = f
  <2>1. Concats(V, o, R)
    BY <1>7, ConcatsIs
  <2>2. M = o \o R
    BY <1>5, <1>6, <1>8, Zenon
  <2> QED
    BY <1>8, <2>1, <2>2 DEF Concats
<1>10. PICK T \in Seq(V) : T = A \o M /\ Len(T) = k + Len(M) /\ T[k + 1] = f
  <2>1. Concats(V, A, M)
    BY <1>2, ConcatsIs
  <2>2. 1 \in 1..Len(M)
    BY <1>9
  <2> QED
    BY <1>3, <1>9, <2>1, <2>2, Zenon DEF Concats
<1>11. SubSeq(T, 1, k) = A
  <2>1. SubSeq(A \o M, 1, Len(A)) = A
    BY <1>2, FirstPart
  <2> QED
    BY <1>3, <1>10, <2>1, Zenon
<1>12. SubSeq(f, 1, c) = x /\ c <= Len(f)
  <2>1. SubSeq(x \o r, 1, Len(x)) = x
    BY FirstPart
  <2>2. Concats(U, x, r)
    BY ConcatsIs
  <2>3. Len(f) = c + Len(r) /\ Len(r) \in Nat
    BY <1>4, <1>6, <2>2, Zenon DEF Concats
  <2> QED
    BY <1>4, <1>6, <2>1, <2>3
<1>13. k < Len(T)
  BY <1>9, <1>10
<1> QED
  BY <1>1, <1>3, <1>4, <1>10, <1>11, <1>12, <1>13, Zenon DEF Agrees, IsPosition

LEMMA AgreesWith ==
  ASSUME NEW lines, NEW ss, NEW tt, NEW p, Agrees(lines, ss, p), Agrees(ss, tt, p)
  PROVE  Agrees(lines, tt, p)
BY Zenon DEF Agrees

LEMMA AgreesSelf ==
  ASSUME NEW lines, NEW p, IsPosition(lines, p)
  PROVE  Agrees(lines, lines, p)
BY Zenon DEF Agrees

LEMMA HeadIs ==
  ASSUME NEW U, Edit!Newline \in U, NEW ss \in Seq(Seq(U)), NEW p, IsPosition(ss, p)
  PROVE  HeadAt(ss, p) = SubSeq(Edit!Flat(ss), 1, Place(ss, p))
<1>1. PICK h \in Seq(U), t \in Seq(U) :
        h = HeadAt(ss, p) /\ t = TailAt(ss, p) /\ Len(h) = Place(ss, p) /\ Edit!Flat(ss) = h \o t
  BY PartsAt DEF Place
<1>2. SubSeq(h \o t, 1, Len(h)) = h
  BY FirstPart
<1> QED
  BY <1>1, <1>2, Zenon

Cancel(s, t, u) == s \o t = s \o u => t = u

LEMMA CancelIs ==
  ASSUME NEW S, NEW s \in Seq(S), NEW t \in Seq(S), NEW u \in Seq(S)
  PROVE  Cancel(s, t, u)
BY Cancels DEF Cancel

\* Between lines that are whole there is a blank place.
LEMMA BlankBetween ==
  ASSUME NEW U, Edit!Newline \in U, NEW A \in Seq(Seq(U)), NEW B \in Seq(Seq(U))
  PROVE  BlankAt(Pre(A) \o Post(B), Len(Pre(A)))
<1>1. PICK a \in Seq(U), b \in Seq(U) : a = Pre(A) /\ b = Post(B)
  BY PreIs
<1>2. PICK n \in Nat, m \in Nat, t \in Seq(U) :
        /\ n = Len(a) /\ m = Len(b) /\ t = a \o b /\ Len(t) = n + m
        /\ \A i \in 1..n : t[i] = a[i]
        /\ \A i \in 1..m : t[n + i] = b[i]
  <2>1. Concats(U, a, b)
    BY ConcatsIs
  <2> QED
    BY <2>1, Zenon DEF Concats
<1>3. PICK o \in Seq(U) : o = <<Edit!Newline>> /\ Len(o) = 1 /\ o[1] = Edit!Newline
  <2>1. <<Edit!Newline>> \in Seq(U)
    BY Single
  <2>2. Len(<<Edit!Newline>>) = 1 /\ <<Edit!Newline>>[1] = Edit!Newline
    OBVIOUS
  <2> QED
    BY <2>1, <2>2, Zenon
<1>4. n = 0 \/ t[n] = Edit!Newline
  <2>1. CASE A = <<>>
    <3>1. a = <<>>
      BY <1>1, <2>1, Zenon DEF Pre
    <3> QED
      BY <1>2, <3>1
  <2>2. CASE A # <<>>
    <3>1. PICK f \in Seq(U) : f = Edit!Flat(A)
      BY FlatIs
    <3>2. a = f \o o
      BY <1>1, <1>3, <2>2, <3>1, Zenon DEF Pre
    <3>3. Concats(U, f, o)
      BY ConcatsIs
    <3>4. PICK k \in Nat : k = Len(f)
      OBVIOUS
    <3>5. n = k + 1 /\ 1 \in 1..1 /\ a[k + 1] = o[1]
      <4>1. n = k + 1
        BY <1>2, <1>3, <3>2, <3>3, <3>4, Zenon DEF Concats
      <4>2. 1 \in 1..1
        OBVIOUS
      <4> QED
        BY <1>3, <3>2, <3>3, <3>4, <4>1, <4>2, Zenon DEF Concats
    <3>6. n \in 1..n
      BY <3>5
    <3> QED
      BY <1>2, <1>3, <3>5, <3>6, Zenon
  <2> QED
    BY <2>1, <2>2
<1>5. n = Len(t) \/ t[n + 1] = Edit!Newline
  <2>1. CASE B = <<>>
    <3>1. b = <<>>
      BY <1>1, <2>1, Zenon DEF Post
    <3> QED
      BY <1>2, <3>1
  <2>2. CASE B # <<>>
    <3>1. PICK f \in Seq(U) : f = Edit!Flat(B)
      BY FlatIs
    <3>2. b = o \o f
      BY <1>1, <1>3, <2>2, <3>1, Zenon DEF Post
    <3>3. Concats(U, o, f)
      BY ConcatsIs
    <3>4. 1 \in 1..1
      OBVIOUS
    <3>5. b[1] = Edit!Newline /\ m = 1 + Len(f) /\ Len(f) \in Nat
      BY <1>2, <1>3, <3>2, <3>3, <3>4, Zenon DEF Concats
    <3>6. 1 \in 1..m
      BY <3>5
    <3> QED
      BY <1>2, <3>5, <3>6, Zenon
  <2> QED
    BY <2>1, <2>2
<1> QED
  BY <1>1, <1>2, <1>4, <1>5, Zenon DEF BlankAt

LEMMA Vanishing ==
  ASSUME NEW U, Edit!Newline \in U, NEW lines \in Seq(Seq(U)), NEW e, IsEdit(U, e),
         IsPosition(lines, e.start), IsPosition(lines, e.end),
         Vanishes(Prefix(lines, e), e.text, Suffix(lines, e))
  PROVE  BlankAt(HeadAt(lines, e.start) \o (Edit!Flat(e.text) \o TailAt(lines, e.end)),
                 Len(HeadAt(lines, e.start)))
<1>0. e.start[1] < Len(lines)
  BY DEF IsPosition
<1>1. PICK A \in Seq(Seq(U)), B \in Seq(Seq(U)), p \in Seq(U), s \in Seq(U) :
        /\ A = SubSeq(lines, 1, e.start[1]) /\ B = SubSeq(lines, EndLine(lines, e) + 2, Len(lines))
        /\ p = Prefix(lines, e) /\ s = Suffix(lines, e)
  BY <1>0, ApplyParts
<1>2. p = <<>> /\ s = <<>>
  <2>1. p \o s = <<>>
    BY <1>1, Zenon DEF Vanishes
  <2> QED
    BY <2>1, ConcatEqualIffEmpty
<1>3. PICK a \in Seq(U), b \in Seq(U) : a = Pre(A) /\ b = Post(B)
  BY PreIs
<1>4. a \o <<>> = a /\ <<>> \o b = b
  BY ConcatEmptySeq
<1>5. HeadAt(lines, e.start) = a
  BY <1>1, <1>2, <1>3, <1>4, PartsOf, Zenon DEF HeadAt, Upto
<1>6. TailAt(lines, e.end) = b
  BY <1>1, <1>2, <1>3, <1>4, PartsOf, Zenon DEF TailAt
<1>7. Edit!Flat(e.text) = <<>>
  <2>1. e.text = << <<>> >>
    BY DEF Vanishes, Edit!Empty
  <2>2. << <<>> >> = Append(<<>>, <<>>)
    OBVIOUS
  <2>3. <<>> \in Seq(Seq(U)) /\ <<>> \in Seq(U)
    BY EmptySeq
  <2>4. Edit!Flat(Append(<<>>, <<>>)) = Pre(<<>>) \o <<>>
    BY <2>3, PreIs, Zenon
  <2>5. Pre(<<>>) = <<>>
    BY DEF Pre
  <2>6. <<>> \o <<>> = <<>>
    BY <2>3, ConcatEmptySeq
  <2> QED
    BY <2>1, <2>2, <2>4, <2>5, <2>6, Zenon
<1>8. BlankAt(a \o b, Len(a))
  BY <1>3, BlankBetween, Zenon
<1> QED
  BY <1>4, <1>5, <1>6, <1>7, <1>8, Zenon

\* Text that an edit makes where w comes after what it removes.
EditedText(ss, e, w) ==
  SubSeq(Edit!Flat(ss), 1, Place(ss, e.start)) \o (Edit!Flat(e.text) \o w)

EditedAs(U, lines, ss, e, w) ==
  /\ e.start[1] < Len(lines)
  /\ Edit!applyTextEdit(lines, e) \in Seq(Seq(U))
  /\ Edit!Flat(Edit!applyTextEdit(lines, e)) = EditedText(ss, e, w)
  /\ Agrees(Edit!applyTextEdit(lines, e), ss, e.start)

LEMMA EditText ==
  ASSUME NEW U, Edit!Newline \in U, NEW lines \in Seq(Seq(U)), NEW ss \in Seq(Seq(U)), NEW e,
         IsEdit(U, e), IsPosition(ss, e.start), IsPosition(ss, e.end), ~Edit!Before(e.end, e.start),
         Agrees(lines, ss, e.end), NEW w \in Seq(U),
         Edit!Flat(lines) = SubSeq(Edit!Flat(ss), 1, Place(ss, e.end)) \o w,
         ~(Edit!Empty(e.text) /\ BlankAt(EditedText(ss, e, w), Place(ss, e.start)))
  PROVE  EditedAs(U, lines, ss, e, w)
<1>1. Agrees(lines, ss, e.start)
  BY AgreesBefore, Zenon
<1>2. IsPosition(lines, e.start) /\ IsPosition(lines, e.end) /\ e.start[1] < Len(lines)
  BY <1>1 DEF Agrees, IsPosition
<1>3. /\ HeadAt(lines, e.end) \in Seq(U) /\ TailAt(lines, e.end) \in Seq(U)
      /\ Edit!Flat(lines) = HeadAt(lines, e.end) \o TailAt(lines, e.end)
  BY <1>2, PartsAt, Zenon
<1>14. PICK h \in Seq(U) : h = HeadAt(lines, e.end)
  BY <1>3
<1>15. PICK t \in Seq(U) : t = TailAt(lines, e.end)
  BY <1>3
<1>4. SubSeq(Edit!Flat(ss), 1, Place(ss, e.end)) = h
  <2>1. HeadAt(lines, e.end) = HeadAt(ss, e.end)
    BY AgreesHead
  <2>2. HeadAt(ss, e.end) = SubSeq(Edit!Flat(ss), 1, Place(ss, e.end))
    BY HeadIs
  <2> QED
    BY <1>14, <2>1, <2>2, Zenon
<1>5. t = w
  <2>1. h \o t = h \o w
    BY <1>3, <1>4, <1>14, <1>15, Zenon
  <2>2. Cancel(h, t, w)
    BY CancelIs
  <2> QED
    BY <2>1, <2>2, Zenon DEF Cancel
<1>6. SubSeq(Edit!Flat(ss), 1, Place(ss, e.start)) = HeadAt(lines, e.start)
  <2>1. HeadAt(lines, e.start) = HeadAt(ss, e.start)
    BY <1>1, AgreesHead
  <2>2. HeadAt(ss, e.start) = SubSeq(Edit!Flat(ss), 1, Place(ss, e.start))
    BY HeadIs
  <2> QED
    BY <2>1, <2>2, Zenon
<1>7. Len(HeadAt(lines, e.start)) = Place(ss, e.start)
  <2>1. HeadAt(lines, e.start) = HeadAt(ss, e.start)
    BY <1>1, AgreesHead, Zenon
  <2>2. Len(HeadAt(ss, e.start)) = Place(ss, e.start)
    BY PartsAt, Zenon DEF Place
  <2> QED
    BY <2>1, <2>2, Zenon
<1>8. ~Vanishes(Prefix(lines, e), e.text, Suffix(lines, e))
  <2> SUFFICES ASSUME Vanishes(Prefix(lines, e), e.text, Suffix(lines, e)) PROVE FALSE
    OBVIOUS
  <2>1. BlankAt(HeadAt(lines, e.start) \o (Edit!Flat(e.text) \o TailAt(lines, e.end)),
                 Len(HeadAt(lines, e.start)))
    BY <1>2, Vanishing, Zenon
  <2>2. BlankAt(EditedText(ss, e, w), Place(ss, e.start))
    BY <1>5, <1>6, <1>7, <1>15, <2>1, Zenon DEF EditedText
  <2> QED
    BY <2>2, Zenon DEF Vanishes
<1>9. Applied(U, lines, e)
  BY <1>2, <1>8, ApplyText, Zenon
<1>10. Edit!applyTextEdit(lines, e) \in Seq(Seq(U))
  BY <1>2, ApplyType, Zenon
<1>11. Edit!Flat(Edit!applyTextEdit(lines, e)) = EditedText(ss, e, w)
  BY <1>5, <1>6, <1>9, <1>15, Zenon DEF Applied, EditedText
<1>12. Agrees(Edit!applyTextEdit(lines, e), ss, e.start)
  <2>1. PICK M \in Seq(Seq(U)) :
       /\ Edit!applyTextEdit(lines, e) = SubSeq(lines, 1, e.start[1]) \o M
       /\ Goes(U, SubSeq(lines[e.start[1] + 1], 1, e.start[2]), M)
    BY <1>9, Zenon DEF Applied
  <2>2. Agrees(SubSeq(lines, 1, e.start[1]) \o M, lines, e.start)
    BY <1>2, <2>1, AgreesAfter, Zenon
  <2> QED
    BY <1>1, <2>1, <2>2, AgreesWith, Zenon
<1> QED
  BY <1>2, <1>10, <1>11, <1>12, Zenon DEF EditedAs

-----------------------------------------------------------------------------
(* One edit after another                                                    *)

\* The edit i removes text and leaves its line empty, where those of D come
\* after it.
Emptied(D, i) ==
  Edit!Empty(edits[i].text) /\ BlankAt(Made(Changes, D \cup {i}), Changes.from[i])

\* The lines l are the document with the edits of D, and begin like it.
Holds(l, D) == l \in Seq(Seq(Char)) /\ Edit!Flat(l) = Made(Changes, D)

LEMMA EditOf ==
  ASSUME EditsInv, NEW i \in DOMAIN edits
  PROVE  IsEdit(Char, edits[i])
<1>1. /\ IsPosition(doc, edits[i].start) /\ IsPosition(doc, edits[i].end)
      /\ edits[i].text \in Seq(Seq(Char)) /\ edits[i].text # <<>>
  BY EditIs
<1> QED
  BY <1>1 DEF IsEdit, IsPosition

LEMMA EditStep ==
  ASSUME EditsInv, NEW D, NEW i \in DOMAIN edits, AllAfter(Changes, D, i),
         NEW l, Holds(l, D), Agrees(l, doc, edits[i].end), ~Emptied(D, i)
  PROVE  /\ edits[i].start[1] < Len(l)
         /\ Holds(Edit!applyTextEdit(l, edits[i]), D \cup {i})
         /\ Agrees(Edit!applyTextEdit(l, edits[i]), doc, edits[i].start)
<1>1. PICK e : e = edits[i] /\ IsEdit(Char, e)
  BY EditOf
<1>2. /\ doc \in Seq(Seq(Char)) /\ IsPosition(doc, e.start) /\ IsPosition(doc, e.end)
      /\ Changes.from[i] = Place(doc, e.start) /\ Changes.to[i] = Place(doc, e.end)
      /\ Changes.text[i] = Edit!Flat(e.text)
  BY <1>1, EditIs
<1>3. ~Edit!Before(e.end, e.start)
  BY <1>1 DEF EditsInv
<1>4. Edits(Char, Changes) /\ Changes.old = Edit!Flat(doc) /\ Edit!Newline \in Char
  BY ChangesAre DEF Char
<1>5. PICK w \in Seq(Char) :
        /\ Made(Changes, D) = SubSeq(Changes.old, 1, Changes.to[i]) \o w
        /\ Made(Changes, D \cup {i})
             = SubSeq(Changes.old, 1, Changes.from[i]) \o (Changes.text[i] \o w)
  <2>1. PICK p : p = Changes
    OBVIOUS
  <2>2. Edits(Char, p) /\ AllAfter(p, D, i)
    BY <1>4, <2>1, Zenon
  <2>3. MadeWith(Char, p, D, i)
    BY <2>2, MadeBy
  <2> QED
    BY <2>1, <2>3, Zenon DEF MadeWith
<1>6. Made(Changes, D) = SubSeq(Edit!Flat(doc), 1, Place(doc, e.end)) \o w
  BY <1>2, <1>4, <1>5, Zenon
<1>7. Made(Changes, D \cup {i}) = EditedText(doc, e, w)
  BY <1>2, <1>4, <1>5, Zenon DEF EditedText
<1>8. l \in Seq(Seq(Char)) /\ Edit!Flat(l) = SubSeq(Edit!Flat(doc), 1, Place(doc, e.end)) \o w
  BY <1>6, Zenon DEF Holds
<1>9. ~(Edit!Empty(e.text) /\ BlankAt(EditedText(doc, e, w), Place(doc, e.start)))
  BY <1>1, <1>2, <1>7, Zenon DEF Emptied
<1>10. EditedAs(Char, l, doc, e, w)
  <2>1. Agrees(l, doc, e.end)
    BY <1>1
  <2> QED
    BY <1>1, <1>2, <1>3, <1>4, <1>8, <1>9, <2>1, EditText, Zenon
<1> QED
  BY <1>1, <1>7, <1>10, Zenon DEF EditedAs, Holds

\* What the steps of applyTextEdits go through.
FoldType(U) == [ok : BOOLEAN, lines : Seq(Seq(U))]

LEMMA StepType ==
  ASSUME NEW U, NEW r \in FoldType(U), NEW e, IsEdit(U, e)
  PROVE  Edit!Step(r, e) \in FoldType(U)
<1>1. PICK W : W = Seq(Seq(U))
  OBVIOUS
<1>2. r.ok \in BOOLEAN /\ r.lines \in Seq(Seq(U))
  BY DEF FoldType
<1>3. CASE r.ok /\ e.start[1] < Len(r.lines)
  <2>1. Edit!applyTextEdit(r.lines, e) \in W
    BY <1>1, <1>2, <1>3, ApplyType, Zenon
  <2>2. Edit!Step(r, e) = [ok |-> TRUE, lines |-> Edit!applyTextEdit(r.lines, e)]
    BY <1>3, Zenon DEF Edit!Step, Edit!Edited
  <2> QED
    BY <1>1, <2>1, <2>2 DEF FoldType
<1>4. CASE ~(r.ok /\ e.start[1] < Len(r.lines))
  <2>1. <<>> \in W
    BY <1>1, EmptySeq
  <2>2. Edit!Step(r, e) = [ok |-> FALSE, lines |-> <<>>]
    BY <1>4, Zenon DEF Edit!Step, Edit!Rejected
  <2> QED
    BY <1>1, <2>1, <2>2 DEF FoldType
<1> QED
  BY <1>3, <1>4

AreEdits(U, es, n) == DOMAIN es = 1..n /\ \A k \in 1..n : IsEdit(U, es[k])

IsRun(g, ls, es, n) ==
  /\ g[0] = Edit!Edited(ls)
  /\ \A k \in 1..n : g[k] = Edit!Step(g[k - 1], es[k])
  /\ Edit!FoldLeft(Edit!Step, Edit!Edited(ls), es) = g[n]

LEMMA EditsRun ==
  ASSUME NEW U, NEW ls \in Seq(Seq(U)), NEW n \in Nat, NEW es, AreEdits(U, es, n)
  PROVE  \E g : IsRun(g, ls, es, n)
<1>0. DOMAIN es = 1..n /\ \A k \in 1..n : IsEdit(U, es[k])
  BY DEF AreEdits
<1>1. PICK P, b : P = FoldType(U) /\ b = Edit!Edited(ls) /\ b \in P
  <2>1. PICK W : W = Seq(Seq(U))
    OBVIOUS
  <2>2. ls \in W
    BY <2>1
  <2>3. Edit!Edited(ls) \in FoldType(U)
    BY <2>1, <2>2 DEF FoldType, Edit!Edited
  <2> QED
    BY <2>3
<1>2. PICK step \in [(1..n) \X P -> P] :
        \A k \in 1..n, p \in P : step[<<k, p>>] = Edit!Step(p, es[k])
  <2>1. PICK step : step = [q \in (1..n) \X P |-> Edit!Step(q[2], es[q[1]])]
    OBVIOUS
  <2>2. \A k \in 1..n, p \in P : Edit!Step(p, es[k]) \in P
    BY <1>0, <1>1, StepType
  <2>3. \A k \in 1..n, p \in P : step[<<k, p>>] = Edit!Step(p, es[k]) /\ step[<<k, p>>] \in P
    BY <2>1, <2>2
  <2>4. step \in [(1..n) \X P -> P]
    BY <2>1, <2>3
  <2> QED
    BY <2>3, <2>4
<1>3. PICK f \in [SUBSET (1..n) -> P] : Folds(n, b, step, f)
  BY <1>1, FoldExists
<1>4. f = [r \in SUBSET (1..n) |->
            IF r = {} THEN b ELSE Edit!Step(f[r \ {Max(r)}], es[Max(r)])]
  <2> SUFFICES ASSUME NEW r \in SUBSET (1..n)
               PROVE  f[r] = IF r = {} THEN b ELSE Edit!Step(f[r \ {Max(r)}], es[Max(r)])
    OBVIOUS
  <2>1. CASE r = {}
    BY <1>3, <2>1 DEF Folds
  <2>2. CASE r # {}
    <3>1. Max(r) \in 1..n /\ f[r \ {Max(r)}] \in P
      BY <1>3, <2>2, TopIs
    <3> QED
      BY <1>2, <1>3, <2>2, <3>1 DEF Folds
  <2> QED
    BY <2>1, <2>2
<1>5. PICK h : h = CHOOSE x : x = [r \in SUBSET (1..n) |->
                     IF r = {} THEN b ELSE Edit!Step(x[r \ {Max(r)}], es[Max(r)])]
  OBVIOUS
<1>6. h = [r \in SUBSET (1..n) |->
            IF r = {} THEN b ELSE Edit!Step(h[r \ {Max(r)}], es[Max(r)])]
  BY <1>4, <1>5, Zenon
<1>7. Edit!FoldLeft(Edit!Step, b, es) = h[1..n]
  <2>1. \A S : Edit!Max(S) = Max(S)
    BY DEF Edit!Max, Max
  <2> QED
    BY <1>0, <1>1, <1>5, <2>1, Zenon DEF Edit!FoldLeft, Edit!MapThenFoldSet
<1>8. PICK g : g = [k \in 0..n |-> h[1..k]]
  OBVIOUS
<1>9. g[0] = b
  <2>1. 1..0 = {}
    OBVIOUS
  <2> QED
    BY <1>6, <1>8, <2>1
<1>10. ASSUME NEW k \in 1..n PROVE g[k] = Edit!Step(g[k - 1], es[k])
  <2>1. Max(1..k) = k /\ (1..k) \ {k} = 1..(k - 1)
    BY TopOfPrefix
  <2>2. k \in 1..k /\ k \in 0..n /\ k - 1 \in 0..n
    OBVIOUS
  <2>3. 1..k \in SUBSET (1..n)
    OBVIOUS
  <2>4. h[1..k] = Edit!Step(h[(1..k) \ {Max(1..k)}], es[Max(1..k)])
    BY <1>6, <2>1, <2>2, <2>3
  <2> QED
    BY <1>8, <2>1, <2>2, <2>4
<1>11. g[n] = h[1..n]
  BY <1>8
<1> QED
  BY <1>1, <1>7, <1>9, <1>10, <1>11, Zenon DEF IsRun

-----------------------------------------------------------------------------
(* The order of the edits                                                    *)

LEMMA Reaches ==
  ASSUME NEW n \in Nat, NEW s \in [1..n -> 1..n], \A x, y \in 1..n : x # y => s[x] # s[y],
         NEW i \in 1..n
  PROVE  \E k \in 1..n : s[k] = i
<1> SUFFICES ASSUME \A k \in 1..n : s[k] # i PROVE FALSE
  OBVIOUS
<1>1. PICK S, T : S = 1..n /\ T = (1..n) \ {i}
  OBVIOUS
<1>2. IsFiniteSet(S) /\ Cardinality(S) = n
  BY <1>1, FS_Interval
<1>3. IsFiniteSet(T) /\ Cardinality(T) = n - 1
  BY <1>1, <1>2, FS_RemoveElement
<1>4. s \in [S -> T]
  BY <1>1
<1>5. ~(Cardinality(T) < Cardinality(S))
  BY <1>1, <1>2, <1>3, <1>4, OneToOne
<1> QED
  BY <1>2, <1>3, <1>5

Starts == \A i, j \in DOMAIN edits : i # j => Changes.from[i] # Changes.from[j]

Apart ==
  \A i, j \in DOMAIN edits :
    i # j => ~(Changes.from[i] < Changes.to[j] /\ Changes.from[j] < Changes.to[i])

\* The edits s[1], s[2], ... are all of them, and each ends before those that
\* were before it begin.
LastFirst(s, n) ==
  /\ n = Len(edits) /\ n \in Nat /\ DOMAIN edits = 1..n /\ s \in [1..n -> 1..n]
  /\ \A a, b \in 1..n : a < b => /\ s[a] # s[b]
                                 /\ Changes.from[s[b]] < Changes.from[s[a]]
                                 /\ Changes.to[s[b]] <= Changes.from[s[a]]

LEMMA SortedIs ==
  ASSUME EditsInv, NEW s \in Edit!Sortings(edits), Starts, Apart
  PROVE  LastFirst(s, Len(edits))
<1>1. PICK n : n = Len(edits)
  OBVIOUS
<1>2. n \in Nat /\ DOMAIN edits = 1..n /\ Edits(Char, Changes) /\ Changes.size = n
  <2>1. Edits(Char, Changes) /\ Changes.size = n /\ DOMAIN edits = 1..n
    BY <1>1, ChangesAre
  <2>2. n \in Nat
    BY <2>1 DEF Edits
  <2> QED
    BY <2>1, <2>2
<1>3. /\ s \in [1..n -> 1..n]
      /\ \A i, j \in 1..n : i # j => s[i] # s[j]
      /\ \A i, j \in 1..n : i < j => ~Edit!Before(edits[s[i]].start, edits[s[j]].start)
  BY <1>2, Zenon DEF Edit!Sortings
<1>4. ASSUME NEW a \in 1..n, NEW b \in 1..n, a < b
      PROVE  /\ s[a] # s[b]
             /\ Changes.from[s[b]] < Changes.from[s[a]]
             /\ Changes.to[s[b]] <= Changes.from[s[a]]
  <2>1. PICK i \in 1..n, j \in 1..n : i = s[a] /\ j = s[b]
    BY <1>3
  <2>2. i # j /\ ~Edit!Before(edits[i].start, edits[j].start)
    <3>1. a # b
      BY <1>4
    <3> QED
      BY <1>3, <1>4, <2>1, <3>1, Zenon
  <2>3. /\ IsPosition(doc, edits[i].start) /\ Changes.from[i] = Place(doc, edits[i].start)
        /\ doc \in Seq(Seq(Char))
    BY <1>2, EditIs
  <2>4. IsPosition(doc, edits[j].start) /\ Changes.from[j] = Place(doc, edits[j].start)
    BY <1>2, EditIs
  <2>5. ~(Changes.from[i] < Changes.from[j])
    <3>1. Edit!Newline \in Char
      BY DEF Char
    <3> QED
      BY <2>2, <2>3, <2>4, <3>1, PlacesOrdered
  <2>6. /\ Changes.from[i] \in Nat /\ Changes.to[i] \in Nat /\ Changes.from[i] <= Changes.to[i]
        /\ Changes.from[j] \in Nat /\ Changes.to[j] \in Nat /\ Changes.from[j] <= Changes.to[j]
    BY <1>2 DEF Edits
  <2>7. Changes.from[i] # Changes.from[j]
    BY <1>2, <2>2, Zenon DEF Starts
  <2>8. ~(Changes.from[i] < Changes.to[j] /\ Changes.from[j] < Changes.to[i])
    BY <1>2, <2>2, Zenon DEF Apart
  <2>9. PICK fi \in Nat, fj \in Nat, ti \in Nat, tj \in Nat :
          fi = Changes.from[i] /\ fj = Changes.from[j] /\ ti = Changes.to[i] /\ tj = Changes.to[j]
    BY <2>6
  <2>10. fj < fi /\ tj <= fi
    BY <2>5, <2>6, <2>7, <2>8, <2>9
  <2> QED
    BY <2>1, <2>2, <2>9, <2>10, Zenon
<1> QED
  BY <1>1, <1>2, <1>3, <1>4, Zenon DEF LastFirst

\* The edits that the first k steps make.
Done(s, k) == {s[j] : j \in 1..k}

LEMMA DoneGrows ==
  ASSUME EditsInv, NEW s, NEW n, LastFirst(s, n), NEW k \in 1..n
  PROVE  /\ s[k] \in DOMAIN edits /\ k - 1 \in Nat
         /\ AllAfter(Changes, Done(s, k - 1), s[k])
         /\ Done(s, k) = Done(s, k - 1) \cup {s[k]}
         /\ Done(s, k) \subseteq DOMAIN edits
<1>1. n \in Nat /\ DOMAIN edits = 1..n /\ s \in [1..n -> 1..n] /\ Changes.size = n
  BY ChangesAre DEF LastFirst
<1>2. s[k] \in 1..n /\ k - 1 \in Nat
  BY <1>1
<1>3. ASSUME NEW x \in Done(s, k - 1)
      PROVE  /\ x # s[k] /\ x \in 1..n
             /\ Changes.from[s[k]] < Changes.from[x] /\ Changes.to[s[k]] <= Changes.from[x]
  <2>1. PICK j \in 1..(k - 1) : x = s[j]
    BY DEF Done
  <2>2. j \in 1..n /\ k \in 1..n /\ j < k
    BY <1>1
  <2>3. s[j] \in 1..n
    BY <1>1, <2>2
  <2> QED
    BY <2>1, <2>2, <2>3, Zenon DEF LastFirst
<1>4. AllAfter(Changes, Done(s, k - 1), s[k])
  BY <1>1, <1>2, <1>3, Zenon DEF AllAfter
<1>5. Done(s, k) = Done(s, k - 1) \cup {s[k]}
  <2>1. 1..k = (1..(k - 1)) \cup {k}
    BY <1>1
  <2> QED
    BY <2>1, Zenon DEF Done
<1>6. Done(s, k) \subseteq DOMAIN edits
  BY <1>1, <1>2, <1>3, <1>5, Zenon
<1> QED
  BY <1>1, <1>2, <1>4, <1>5, <1>6

LEMMA DoneIs ==
  ASSUME EditsInv, NEW s, NEW n, LastFirst(s, n)
  PROVE  Done(s, 0) = {} /\ Done(s, n) = DOMAIN edits
<1>1. n \in Nat /\ DOMAIN edits = 1..n /\ s \in [1..n -> 1..n]
  BY DEF LastFirst
<1>2. Done(s, 0) = {}
  <2>1. 1..0 = {}
    OBVIOUS
  <2> QED
    BY <2>1, Zenon DEF Done
<1>3. \A x, y \in 1..n : x # y => s[x] # s[y]
  <2>1. ASSUME NEW x \in 1..n, NEW y \in 1..n, x # y PROVE s[x] # s[y]
    <3>1. x < y \/ y < x
      BY <1>1, <2>1
    <3> QED
      BY <3>1, Zenon DEF LastFirst
  <2> QED
    BY <2>1
<1>4. \A i \in 1..n : \E k \in 1..n : s[k] = i
  BY <1>1, <1>3, Reaches
<1>5. Done(s, n) = 1..n
  BY <1>1, <1>4 DEF Done
<1> QED
  BY <1>1, <1>2, <1>5

\* They are those that do not start before the last of them.
LEMMA DoneAre ==
  ASSUME EditsInv, NEW s, NEW n, LastFirst(s, n), NEW k \in 1..n, NEW j \in DOMAIN edits
  PROVE  j \in Done(s, k) <=> ~Edit!Before(edits[j].start, edits[s[k]].start)
<1>1. n \in Nat /\ DOMAIN edits = 1..n /\ s \in [1..n -> 1..n] /\ s[k] \in DOMAIN edits
  BY DEF LastFirst
<1>2. PICK a \in 1..n : j = s[a]
  <2>1. j \in Done(s, n)
    BY DoneIs
  <2> QED
    BY <2>1 DEF Done
<1>3. j \in Done(s, k) <=> a <= k
  <2>1. ASSUME NEW b \in 1..k, j = s[b] PROVE a <= k
    <3>1. b \in 1..n
      BY <1>1
    <3>2. a < b \/ b < a \/ a = b
      BY <1>1, <3>1
    <3>3. a = b
      BY <1>2, <2>1, <3>1, <3>2, Zenon DEF LastFirst
    <3> QED
      BY <3>3
  <2>2. ASSUME a <= k PROVE a \in 1..k
    BY <2>2
  <2> QED
    BY <1>2, <2>1, <2>2 DEF Done
<1>4. Edit!Before(edits[j].start, edits[s[k]].start) <=> Changes.from[j] < Changes.from[s[k]]
  <2>1. PICK i \in DOMAIN edits : i = s[k]
    BY <1>1
  <2>2. IsPosition(doc, edits[i].start) /\ Changes.from[i] = Place(doc, edits[i].start)
    BY EditIs
  <2>3. /\ IsPosition(doc, edits[j].start) /\ Changes.from[j] = Place(doc, edits[j].start)
        /\ doc \in Seq(Seq(Char)) /\ Edit!Newline \in Char
    BY EditIs DEF Char
  <2>4. Edit!Before(edits[j].start, edits[i].start) <=> Place(doc, edits[j].start) < Place(doc, edits[i].start)
    BY <2>2, <2>3, PlacesOrdered
  <2> QED
    BY <2>1, <2>2, <2>3, <2>4, Zenon
<1>5. Changes.from[j] \in Nat /\ Changes.from[s[k]] \in Nat
  BY <1>1, ChangesAre DEF Edits
<1>6. a <= k <=> ~(Changes.from[j] < Changes.from[s[k]])
  <2>1. a < k => Changes.from[s[k]] < Changes.from[j]
    BY <1>2, Zenon DEF LastFirst
  <2>2. k < a => Changes.from[j] < Changes.from[s[k]]
    BY <1>2, Zenon DEF LastFirst
  <2>3. a = k => Changes.from[j] = Changes.from[s[k]]
    BY <1>2, Zenon
  <2>4. PICK p \in Nat, q \in Nat : p = Changes.from[j] /\ q = Changes.from[s[k]]
    BY <1>5
  <2>5. (a < k => q < p) /\ (k < a => p < q) /\ (a = k => p = q)
    BY <2>1, <2>2, <2>3, <2>4, Zenon
  <2>6. a <= k <=> ~(p < q)
    BY <1>1, <2>5
  <2> QED
    BY <2>4, <2>6, Zenon
<1> QED
  BY <1>3, <1>4, <1>6

NoneEmptied(s, n) == \A k \in 1..n : ~Emptied(Done(s, k - 1), s[k])

\* The state after k steps: the lines hold the edits made, and they begin like
\* the document up to the end of every edit to come.
StepsTo(g, s, n, k) ==
  /\ g[k].ok /\ Holds(g[k].lines, Done(s, k))
  /\ \A b \in 1..n : k < b => Agrees(g[k].lines, doc, edits[s[b]].end)

EditRun(g, s, n) ==
  /\ g[0] = Edit!Edited(doc)
  /\ \A k \in 1..n : g[k] = Edit!Step(g[k - 1], edits[s[k]])

LEMMA StepsBegin ==
  ASSUME EditsInv, NEW s, NEW n, LastFirst(s, n), NEW g, EditRun(g, s, n)
  PROVE  StepsTo(g, s, n, 0)
<1>1. g[0].ok /\ g[0].lines = doc
  <2>1. g[0] = [ok |-> TRUE, lines |-> doc]
    BY Zenon DEF EditRun, Edit!Edited
  <2> QED
    BY <2>1
<1>2. Holds(doc, {})
  <2>1. doc \in Seq(Seq(Char))
    BY LinesOfChar DEF EditsInv
  <2>2. Made(Changes, {}) = Edit!Flat(doc)
    BY ChangesAre, MadeByNone, Zenon
  <2> QED
    BY <2>1, <2>2, Zenon DEF Holds
<1>3. Done(s, 0) = {}
  BY DoneIs
<1>4. ASSUME NEW b \in 1..n PROVE Agrees(doc, doc, edits[s[b]].end)
  <2>1. PICK i \in DOMAIN edits : i = s[b]
    BY DEF LastFirst
  <2>2. IsPosition(doc, edits[i].end)
    BY EditIs
  <2>3. Agrees(doc, doc, edits[i].end)
    BY <2>2, AgreesSelf
  <2> QED
    BY <2>1, <2>3
<1> QED
  BY <1>1, <1>2, <1>3, <1>4, Zenon DEF StepsTo

LEMMA StepsGo ==
  ASSUME EditsInv, NEW s, NEW n, LastFirst(s, n), NEW g, EditRun(g, s, n), NoneEmptied(s, n),
         NEW k \in 1..n, StepsTo(g, s, n, k - 1)
  PROVE  StepsTo(g, s, n, k)
<1>1. /\ s[k] \in DOMAIN edits /\ k - 1 \in Nat
      /\ AllAfter(Changes, Done(s, k - 1), s[k])
      /\ Done(s, k) = Done(s, k - 1) \cup {s[k]}
  BY DoneGrows
<1>2. n \in Nat /\ DOMAIN edits = 1..n /\ k - 1 < k
  BY DEF LastFirst
<1>3. PICK i, D, l, m :
        /\ i = s[k] /\ D = Done(s, k - 1) /\ l = g[k - 1].lines /\ m = Edit!applyTextEdit(l, edits[i])
        /\ i \in DOMAIN edits
  BY <1>1
<1>4. AllAfter(Changes, D, i) /\ Holds(l, D) /\ Agrees(l, doc, edits[i].end) /\ ~Emptied(D, i)
  BY <1>1, <1>2, <1>3, Zenon DEF StepsTo, NoneEmptied
<1>5. /\ edits[i].start[1] < Len(l) /\ Holds(m, D \cup {i}) /\ Agrees(m, doc, edits[i].start)
  BY <1>3, <1>4, EditStep, Zenon
<1>6. g[k] = Edit!Step(g[k - 1], edits[i])
  BY <1>3, Zenon DEF EditRun
<1>7. g[k - 1].ok
  BY DEF StepsTo
<1>8. g[k].ok /\ g[k].lines = m
  <2>1. g[k] = [ok |-> TRUE, lines |-> m]
    BY <1>3, <1>5, <1>6, <1>7, Zenon DEF Edit!Step, Edit!Edited
  <2> QED
    BY <2>1
<1>9. ASSUME NEW b \in 1..n, k < b PROVE Agrees(m, doc, edits[s[b]].end)
  <2>1. PICK j \in DOMAIN edits : j = s[b]
    BY <1>2 DEF LastFirst
  <2>2. Changes.to[j] <= Changes.from[i]
    BY <1>3, <1>9, <2>1, Zenon DEF LastFirst
  <2>3. IsPosition(doc, edits[j].end) /\ Changes.to[j] = Place(doc, edits[j].end)
    BY EditIs
  <2>4. /\ IsPosition(doc, edits[i].start) /\ Changes.from[i] = Place(doc, edits[i].start)
        /\ doc \in Seq(Seq(Char)) /\ Edit!Newline \in Char
    <3>1. i \in DOMAIN edits
      BY <1>3
    <3> QED
      BY <3>1, EditIs DEF Char
  <2>5. ~Edit!Before(edits[i].start, edits[j].end)
    <3>1. Edit!Before(edits[i].start, edits[j].end)
            <=> Place(doc, edits[i].start) < Place(doc, edits[j].end)
      BY <2>3, <2>4, PlacesOrdered
    <3>2. Place(doc, edits[i].start) \in Nat /\ Place(doc, edits[j].end) \in Nat
      BY <2>3, <2>4, PlaceIs
    <3> QED
      BY <2>2, <2>3, <2>4, <3>1, <3>2
  <2>6. m \in Seq(Seq(Char))
    BY <1>5, Zenon DEF Holds
  <2>7. Agrees(m, doc, edits[j].end)
    BY <1>5, <2>3, <2>4, <2>5, <2>6, AgreesBefore, Zenon
  <2> QED
    BY <2>1, <2>7
<1> QED
  BY <1>1, <1>3, <1>5, <1>8, <1>9, Zenon DEF StepsTo

LEMMA StepsEnd ==
  ASSUME EditsInv, NEW s, NEW n, LastFirst(s, n), NEW g, EditRun(g, s, n), NoneEmptied(s, n)
  PROVE  g[n].ok /\ Holds(g[n].lines, DOMAIN edits)
<1>1. n \in Nat
  BY DEF LastFirst
<1>2. PICK T \in SUBSET Nat : T = {k \in Nat : k <= n => StepsTo(g, s, n, k)}
  OBVIOUS
<1>3. 0 \in T
  BY <1>2, StepsBegin
<1>4. ASSUME NEW k \in T PROVE k + 1 \in T
  <2>1. k \in Nat /\ (k <= n => StepsTo(g, s, n, k))
    BY <1>2
  <2> SUFFICES ASSUME k + 1 <= n PROVE StepsTo(g, s, n, k + 1)
    BY <1>2, <2>1
  <2>2. PICK l \in 1..n : l = k + 1 /\ l - 1 = k
    BY <1>1, <2>1
  <2>3. k <= n
    BY <1>1, <2>1
  <2>4. StepsTo(g, s, n, l - 1)
    BY <2>1, <2>2, <2>3
  <2>5. StepsTo(g, s, n, l)
    BY <2>4, StepsGo
  <2> QED
    BY <2>2, <2>5
<1>5. T = Nat
  BY <1>3, <1>4, Induction
<1>6. StepsTo(g, s, n, n)
  BY <1>1, <1>2, <1>5
<1>7. Done(s, n) = DOMAIN edits
  BY DoneIs
<1> QED
  BY <1>6, <1>7, Zenon DEF StepsTo

-----------------------------------------------------------------------------
(* The end of the document                                                   *)

IsGrown(V, s, x, n) ==
  \E t \in Seq(V) : /\ t = Append(s, x) /\ Len(t) = n + 1 /\ t[n + 1] = x
                    /\ \A i \in 1..n : t[i] = s[i]

LEMMA Grown ==
  ASSUME NEW V, NEW s \in Seq(V), NEW x \in V, NEW n \in Nat, Len(s) = n
  PROVE  IsGrown(V, s, x, n)
<1>1. PICK t \in Seq(V) : t = Append(s, x)
  BY AppendProperties
<1>2. Len(t) = n + 1 /\ (\A i \in 1..n : t[i] = s[i]) /\ t[n + 1] = x
  BY <1>1, AppendProperties
<1> QED
  BY <1>1, <1>2 DEF IsGrown

IsBegun(V, s, n) ==
  \E u \in Seq(V) : u = SubSeq(s, 1, n) /\ Len(u) = n /\ \A i \in 1..n : u[i] = s[i]

LEMMA Begun ==
  ASSUME NEW V, NEW s \in Seq(V), NEW n \in Nat, n <= Len(s)
  PROVE  IsBegun(V, s, n)
<1>1. 0 \in 0..Len(s) /\ n \in 0..Len(s) /\ 0 + 1 = 1 /\ n - 0 = n
  BY LenProperties
<1>2. PICK u : u = SubSeq(s, 1, n)
  OBVIOUS
<1>3. u \in Seq(V) /\ Len(u) = n /\ \A i \in 1..n : u[i] = s[0 + i]
  BY <1>1, <1>2, PartIs
<1>4. \A i \in 1..n : 0 + i = i
  OBVIOUS
<1> QED
  BY <1>2, <1>3, <1>4 DEF IsBegun

IsLeft(V, s, n, m) ==
  \E u \in Seq(V) : u = SubSeq(s, n + 1, n + m) /\ Len(u) = m /\ \A i \in 1..m : u[i] = s[n + i]

LEMMA LeftOver ==
  ASSUME NEW V, NEW s \in Seq(V), NEW n \in Nat, NEW m \in Nat, Len(s) = n + m
  PROVE  IsLeft(V, s, n, m)
<1>1. n \in 0..Len(s) /\ n + m \in n..Len(s) /\ (n + m) - n = m
  OBVIOUS
<1>2. PICK u : u = SubSeq(s, n + 1, n + m)
  OBVIOUS
<1>3. u \in Seq(V) /\ Len(u) = m /\ \A i \in 1..m : u[i] = s[n + i]
  BY <1>1, <1>2, PartIs
<1> QED
  BY <1>2, <1>3 DEF IsLeft

\* The last of a text put after another.
LEMMA LastOf ==
  ASSUME NEW U, NEW s \in Seq(U), NEW t \in Seq(U), t # <<>>
  PROVE  s \o t # <<>> /\ (s \o t)[Len(s \o t)] = t[Len(t)] /\ t[Len(t)] \in U
<1>1. PICK n \in Nat, m \in Nat : n = Len(s) /\ m = Len(t) /\ m > 0
  <2>1. Len(t) \in Nat \ {0} /\ Len(s) \in Nat
    BY EmptySeq
  <2> QED
    BY <2>1
<1>2. PICK q \in Seq(U) : q = s \o t /\ Len(q) = n + m /\ \A i \in 1..m : q[n + i] = t[i]
  <2>1. Concats(U, s, t)
    BY ConcatsIs
  <2> QED
    BY <1>1, <2>1, Zenon DEF Concats
<1>3. m \in 1..m /\ Len(q) # 0
  BY <1>1, <1>2
<1>4. q # <<>>
  BY <1>3
<1>5. q[n + m] = t[m]
  BY <1>2, <1>3
<1>6. t[m] \in U
  BY <1>1, <1>3, ElementOfSeq
<1> QED
  BY <1>1, <1>2, <1>4, <1>5, <1>6, Zenon

\* A line put after others.
LEMMA LineAfter ==
  ASSUME NEW U, NEW e \in Seq(U), NEW A \in Seq(Seq(U)), NEW y \in Seq(U)
  PROVE  Edit!joinLines(Append(A, y), e)
           = Edit!joinLines(A, e) \o (IF A = <<>> THEN y ELSE e \o y)
<1>1. LinesJoin(U, e)
  BY LinesJoined
<1> QED
  BY <1>1, Zenon DEF LinesJoin

\* Lines that are not none: the last, and those before it.
LEMMA LastLine ==
  ASSUME NEW U, NEW ss \in Seq(Seq(U)), ss # <<>>
  PROVE  \E A \in Seq(Seq(U)), x \in Seq(U) :
           ss = Append(A, x) /\ x = ss[Len(ss)]
<1>1. PICK V : V = Seq(U)
  OBVIOUS
<1>2. ss \in Seq(V)
  BY <1>1
<1>3. PICK n \in Nat : n = Len(ss) /\ n > 0
  BY <1>2, EmptySeq
<1>4. 1 \in 1..n /\ n \in 1..n /\ 0 \in 0..n /\ n - 1 \in 0..n /\ 0 + 1 = 1 /\ n - 1 - 0 = n - 1
  BY <1>3
<1>5. ss[n] \in V
  BY <1>2, <1>3, <1>4, ElementOfSeq
<1>6. SubSeq(ss, 0 + 1, n - 1) \in Seq(V) /\ Len(SubSeq(ss, 0 + 1, n - 1)) = n - 1 - 0
  BY <1>2, <1>3, <1>4, PartIs
<1>7. PICK A \in Seq(V) : A = SubSeq(ss, 1, n - 1) /\ Len(A) = n - 1
  BY <1>4, <1>6
<1>8. SubSeq(ss, 1, n) = ss
  BY <1>2, <1>3, SubSeqFull
<1>9. SubSeq(ss, 1, n) = SubSeq(ss, 1, n - 1) \o <<ss[n]>>
  BY <1>2, <1>3, <1>4, SubSeqRecursiveSecond
<1>10. PICK x \in V : x = ss[n]
  BY <1>5
<1>11. A \o <<x>> = Append(A, x)
  BY AppendIsConcat
<1>12. A = <<>> <=> n = 1
  <2>1. A # <<>> => Len(A) \in Nat \ {0}
    BY EmptySeq
  <2>2. A = <<>> => Len(A) = 0
    OBVIOUS
  <2> QED
    BY <1>3, <1>7, <2>1, <2>2
<1> QED
  BY <1>1, <1>3, <1>7, <1>8, <1>9, <1>10, <1>11, <1>12, Zenon

-----------------------------------------------------------------------------
(* The content of the document and its lines                                 *)

LEMMA FrontAndLast ==
  ASSUME NEW V, NEW A \in Seq(V), NEW x \in V
  PROVE  Edit!Front(Append(A, x)) = A /\ Edit!Last(Append(A, x)) = x
<1>1. PICK n \in Nat : n = Len(A)
  OBVIOUS
<1>2. PICK t \in Seq(V) : /\ t = Append(A, x) /\ Len(t) = n + 1 /\ t[n + 1] = x
                          /\ \A i \in 1..n : t[i] = A[i]
  <2>1. IsGrown(V, A, x, n)
    BY <1>1, Grown
  <2> QED
    BY <2>1, Zenon DEF IsGrown
<1>3. Edit!Last(t) = x
  BY <1>2 DEF Edit!Last
<1>4. Edit!Front(t) = SubSeq(t, 1, n)
  BY <1>1, <1>2 DEF Edit!Front
<1>5. PICK u \in Seq(V) : u = SubSeq(t, 1, n) /\ Len(u) = n /\ \A i \in 1..n : u[i] = t[i]
  <2>1. n <= Len(t)
    BY <1>1, <1>2
  <2>2. IsBegun(V, t, n)
    BY <1>1, <2>1, Begun
  <2> QED
    BY <2>2, Zenon DEF IsBegun
<1>6. u = A
  BY <1>1, <1>2, <1>5, SeqEqual
<1> QED
  BY <1>2, <1>3, <1>4, <1>5, <1>6

\* A text that ends with e is another and e.
LEMMA EndingParts ==
  ASSUME NEW U, NEW e \in Seq(U), NEW t \in Seq(U), Edit!EndsWith(t, e)
  PROVE  /\ SubSeq(t, 1, Len(t) - Len(e)) \in Seq(U)
         /\ t = SubSeq(t, 1, Len(t) - Len(e)) \o e
<1>1. PICK k \in Nat, m \in Nat : m = Len(e) /\ Len(t) = k + m
  <2>1. PICK n \in Nat, m \in Nat : n = Len(t) /\ m = Len(e) /\ m <= n
    BY DEF Edit!EndsWith
  <2>2. n - m \in Nat /\ n = (n - m) + m
    BY <2>1
  <2> QED
    BY <2>1, <2>2
<1>2. Len(t) - Len(e) = k /\ k <= Len(t) /\ (k + m) - m + 1 = k + 1
  BY <1>1
<1>3. SubSeq(t, k + 1, k + m) = e
  BY <1>1, <1>2 DEF Edit!EndsWith
<1>4. PICK a \in Seq(U) : a = SubSeq(t, 1, k) /\ Len(a) = k /\ \A i \in 1..k : a[i] = t[i]
  <2>1. IsBegun(U, t, k)
    BY <1>2, Begun
  <2> QED
    BY <2>1, Zenon DEF IsBegun
<1>5. \A i \in 1..m : e[i] = t[k + i]
  <2>1. PICK u \in Seq(U) : u = SubSeq(t, k + 1, k + m) /\ \A i \in 1..m : u[i] = t[k + i]
    <3>1. IsLeft(U, t, k, m)
      BY <1>1, LeftOver
    <3> QED
      BY <3>1, Zenon DEF IsLeft
  <2> QED
    BY <1>3, <2>1
<1>6. PICK q \in Seq(U) : q = a \o e /\ Concats(U, a, e)
  <2>1. Concats(U, a, e)
    BY ConcatsIs
  <2> QED
    BY <2>1 DEF Concats
<1>7. /\ Len(q) = k + m
      /\ \A i \in 1..k : q[i] = a[i]
      /\ \A i \in 1..m : q[k + i] = e[i]
  BY <1>1, <1>4, <1>6, Zenon DEF Concats
<1>8. ASSUME NEW i \in 1..(k + m) PROVE q[i] = t[i]
  <2>1. CASE i \in 1..k
    BY <1>4, <1>7, <2>1
  <2>2. CASE i \notin 1..k
    <3>1. PICK j \in 1..m : i = k + j
      <4>1. i - k \in 1..m /\ i = k + (i - k)
        BY <2>2
      <4> QED
        BY <4>1
    <3> QED
      BY <1>5, <1>7, <3>1
  <2> QED
    BY <2>1, <2>2
<1>9. q = t
  BY <1>1, <1>7, <1>8, SeqEqual
<1> QED
  BY <1>2, <1>4, <1>6, <1>9

\* Lines that go on with one more character.
GoesOn(U, A, x, c, e, lines) ==
  \/ lines = Append(A, Append(x, c))
  \/ \E m \in Seq(U) : Append(x, c) = m \o e /\ lines = Append(Append(A, m), <<>>)

LEMMA AddCharacterIs ==
  ASSUME NEW U, NEW e \in Seq(U), NEW A \in Seq(Seq(U)), NEW x \in Seq(U), NEW c \in U
  PROVE  GoesOn(U, A, x, c, e, Edit!addCharacter(Append(A, x), c, e))
<1>1. Edit!Front(Append(A, x)) = A /\ Edit!Last(Append(A, x)) = x
  <2>1. PICK V : V = Seq(U)
    OBVIOUS
  <2>2. A \in Seq(V) /\ x \in V
    BY <2>1
  <2> QED
    BY <2>2, FrontAndLast
<1>2. PICK t \in Seq(U) : t = Append(x, c)
  BY AppendProperties
<1>3. PICK m : m = SubSeq(t, 1, Len(t) - Len(e))
  OBVIOUS
<1>4. Edit!addCharacter(Append(A, x), c, e) =
        IF Edit!EndsWith(t, e) THEN Append(Append(A, m), <<>>) ELSE Append(A, t)
  BY <1>1, <1>2, <1>3, Zenon DEF Edit!addCharacter
<1>5. CASE Edit!EndsWith(t, e)
  <2>1. m \in Seq(U) /\ t = m \o e
    BY <1>3, <1>5, EndingParts
  <2> QED
    BY <1>2, <1>4, <1>5, <2>1, Zenon DEF GoesOn
<1>6. CASE ~Edit!EndsWith(t, e)
  BY <1>2, <1>4, <1>6, Zenon DEF GoesOn
<1> QED
  BY <1>5, <1>6

\* Lines, of which there is one at least, that make the text s.
AreLines(U, lines, e, s) ==
  /\ lines \in Seq(Seq(U)) /\ lines # <<>>
  /\ Edit!joinLines(lines, e) = s

LEMMA AddCharacterKeeps ==
  ASSUME NEW U, NEW e \in Seq(U), NEW s \in Seq(U), NEW c \in U, NEW lines, AreLines(U, lines, e, s)
  PROVE  AreLines(U, Edit!addCharacter(lines, c, e), e, Append(s, c))
<1>1. PICK V : V = Seq(U)
  OBVIOUS
<1>2. PICK A \in Seq(V), x \in V : lines = Append(A, x)
  <2>1. lines \in Seq(Seq(U)) /\ lines # <<>>
    BY DEF AreLines
  <2>2. \E A \in Seq(Seq(U)), x \in Seq(U) : lines = Append(A, x) /\ x = lines[Len(lines)]
    BY <2>1, LastLine
  <2> QED
    BY <1>1, <2>2, Zenon
<1>3. PICK l : l = Edit!addCharacter(lines, c, e)
  OBVIOUS
<1>4. GoesOn(U, A, x, c, e, l)
  <2>1. A \in Seq(Seq(U)) /\ x \in Seq(U)
    BY <1>1
  <2> QED
    BY <1>2, <1>3, <2>1, AddCharacterIs
<1>5. PICK f \in Seq(U) : f = Edit!joinLines(A, e) /\ (A = <<>> => f = <<>>)
  <2>1. A \in Seq(Seq(U))
    BY <1>1
  <2>2. Edit!joinLines(A, e) \in Seq(U) /\ Edit!joinLines(<<>>, e) = <<>>
    BY <2>1, LinesAre, Zenon
  <2> QED
    BY <2>2
<1>6. PICK p \in Seq(U) : p = IF A = <<>> THEN <<>> ELSE f \o e
  <2>1. f \o e \in Seq(U) /\ <<>> \in Seq(U)
    BY ConcatProperties, EmptySeq
  <2> QED
    BY <2>1
<1>7. ASSUME NEW y \in Seq(U) PROVE Edit!joinLines(Append(A, y), e) = p \o y
  <2>1. A \in Seq(Seq(U))
    BY <1>1
  <2>2. Edit!joinLines(Append(A, y), e)
          = Edit!joinLines(A, e) \o (IF A = <<>> THEN y ELSE e \o y)
    BY <2>1, LineAfter, Zenon
  <2>3. (f \o e) \o y = f \o (e \o y)
    <3>1. Associates(f, e, y)
      BY Association
    <3> QED
      BY <3>1 DEF Associates
  <2> QED
    BY <1>5, <1>6, <2>2, <2>3, Zenon
<1>8. s = p \o x
  <2>1. x \in Seq(U)
    BY <1>1
  <2> QED
    BY <1>2, <1>7, <2>1, Zenon DEF AreLines
<1>9. PICK t \in Seq(U) : t = Append(x, c)
  BY <1>1, AppendProperties
<1>10. Append(s, c) = p \o t
  <2>1. PICK z \in Seq(U) : z = x
    BY <1>1
  <2>2. p \o Append(z, c) = Append(p \o z, c)
    BY ConcatAppend
  <2> QED
    BY <1>8, <1>9, <2>1, <2>2, Zenon
<1>11. CASE l = Append(A, t)
  <2>1. t \in V
    BY <1>1
  <2>2. l \in Seq(V) /\ l # <<>>
    BY <1>11, <2>1, AppendProperties
  <2>3. Edit!joinLines(l, e) = p \o t
    BY <1>7, <1>11
  <2>4. l \in Seq(Seq(U))
    BY <1>1, <2>2
  <2> QED
    BY <1>3, <1>10, <2>2, <2>3, <2>4 DEF AreLines
<1>12. ASSUME NEW m \in Seq(U), t = m \o e, l = Append(Append(A, m), <<>>)
       PROVE  AreLines(U, l, e, Append(s, c))
  <2>1. m \in V /\ <<>> \in V
    BY <1>1, EmptySeq
  <2>2. PICK B \in Seq(V) : B = Append(A, m) /\ B # <<>>
    BY <2>1, AppendProperties
  <2>3. l \in Seq(V) /\ l # <<>>
    BY <1>12, <2>1, <2>2, AppendProperties
  <2>4. B \in Seq(Seq(U)) /\ l \in Seq(Seq(U)) /\ <<>> \in Seq(U)
    BY <1>1, <2>2, <2>3, EmptySeq
  <2>5. Edit!joinLines(Append(B, <<>>), e)
          = Edit!joinLines(B, e) \o (IF B = <<>> THEN <<>> ELSE e \o <<>>)
    BY <2>4, LineAfter, Zenon
  <2>6. e \o <<>> = e
    BY ConcatEmptySeq
  <2>7. Edit!joinLines(B, e) = p \o m
    BY <1>7, <2>2
  <2>8. (p \o m) \o e = p \o (m \o e)
    <3>1. Associates(p, m, e)
      BY Association
    <3> QED
      BY <3>1 DEF Associates
  <2>9. Edit!joinLines(l, e) = Append(s, c)
    BY <1>10, <1>12, <2>2, <2>5, <2>6, <2>7, <2>8, Zenon
  <2> QED
    BY <2>3, <2>4, <2>9 DEF AreLines
<1> QED
  BY <1>3, <1>4, <1>9, <1>11, <1>12, Zenon DEF GoesOn

LinesStart == << <<>> >>

LEMMA SplitRuns ==
  ASSUME NEW U, NEW e \in Seq(U), NEW s \in Seq(U)
  PROVE  \E g : /\ g[0] = LinesStart
                /\ \A k \in 1..Len(s) : g[k] = Edit!addCharacter(g[k - 1], s[k], e)
                /\ Edit!splitLines(s, e) = g[Len(s)]
<1>1. PICK n \in Nat : n = Len(s) /\ DOMAIN s = 1..n
  BY LenProperties
<1>2. PICK P : P = {lines \in Seq(Seq(U)) : lines # <<>>}
  OBVIOUS
<1>3. PICK step \in [(1..n) \X P -> P] :
        \A k \in 1..n, p \in P : step[<<k, p>>] = Edit!addCharacter(p, s[k], e)
  <2>1. PICK step : step = [q \in (1..n) \X P |-> Edit!addCharacter(q[2], s[q[1]], e)]
    OBVIOUS
  <2>2. \A k \in 1..n : s[k] \in U
    BY <1>1, ElementOfSeq
  <2>3. ASSUME NEW k \in 1..n, NEW p \in P PROVE Edit!addCharacter(p, s[k], e) \in P
    <3>1. PICK t \in Seq(U) : t = Edit!joinLines(p, e)
      BY <1>2, LinesAre
    <3>2. AreLines(U, p, e, t)
      BY <1>2, <3>1 DEF AreLines
    <3>3. AreLines(U, Edit!addCharacter(p, s[k], e), e, Append(t, s[k]))
      BY <2>2, <3>2, AddCharacterKeeps
    <3> QED
      BY <1>2, <3>3 DEF AreLines
  <2>4. \A k \in 1..n, p \in P :
          step[<<k, p>>] = Edit!addCharacter(p, s[k], e) /\ step[<<k, p>>] \in P
    BY <2>1, <2>3
  <2>5. step \in [(1..n) \X P -> P]
    BY <2>1, <2>4
  <2> QED
    BY <2>4, <2>5
<1>4. LinesStart \in P
  <2>1. PICK V : V = Seq(U)
    OBVIOUS
  <2>2. <<>> \in V
    BY <2>1, EmptySeq
  <2>3. << <<>> >> \in Seq(V)
    BY <2>2, Single
  <2>4. << <<>> >> # <<>>
    OBVIOUS
  <2> QED
    BY <1>2, <2>1, <2>3, <2>4 DEF LinesStart
<1>5. PICK f \in [SUBSET (1..n) -> P] : Folds(n, LinesStart, step, f)
  BY <1>3, <1>4, FoldExists
<1>6. f = [r \in SUBSET (1..n) |->
            IF r = {} THEN LinesStart ELSE Edit!addCharacter(f[r \ {Max(r)}], s[Max(r)], e)]
  <2> SUFFICES ASSUME NEW r \in SUBSET (1..n)
               PROVE  f[r] = IF r = {} THEN LinesStart
                             ELSE Edit!addCharacter(f[r \ {Max(r)}], s[Max(r)], e)
    OBVIOUS
  <2>1. CASE r = {}
    BY <1>5, <2>1 DEF Folds
  <2>2. CASE r # {}
    <3>1. Max(r) \in 1..n /\ f[r \ {Max(r)}] \in P
      BY <1>5, <2>2, TopIs
    <3> QED
      BY <1>3, <1>5, <2>2, <3>1 DEF Folds
  <2> QED
    BY <2>1, <2>2
<1>7. PICK h : h = CHOOSE x : x = [r \in SUBSET (1..n) |->
                     IF r = {} THEN LinesStart ELSE Edit!addCharacter(x[r \ {Max(r)}], s[Max(r)], e)]
  OBVIOUS
<1>8. h = [r \in SUBSET (1..n) |->
            IF r = {} THEN LinesStart ELSE Edit!addCharacter(h[r \ {Max(r)}], s[Max(r)], e)]
  BY <1>6, <1>7, Zenon
<1>9. Edit!splitLines(s, e) = h[1..n]
  <2>1. \A S : Edit!Max(S) = Max(S)
    BY DEF Edit!Max, Max
  <2> QED
    BY <1>1, <1>7, <2>1, Zenon DEF Edit!splitLines, Edit!FoldLeft, Edit!MapThenFoldSet, LinesStart
<1>10. PICK g : g = [k \in 0..n |-> h[1..k]]
  OBVIOUS
<1>11. g[0] = LinesStart
  <2>1. 1..0 = {}
    OBVIOUS
  <2> QED
    BY <1>8, <1>10, <2>1
<1>12. ASSUME NEW k \in 1..n PROVE g[k] = Edit!addCharacter(g[k - 1], s[k], e)
  <2>1. Max(1..k) = k /\ (1..k) \ {k} = 1..(k - 1)
    BY TopOfPrefix
  <2>2. k \in 1..k /\ k \in 0..n /\ k - 1 \in 0..n
    OBVIOUS
  <2>3. 1..k \in SUBSET (1..n)
    OBVIOUS
  <2>4. h[1..k] = Edit!addCharacter(h[(1..k) \ {Max(1..k)}], s[Max(1..k)], e)
    BY <1>8, <2>1, <2>2, <2>3
  <2> QED
    BY <1>10, <2>1, <2>2, <2>4
<1>13. g[n] = h[1..n]
  BY <1>10
<1> QED
  BY <1>1, <1>9, <1>11, <1>12, <1>13

\* The lines of a text are all of it.
LEMMA SplitIs ==
  ASSUME NEW U, NEW e \in Seq(U), NEW s \in Seq(U)
  PROVE  AreLines(U, Edit!splitLines(s, e), e, s)
<1>1. PICK n \in Nat : n = Len(s)
  BY LenProperties
<1>2. PICK g : /\ g[0] = LinesStart
               /\ \A k \in 1..n : g[k] = Edit!addCharacter(g[k - 1], s[k], e)
               /\ Edit!splitLines(s, e) = g[n]
  BY <1>1, SplitRuns
<1>3. PICK T \in SUBSET Nat : T = {k \in Nat : k <= n => AreLines(U, g[k], e, SubSeq(s, 1, k))}
  OBVIOUS
<1>4. 0 \in T
  <2>1. PICK V : V = Seq(U)
    OBVIOUS
  <2>2. <<>> \in V /\ <<>> \in Seq(V)
    BY <2>1, EmptySeq
  <2>3. LinesStart = Append(<<>>, <<>>)
    BY DEF LinesStart
  <2>4. LinesStart \in Seq(V) /\ LinesStart # <<>>
    BY <2>2, <2>3, AppendProperties
  <2>5. Edit!joinLines(LinesStart, e) = <<>> \o <<>>
    <3>1. <<>> \in Seq(Seq(U)) /\ <<>> \in Seq(U)
      BY EmptySeq
    <3>2. Edit!joinLines(Append(<<>>, <<>>), e)
            = Edit!joinLines(<<>>, e) \o (IF <<>> = <<>> THEN <<>> ELSE e \o <<>>)
      BY <3>1, LinesAre, Zenon
    <3>3. Edit!joinLines(<<>>, e) = <<>>
      BY LinesAre, Zenon
    <3> QED
      BY <2>3, <3>2, <3>3, Zenon
  <2>6. <<>> \o <<>> = <<>> /\ SubSeq(s, 1, 0) = <<>>
    OBVIOUS
  <2>7. AreLines(U, LinesStart, e, <<>>)
    BY <2>1, <2>4, <2>5, <2>6 DEF AreLines
  <2> QED
    BY <1>2, <1>3, <2>6, <2>7
<1>5. ASSUME NEW k \in T PROVE k + 1 \in T
  <2> SUFFICES ASSUME k + 1 <= n PROVE AreLines(U, g[k + 1], e, SubSeq(s, 1, k + 1))
    BY <1>3
  <2>1. PICK m \in 1..n : m = k + 1
    BY <1>1, <1>3
  <2>2. m - 1 = k /\ k <= n /\ k \in Nat
    BY <1>1, <1>3, <2>1
  <2>3. PICK t \in Seq(U) : t = SubSeq(s, 1, k) /\ Len(t) = k /\ \A i \in 1..k : t[i] = s[i]
    <3>1. k <= Len(s)
      BY <1>1, <2>2
    <3>2. IsBegun(U, s, k)
      BY <2>2, <3>1, Begun
    <3> QED
      BY <3>2, Zenon DEF IsBegun
  <2>4. s[m] \in U
    BY <1>1, <2>1, ElementOfSeq
  <2>5. AreLines(U, g[k], e, t)
    BY <1>3, <2>2, <2>3
  <2>6. AreLines(U, Edit!addCharacter(g[k], s[m], e), e, Append(t, s[m]))
    BY <2>4, <2>5, AddCharacterKeeps
  <2>7. g[m] = Edit!addCharacter(g[k], s[m], e)
    BY <1>2, <2>1, <2>2
  <2>8. SubSeq(s, 1, m) = Append(t, s[m])
    <3>1. PICK a \in Seq(U) : a = SubSeq(s, 1, m) /\ Len(a) = m /\ \A i \in 1..m : a[i] = s[i]
      <4>1. m \in Nat /\ m <= Len(s)
        BY <1>1, <2>1
      <4>2. IsBegun(U, s, m)
        BY <4>1, Begun
      <4> QED
        BY <4>2, Zenon DEF IsBegun
    <3>2. PICK b \in Seq(U) : /\ b = Append(t, s[m]) /\ Len(b) = k + 1 /\ b[k + 1] = s[m]
                              /\ \A i \in 1..k : b[i] = t[i]
      <4>1. IsGrown(U, t, s[m], k)
        BY <2>1, <2>2, <2>3, <2>4, Grown
      <4> QED
        BY <4>1, Zenon DEF IsGrown
    <3>3. \A i \in 1..m : i \in 1..k \/ i = m
      BY <2>1, <2>2
    <3>4. \A i \in 1..m : a[i] = b[i]
      BY <2>1, <2>3, <3>1, <3>2, <3>3
    <3> QED
      BY <2>1, <3>1, <3>2, <3>4, SeqEqual
  <2> QED
    BY <2>1, <2>6, <2>7, <2>8
<1>6. T = Nat
  BY <1>4, <1>5, Induction
<1>7. AreLines(U, g[n], e, SubSeq(s, 1, n))
  BY <1>3, <1>6
<1>8. SubSeq(s, 1, n) = s
  BY <1>1, SubSeqFull
<1> QED
  BY <1>2, <1>7, <1>8

-----------------------------------------------------------------------------
(* The reference as it is written                                            *)

\* What is written for a character of the reference.
Unit(c, e) == IF c = Edit!Newline THEN e ELSE <<c>>

UnitsOf(s, e) == [k \in DOMAIN s |-> Unit(s[k], e)]

LEMMA UnitsAre ==
  ASSUME NEW U, NEW e \in Seq(U), NEW C \in SUBSET U, NEW s \in Seq(C)
  PROVE  /\ UnitsOf(s, e) \in Seq(Seq(U)) /\ Len(UnitsOf(s, e)) = Len(s)
         /\ \A k \in 1..Len(s) : UnitsOf(s, e)[k] = Unit(s[k], e)
<1>1. PICK V, b : V = Seq(U) /\ b = UnitsOf(s, e)
  OBVIOUS
<1>2. PICK n \in Nat : n = Len(s) /\ DOMAIN s = 1..n
  BY LenProperties
<1>3. ASSUME NEW k \in 1..n PROVE b[k] = Unit(s[k], e) /\ b[k] \in V
  <2>1. s[k] \in U
    BY <1>2, ElementOfSeq
  <2>2. <<s[k]>> \in V
    BY <1>1, <2>1, Single
  <2>3. b[k] = Unit(s[k], e)
    BY <1>1, <1>2 DEF UnitsOf
  <2> QED
    BY <1>1, <2>2, <2>3 DEF Unit
<1>4. b = [k \in 1..n |-> b[k]]
  BY <1>1, <1>2, Zenon DEF UnitsOf
<1>5. b \in Seq(V) /\ Len(b) = n
  BY <1>2, <1>3, <1>4
<1> QED
  BY <1>1, <1>2, <1>3, <1>5

LEMMA RenderedIs ==
  ASSUME NEW U, NEW e \in Seq(U), NEW C \in SUBSET U
  PROVE  /\ Edit!Rendered(<<>>, e) = <<>>
         /\ \A s \in Seq(C) : Edit!Rendered(s, e) \in Seq(U)
         /\ \A s \in Seq(C), c \in C :
              Edit!Rendered(Append(s, c), e) = Edit!Rendered(s, e) \o Unit(c, e)
<1>1. \A s : Edit!Rendered(s, e) = PutTogether(UnitsOf(s, e))
  BY Zenon DEF Edit!Rendered, PutTogether, UnitsOf, Unit
<1>2. Edit!Rendered(<<>>, e) = <<>>
  <2>1. UnitsOf(<<>>, e) = <<>>
    BY DEF UnitsOf
  <2> QED
    BY <1>1, <2>1, JoinedIs, Zenon
<1>3. ASSUME NEW s \in Seq(C) PROVE Edit!Rendered(s, e) \in Seq(U)
  <2>1. UnitsOf(s, e) \in Seq(Seq(U))
    BY UnitsAre
  <2> QED
    BY <1>1, <2>1, JoinedIs, Zenon
<1>4. ASSUME NEW s \in Seq(C), NEW c \in C
      PROVE  Edit!Rendered(Append(s, c), e) = Edit!Rendered(s, e) \o Unit(c, e)
  <2>1. PICK V : V = Seq(U)
    OBVIOUS
  <2>2. PICK n \in Nat : n = Len(s)
    BY LenProperties
  <2>3. PICK t \in Seq(C) : /\ t = Append(s, c) /\ Len(t) = n + 1 /\ t[n + 1] = c
                            /\ \A k \in 1..n : t[k] = s[k]
    <3>1. IsGrown(C, s, c, n)
      BY <2>2, Grown
    <3> QED
      BY <3>1, Zenon DEF IsGrown
  <2>4. PICK y \in V : y = Unit(c, e)
    <3>1. <<c>> \in V
      BY <2>1, Single
    <3> QED
      BY <2>1, <3>1 DEF Unit
  <2>5. PICK b \in Seq(V) : b = UnitsOf(s, e) /\ Len(b) = n /\ \A k \in 1..n : b[k] = Unit(s[k], e)
    <3>1. /\ UnitsOf(s, e) \in Seq(Seq(U)) /\ Len(UnitsOf(s, e)) = Len(s)
          /\ \A k \in 1..Len(s) : UnitsOf(s, e)[k] = Unit(s[k], e)
      BY UnitsAre
    <3> QED
      BY <2>1, <2>2, <3>1, Zenon
  <2>6. PICK d \in Seq(V) : d = UnitsOf(t, e) /\ Len(d) = n + 1 /\ \A k \in 1..(n + 1) : d[k] = Unit(t[k], e)
    <3>1. /\ UnitsOf(t, e) \in Seq(Seq(U)) /\ Len(UnitsOf(t, e)) = Len(t)
          /\ \A k \in 1..Len(t) : UnitsOf(t, e)[k] = Unit(t[k], e)
      BY UnitsAre
    <3> QED
      BY <2>1, <2>3, <3>1, Zenon
  <2>7. PICK a \in Seq(V) : a = Append(b, y) /\ Len(a) = n + 1 /\ a[n + 1] = y /\ \A k \in 1..n : a[k] = b[k]
    <3>1. IsGrown(V, b, y, n)
      BY <2>2, <2>5, Grown
    <3> QED
      BY <3>1, Zenon DEF IsGrown
  <2>8. \A k \in 1..(n + 1) : k \in 1..n \/ k = n + 1
    BY <2>2
  <2>9. ASSUME NEW k \in 1..(n + 1) PROVE d[k] = a[k]
    <3>1. CASE k \in 1..n
      <4>1. d[k] = Unit(s[k], e)
        BY <2>3, <2>6, <3>1
      <4> QED
        BY <2>5, <2>7, <3>1, <4>1
    <3>2. CASE k = n + 1
      <4>1. d[k] = Unit(c, e)
        BY <2>3, <2>6, <3>2
      <4> QED
        BY <2>4, <2>7, <3>2, <4>1
    <3> QED
      BY <2>8, <3>1, <3>2
  <2>10. d = a
    BY <2>6, <2>7, <2>9, SeqEqual
  <2>11. PutTogether(a) = PutTogether(b) \o y
    BY <2>1, <2>7, JoinedIs, Zenon
  <2> QED
    BY <1>1, <2>3, <2>4, <2>5, <2>6, <2>10, <2>11, Zenon
<1> QED
  BY <1>2, <1>3, <1>4

LEMMA RenderedParts ==
  ASSUME NEW U, NEW e \in Seq(U), NEW C \in SUBSET U, NEW s \in Seq(C)
  PROVE  \A t \in Seq(C) : Edit!Rendered(s \o t, e) = Edit!Rendered(s, e) \o Edit!Rendered(t, e)
<1>1. PICK T \in SUBSET Seq(C) :
        T = {t \in Seq(C) : Edit!Rendered(s \o t, e) = Edit!Rendered(s, e) \o Edit!Rendered(t, e)}
  OBVIOUS
<1>2. PICK r \in Seq(U) : r = Edit!Rendered(s, e)
  BY RenderedIs
<1>3. <<>> \in T
  <2>1. s \o <<>> = s /\ r \o <<>> = r /\ <<>> \in Seq(C)
    BY ConcatEmptySeq, EmptySeq
  <2>2. Edit!Rendered(<<>>, e) = <<>>
    BY RenderedIs, Zenon
  <2>3. Edit!Rendered(s \o <<>>, e) = Edit!Rendered(s, e) \o Edit!Rendered(<<>>, e)
    BY <1>2, <2>1, <2>2, Zenon
  <2> QED
    BY <1>1, <2>1, <2>3
<1>4. ASSUME NEW t \in T, NEW c \in C PROVE Append(t, c) \in T
  <2>1. t \in Seq(C) /\ Edit!Rendered(s \o t, e) = r \o Edit!Rendered(t, e)
    BY <1>1, <1>2
  <2>2. PICK q \in Seq(U) : q = Edit!Rendered(t, e)
    BY <2>1, RenderedIs
  <2>3. PICK y \in Seq(U) : y = Unit(c, e)
    <3>1. <<c>> \in Seq(U)
      BY Single
    <3> QED
      BY <3>1 DEF Unit
  <2>4. s \o t \in Seq(C) /\ Append(t, c) \in Seq(C)
    BY <2>1, ConcatProperties, AppendProperties
  <2>5. s \o Append(t, c) = Append(s \o t, c)
    BY <2>1, ConcatAppend
  <2>6. Edit!Rendered(Append(s \o t, c), e) = (r \o q) \o y
    BY <2>1, <2>2, <2>3, <2>4, RenderedIs, Zenon
  <2>7. Edit!Rendered(Append(t, c), e) = q \o y
    BY <2>1, <2>2, <2>3, RenderedIs, Zenon
  <2>8. (r \o q) \o y = r \o (q \o y)
    <3>1. Associates(r, q, y)
      BY Association
    <3> QED
      BY <3>1 DEF Associates
  <2>9. Edit!Rendered(s \o Append(t, c), e) = Edit!Rendered(s, e) \o Edit!Rendered(Append(t, c), e)
    BY <1>2, <2>5, <2>6, <2>7, <2>8, Zenon
  <2> QED
    BY <1>1, <2>4, <2>9
<1>5. \A t \in Seq(C) : t \in T
  BY <1>3, <1>4, SeqInduction
<1> QED
  BY <1>1, <1>5

\* A line has nothing to render.
LEMMA RenderedLine ==
  ASSUME NEW U, NEW e \in Seq(U), Char \subseteq U
  PROVE  \A s \in Seq(Plain) : Edit!Rendered(s, e) = s
<1>1. PICK T \in SUBSET Seq(Plain) : T = {s \in Seq(Plain) : Edit!Rendered(s, e) = s}
  OBVIOUS
<1>2. PICK C \in SUBSET U : C = Plain
  BY DEF Char
<1>3. <<>> \in T
  <2>1. <<>> \in Seq(Plain)
    BY EmptySeq
  <2>2. Edit!Rendered(<<>>, e) = <<>>
    BY RenderedIs, Zenon
  <2> QED
    BY <1>1, <2>1, <2>2
<1>4. ASSUME NEW s \in T, NEW c \in Plain PROVE Append(s, c) \in T
  <2>1. s \in Seq(Plain) /\ Edit!Rendered(s, e) = s
    BY <1>1
  <2>2. Edit!Rendered(Append(s, c), e) = s \o Unit(c, e)
    BY <1>2, <2>1, RenderedIs, Zenon
  <2>3. c # Edit!Newline
    BY DEF Plain
  <2>4. Append(s, c) = s \o <<c>> /\ Append(s, c) \in Seq(Plain)
    BY <2>1, AppendIsConcat, AppendProperties
  <2>5. Edit!Rendered(Append(s, c), e) = Append(s, c)
    BY <2>2, <2>3, <2>4, Zenon DEF Unit
  <2> QED
    BY <1>1, <2>4, <2>5
<1>5. \A s \in Seq(Plain) : s \in T
  BY <1>3, <1>4, SeqInduction
<1> QED
  BY <1>1, <1>5

\* The lines of the reference, joined with the ending of the document.
LEMMA RenderedLines ==
  ASSUME NEW U, NEW e \in Seq(U), Char \subseteq U
  PROVE  \A ss \in Seq(Seq(Plain)) : Edit!Rendered(Edit!Flat(ss), e) = Edit!joinLines(ss, e)
<1>1. PICK V : V = Seq(Plain)
  OBVIOUS
<1>2. PICK T \in SUBSET Seq(V) : T = {ss \in Seq(V) : Edit!Rendered(Edit!Flat(ss), e) = Edit!joinLines(ss, e)}
  OBVIOUS
<1>3. PICK C \in SUBSET U : C = Char /\ Edit!Newline \in C
  BY DEF Char
<1>4. <<>> \in T
  <2>1. <<>> \in Seq(V)
    BY EmptySeq
  <2>2. Edit!Flat(<<>>) = <<>>
    BY <1>3, FlatIs, Zenon
  <2>3. Edit!joinLines(<<>>, e) = <<>>
    BY LinesAre, Zenon
  <2>4. Edit!Rendered(<<>>, e) = <<>>
    BY RenderedIs, Zenon
  <2> QED
    BY <1>2, <2>1, <2>2, <2>3, <2>4
<1>5. ASSUME NEW ss \in T, NEW x \in V PROVE Append(ss, x) \in T
  <2>1. ss \in Seq(V) /\ Edit!Rendered(Edit!Flat(ss), e) = Edit!joinLines(ss, e)
    BY <1>2
  <2>2. Append(ss, x) \in Seq(V)
    BY <2>1, AppendProperties
  <2>3. ss \in Seq(Seq(C)) /\ x \in Seq(C)
    <3>1. Plain \subseteq C
      BY <1>3 DEF Char
    <3>2. x \in Seq(C)
      BY <1>1, <3>1, SeqMonotonic
    <3> QED
      BY <1>1, <1>3, <2>1, <3>2, LinesOfChar
  <2>4. ss \in Seq(Seq(U)) /\ x \in Seq(U)
    <3>1. \A s \in Seq(C) : s \in Seq(U)
      BY SeqMonotonic
    <3>2. PICK W, X : W = Seq(C) /\ X = Seq(U) /\ W \subseteq X
      BY <3>1
    <3>3. ss \in Seq(W)
      BY <2>3, <3>2
    <3>4. ss \in Seq(X)
      BY <3>2, <3>3, SeqMonotonic
    <3> QED
      BY <2>3, <3>1, <3>2, <3>4
  <2>5. PICK o \in Seq(C) : o = <<Edit!Newline>>
    BY <1>3, Single
  <2>6. Edit!Rendered(o, e) = e
    <3>1. <<>> \in Seq(C) /\ o = Append(<<>>, Edit!Newline)
      BY <2>5, EmptySeq
    <3>2. Edit!Rendered(Append(<<>>, Edit!Newline), e) = <<>> \o Unit(Edit!Newline, e)
      BY <1>3, <3>1, RenderedIs, Zenon
    <3>3. <<>> \o e = e
      BY ConcatEmptySeq
    <3> QED
      BY <3>1, <3>2, <3>3, Zenon DEF Unit
  <2>7. Edit!Rendered(x, e) = x
    BY <1>1, RenderedLine
  <2>8. PICK y \in Seq(C) : y = IF ss = <<>> THEN x ELSE o \o x
    <3>1. o \o x \in Seq(C)
      BY <2>3, ConcatProperties
    <3> QED
      BY <2>3, <3>1
  <2>9. Edit!Rendered(y, e) = IF ss = <<>> THEN x ELSE e \o x
    <3>1. Edit!Rendered(o \o x, e) = Edit!Rendered(o, e) \o Edit!Rendered(x, e)
      BY <2>3, RenderedParts
    <3> QED
      BY <2>6, <2>7, <2>8, <3>1, Zenon
  <2>10. PICK f \in Seq(C) : f = Edit!Flat(ss)
    BY <1>3, <2>3, FlatIs
  <2>11. Edit!Flat(Append(ss, x)) = f \o y
    BY <1>3, <2>3, <2>5, <2>8, <2>10, FlatIs, Zenon
  <2>12. Edit!Rendered(f \o y, e) = Edit!Rendered(f, e) \o Edit!Rendered(y, e)
    BY RenderedParts
  <2>13. Edit!joinLines(Append(ss, x), e)
           = Edit!joinLines(ss, e) \o (IF ss = <<>> THEN x ELSE e \o x)
    BY <2>4, LineAfter, Zenon
  <2>14. Edit!Rendered(Edit!Flat(Append(ss, x)), e) = Edit!joinLines(Append(ss, x), e)
    BY <2>1, <2>9, <2>10, <2>11, <2>12, <2>13, Zenon
  <2> QED
    BY <1>2, <2>2, <2>14
<1>6. \A ss \in Seq(V) : ss \in T
  BY <1>4, <1>5, SeqInduction
<1> QED
  BY <1>1, <1>2, <1>6

\* An ending has a newline at its end.
Ending(e) == e # <<>> /\ e[Len(e)] = Edit!Newline

LEMMA EndingIs ==
  ASSUME NEW U, NEW c, {Edit!Return, Edit!Newline} \subseteq U
  PROVE  Edit!lineEnding(c) \in Seq(U) /\ Ending(Edit!lineEnding(c))
<1>1. Edit!lineEnding(c) \in {<<Edit!Return, Edit!Newline>>, <<Edit!Newline>>}
  BY Zenon DEF Edit!lineEnding
<1>2. PICK r \in U, n \in U : r = Edit!Return /\ n = Edit!Newline
  OBVIOUS
<1>3. <<r, n>> \in Seq(U) /\ <<n>> \in Seq(U)
  OBVIOUS
<1>4. Ending(<<r, n>>) /\ Ending(<<n>>)
  BY <1>2 DEF Ending
<1> QED
  BY <1>1, <1>2, <1>3, <1>4

LEMMA RenderedEnds ==
  ASSUME NEW U, NEW e \in Seq(U), Ending(e), Char \subseteq U, NEW s \in Seq(Char)
  PROVE  Edit!EndsWith(Edit!Rendered(s, e), e) <=> EndsWithNewline(s)
<1>1. PICK m \in Nat : m = Len(e) /\ m > 0 /\ e[m] = Edit!Newline /\ m \in 1..m
  <2>1. Len(e) \in Nat \ {0}
    BY EmptySeq DEF Ending
  <2> QED
    BY <2>1 DEF Ending
<1>2. PICK C \in SUBSET U : C = Char
  OBVIOUS
<1>3. CASE s = <<>>
  <2>1. Edit!Rendered(s, e) = <<>>
    BY <1>3, RenderedIs, Zenon
  <2>2. ~(Len(<<>>) >= m)
    BY <1>1
  <2> QED
    BY <1>1, <1>3, <2>1, <2>2, Zenon DEF Edit!EndsWith, EndsWithNewline
<1>4. CASE s # <<>>
  <2>1. PICK t \in Seq(C), c \in C : s = Append(t, c)
    BY <1>2, <1>4, SequenceEmptyOrAppend
  <2>2. PICK r \in Seq(U) : r = Edit!Rendered(t, e)
    BY RenderedIs
  <2>3. PICK y \in Seq(U) : y = Unit(c, e) /\ y # <<>>
    <3>1. <<c>> \in Seq(U) /\ <<c>> # <<>>
      OBVIOUS
    <3> QED
      BY <3>1 DEF Unit, Ending
  <2>4. Edit!Rendered(s, e) = r \o y
    BY <2>1, <2>2, <2>3, RenderedIs, Zenon
  <2>5. PICK q \in Seq(U), n \in Nat : q = r \o y /\ n = Len(q) /\ n > 0 /\ q[n] = y[Len(y)]
    <3>1. r \o y \in Seq(U)
      BY ConcatProperties
    <3>2. r \o y # <<>> /\ (r \o y)[Len(r \o y)] = y[Len(y)]
      BY <2>3, LastOf
    <3>3. Len(r \o y) \in Nat \ {0}
      BY <3>1, <3>2, EmptySeq
    <3>4. PICK q \in Seq(U) : q = r \o y
      BY <3>1
    <3>5. PICK n \in Nat : n = Len(q) /\ n > 0
      BY <3>3, <3>4
    <3>6. q[n] = y[Len(y)]
      BY <3>2, <3>4, <3>5, Zenon
    <3> QED
      BY <3>4, <3>5, <3>6, Zenon
  <2>6. EndsWithNewline(s) <=> c = Edit!Newline
    <3>1. PICK k \in Nat : k = Len(t)
      BY LenProperties
    <3>2. Len(s) = k + 1 /\ s[k + 1] = c
      BY <2>1, <3>1, AppendProperties
    <3>3. Last(s) = c
      BY <3>2 DEF Last
    <3> QED
      BY <1>4, <3>3 DEF EndsWithNewline
  <2>7. CASE c = Edit!Newline
    <3>1. y = e
      BY <2>3, <2>7 DEF Unit
    <3>2. PICK k \in Nat : /\ k = Len(r) /\ n = k + m
                           /\ \A i \in 1..m : q[k + i] = e[i]
      <4>1. Concats(U, r, e)
        BY ConcatsIs
      <4>2. Len(r) \in Nat
        BY LenProperties
      <4> QED
        BY <1>1, <2>5, <3>1, <4>1, <4>2, Zenon DEF Concats
    <3>3. n >= m /\ n - m + 1 = k + 1 /\ k \in 0..n /\ k + 1 <= n
      BY <1>1, <3>2
    <3>4. PICK d \in Seq(U) : /\ d = SubSeq(q, k + 1, n) /\ Len(d) = m
                              /\ \A i \in 1..m : d[i] = q[k + i]
      <4>1. IsLeft(U, q, k, m)
        BY <1>1, <2>5, <3>2, LeftOver
      <4> QED
        BY <3>2, <4>1, Zenon DEF IsLeft
    <3>5. d = e
      <4>1. \A i \in 1..m : d[i] = e[i]
        BY <3>2, <3>4
      <4> QED
        BY <1>1, <3>4, <4>1, SeqEqual
    <3>6. Edit!EndsWith(q, e)
      BY <1>1, <2>5, <3>3, <3>4, <3>5 DEF Edit!EndsWith
    <3> QED
      BY <2>4, <2>5, <2>6, <2>7, <3>6, Zenon
  <2>8. CASE c # Edit!Newline
    <3> SUFFICES ASSUME Edit!EndsWith(q, e) PROVE FALSE
      BY <2>4, <2>5, <2>6, <2>8, Zenon
    <3>1. n >= m /\ SubSeq(q, n - m + 1, n) = e
      BY <1>1, <2>5 DEF Edit!EndsWith
    <3>2. e[m] = q[n]
      <4>1. PICK k \in Nat : n = k + m
        <5>1. n - m \in Nat /\ n = (n - m) + m
          BY <1>1, <2>5, <3>1
        <5> QED
          BY <5>1
      <4>2. n - m + 1 = k + 1
        BY <1>1, <4>1
      <4>3. PICK d \in Seq(U) : d = SubSeq(q, k + 1, k + m) /\ \A i \in 1..m : d[i] = q[k + i]
        <5>1. IsLeft(U, q, k, m)
          BY <1>1, <2>5, <4>1, LeftOver
        <5> QED
          BY <5>1, Zenon DEF IsLeft
      <4>4. d = e
        BY <3>1, <4>1, <4>2, <4>3
      <4> QED
        BY <1>1, <4>1, <4>3, <4>4
    <3>3. y = <<c>>
      BY <2>3, <2>8 DEF Unit
    <3>4. q[n] = c
      BY <2>5, <3>3
    <3> QED
      BY <1>1, <2>8, <3>2, <3>4
  <2> QED
    BY <2>7, <2>8
<1> QED
  BY <1>3, <1>4

\* The newline that the text had at its end is there again.
Whole(old, new) ==
  IF EndsWithNewline(old) /\ ~EndsWithNewline(new) THEN Append(new, Edit!Newline) ELSE new

\* The text that is written, when ss are the lines of the document and tt those
\* that the edits left.
LEMMA WrittenIs ==
  ASSUME NEW U, NEW e \in Seq(U), Ending(e), Char \subseteq U,
         NEW ss \in Seq(Seq(Plain)), NEW tt \in Seq(Seq(Plain))
  PROVE  Edit!Ended(Edit!joinLines(tt, e), Edit!joinLines(ss, e), e)
           = Edit!Rendered(Whole(Edit!Flat(ss), Edit!Flat(tt)), e)
<1>1. PICK C \in SUBSET U : C = Char /\ Edit!Newline \in C
  BY DEF Char
<1>2. PICK f \in Seq(C), g \in Seq(C) : f = Edit!Flat(ss) /\ g = Edit!Flat(tt)
  <2>1. ss \in Seq(Seq(C)) /\ tt \in Seq(Seq(C))
    BY <1>1, LinesOfChar
  <2>2. Edit!Flat(ss) \in Seq(C) /\ Edit!Flat(tt) \in Seq(C)
    BY <1>1, <2>1, FlatIs
  <2> QED
    BY <2>2
<1>3. Edit!joinLines(ss, e) = Edit!Rendered(f, e) /\ Edit!joinLines(tt, e) = Edit!Rendered(g, e)
  BY <1>2, RenderedLines
<1>4. Edit!EndsWith(Edit!Rendered(f, e), e) <=> EndsWithNewline(f)
  BY <1>1, RenderedEnds
<1>5. Edit!EndsWith(Edit!Rendered(g, e), e) <=> EndsWithNewline(g)
  BY <1>1, RenderedEnds
<1>6. Edit!Rendered(Append(g, Edit!Newline), e) = Edit!Rendered(g, e) \o e
  <2>1. Edit!Rendered(Append(g, Edit!Newline), e) = Edit!Rendered(g, e) \o Unit(Edit!Newline, e)
    BY <1>1, RenderedIs, Zenon
  <2> QED
    BY <2>1 DEF Unit
<1> QED
  BY <1>2, <1>3, <1>4, <1>5, <1>6, Zenon DEF Edit!Ended, Whole

-----------------------------------------------------------------------------
(* What may become of the document                                           *)

\* What the property says of the edits.
Overlapping ==
  \E i, j \in DOMAIN edits :
    /\ i # j
    /\ Edit!OffsetOf(doc, edits[i].start) < Edit!OffsetOf(doc, edits[j].end)
    /\ Edit!OffsetOf(doc, edits[j].start) < Edit!OffsetOf(doc, edits[i].end)

NotBefore(i) ==
  [j \in DOMAIN edits |->
     IF Edit!Before(edits[j].start, edits[i].start) THEN Edit!Nothing ELSE edits[j]]

Empties(i) ==
  /\ Edit!Empty(edits[i].text)
  /\ BlankAt(Edit!Simultaneously(doc, NotBefore(i)), Edit!OffsetOf(doc, edits[i].start))

Differ ==
  \A i, j \in DOMAIN edits :
    i # j => Edit!OffsetOf(doc, edits[i].start) # Edit!OffsetOf(doc, edits[j].start)

\* The text that the file must have.
Expected == Edit!Rendered(Whole(Edit!Flat(doc), Edit!Simultaneously(doc, edits)), ending)

LEMMA PropertyIs ==
  EditsAreSimultaneous <=>
    (content # NoFile =>
       /\ Edit!joinLines(doc, ending) = content
       /\ OneEnding =>
            /\ Overlapping => Edit!applyTextEdits(content, edits) = {Edit!Rejected}
            /\ ~Overlapping /\ Differ /\ (\A i \in DOMAIN edits : ~Empties(i))
                 => \A r \in Edit!applyTextEdits(content, edits) : r = Edit!Written(Expected))
BY Zenon DEF EditsAreSimultaneous, Overlapping, NotBefore, Empties, Differ, Whole, Expected

LEMMA PlacesOfChanges ==
  ASSUME NEW i \in DOMAIN edits
  PROVE  /\ Changes.from[i] = Edit!OffsetOf(doc, edits[i].start)
         /\ Changes.to[i] = Edit!OffsetOf(doc, edits[i].end)
BY DEF Changes

LEMMA OverlapIs ==
  ASSUME EditsInv
  PROVE  /\ Overlapping <=> \E i, j \in DOMAIN edits : i < j /\ Edit!rangesOverlap(edits[i], edits[j])
         /\ ~Overlapping => Apart
<1>1. \A i, j \in DOMAIN edits :
        Edit!rangesOverlap(edits[i], edits[j])
          <=> Changes.from[i] < Changes.to[j] /\ Changes.from[j] < Changes.to[i]
  BY OverlapsAre
<1>2. \A i \in DOMAIN edits : /\ Changes.from[i] = Edit!OffsetOf(doc, edits[i].start)
                              /\ Changes.to[i] = Edit!OffsetOf(doc, edits[i].end)
  BY PlacesOfChanges
<1>3. Overlapping <=> \E i, j \in DOMAIN edits : i # j /\ Edit!rangesOverlap(edits[i], edits[j])
  <2>1. \A i, j \in DOMAIN edits :
          Edit!rangesOverlap(edits[i], edits[j])
            <=> /\ Edit!OffsetOf(doc, edits[i].start) < Edit!OffsetOf(doc, edits[j].end)
                /\ Edit!OffsetOf(doc, edits[j].start) < Edit!OffsetOf(doc, edits[i].end)
    <3> SUFFICES ASSUME NEW i \in DOMAIN edits, NEW j \in DOMAIN edits
                 PROVE  Edit!rangesOverlap(edits[i], edits[j])
                          <=> /\ Edit!OffsetOf(doc, edits[i].start) < Edit!OffsetOf(doc, edits[j].end)
                              /\ Edit!OffsetOf(doc, edits[j].start) < Edit!OffsetOf(doc, edits[i].end)
      OBVIOUS
    <3>1. Edit!rangesOverlap(edits[i], edits[j])
            <=> Changes.from[i] < Changes.to[j] /\ Changes.from[j] < Changes.to[i]
      BY <1>1
    <3>2. Changes.from[i] = Edit!OffsetOf(doc, edits[i].start) /\ Changes.to[i] = Edit!OffsetOf(doc, edits[i].end)
      BY <1>2
    <3>3. Changes.from[j] = Edit!OffsetOf(doc, edits[j].start) /\ Changes.to[j] = Edit!OffsetOf(doc, edits[j].end)
      BY <1>2
    <3> QED
      BY <3>1, <3>2, <3>3, Zenon
  <2> QED
    BY <2>1, Zenon DEF Overlapping
<1>4. ASSUME NEW i \in DOMAIN edits, NEW j \in DOMAIN edits, i # j, Edit!rangesOverlap(edits[i], edits[j])
      PROVE  \E k, l \in DOMAIN edits : k < l /\ Edit!rangesOverlap(edits[k], edits[l])
  <2>1. i < j \/ j < i
    <3>1. DOMAIN edits = 1..Len(edits) /\ Len(edits) \in Nat
      BY EditIs
    <3> QED
      BY <1>4, <3>1
  <2>2. Edit!rangesOverlap(edits[j], edits[i])
    BY <1>1, <1>4, Zenon
  <2> QED
    BY <1>4, <2>1, <2>2, Zenon
<1>5. ASSUME NEW i \in DOMAIN edits, NEW j \in DOMAIN edits, i < j PROVE i # j
  <2>1. DOMAIN edits = 1..Len(edits) /\ Len(edits) \in Nat
    BY EditIs
  <2> QED
    BY <1>5, <2>1
<1>6. Overlapping <=> \E i, j \in DOMAIN edits : i < j /\ Edit!rangesOverlap(edits[i], edits[j])
  BY <1>3, <1>4, <1>5, Zenon
<1>7. ~Overlapping => Apart
  BY <1>2, Zenon DEF Overlapping, Apart
<1> QED
  BY <1>6, <1>7

LEMMA EmptiedIs ==
  ASSUME EditsInv, NEW s, NEW n, LastFirst(s, n), NEW k \in 1..n, Emptied(Done(s, k - 1), s[k])
  PROVE  s[k] \in DOMAIN edits /\ Empties(s[k])
<1>1. PICK i \in DOMAIN edits : i = s[k]
  BY DoneGrows
<1>2. PICK D \in SUBSET DOMAIN edits : D = Done(s, k) /\ D = Done(s, k - 1) \cup {i}
  BY <1>1, DoneGrows
<1>3. \A j \in DOMAIN edits : j \in D <=> ~Edit!Before(edits[j].start, edits[i].start)
  BY <1>1, <1>2, DoneAre
<1>4. NotBefore(i) = Masked(D)
  BY <1>3, Zenon DEF NotBefore, Masked
<1>5. Edit!Simultaneously(doc, Masked(D)) = Made(Changes, D)
  BY SimultaneousIs
<1>6. Changes.from[i] = Edit!OffsetOf(doc, edits[i].start)
  BY PlacesOfChanges
<1>7. Empties(i)
  BY <1>1, <1>2, <1>4, <1>5, <1>6, Zenon DEF Emptied, Empties
<1> QED
  BY <1>1, <1>7

\* The lines have the characters of the document and of the texts.
LEMMA RunType ==
  ASSUME EditsInv, NEW s, NEW n, LastFirst(s, n), NEW g, EditRun(g, s, n)
  PROVE  g[n].lines \in Seq(Seq(Plain))
<1>1. PICK P : P = FoldType(Plain)
  OBVIOUS
<1>2. n \in Nat
  BY DEF LastFirst
<1>3. PICK T \in SUBSET Nat : T = {k \in Nat : k <= n => g[k] \in P}
  OBVIOUS
<1>4. 0 \in T
  <2>1. g[0] = [ok |-> TRUE, lines |-> doc]
    BY Zenon DEF EditRun, Edit!Edited
  <2>2. PICK W : W = Seq(Seq(Plain))
    OBVIOUS
  <2>3. doc \in W
    BY <2>2 DEF EditsInv
  <2>4. g[0] \in [ok : BOOLEAN, lines : W]
    BY <2>1, <2>3
  <2>5. g[0] \in P
    BY <1>1, <2>2, <2>4, Zenon DEF FoldType
  <2> QED
    BY <1>3, <2>5
<1>5. ASSUME NEW k \in T PROVE k + 1 \in T
  <2>1. k \in Nat /\ (k <= n => g[k] \in P)
    BY <1>3
  <2> SUFFICES ASSUME k + 1 <= n PROVE g[k + 1] \in P
    BY <1>3, <2>1
  <2>2. PICK l \in 1..n : l = k + 1 /\ l - 1 = k
    BY <1>2, <2>1
  <2>3. k <= n
    BY <1>2, <2>1
  <2>4. PICK i \in DOMAIN edits : i = s[l]
    BY DEF LastFirst
  <2>5. IsEdit(Plain, edits[i])
    <3>1. IsEdit(Char, edits[i])
      BY EditOf
    <3>2. edits[i].text \in Seq(Seq(Plain))
      <4>1. PICK E : E = [start : Positions, end : Positions, text : PlainTexts]
        OBVIOUS
      <4>2. edits \in Seq(E)
        BY <4>1 DEF EditsInv
      <4>3. edits[i] \in E
        BY <4>2, EditIs, ElementOfSeq
      <4>4. edits[i].text \in PlainTexts
        BY <4>1, <4>3
      <4> QED
        BY <4>4, AlgorithmsAssumption DEF PlainTexts
    <3> QED
      BY <3>1, <3>2, Zenon DEF IsEdit
  <2>6. Edit!Step(g[k], edits[i]) \in P
    BY <1>1, <2>1, <2>3, <2>5, StepType, Zenon
  <2>7. g[l] = Edit!Step(g[l - 1], edits[s[l]])
    BY DEF EditRun
  <2> QED
    BY <2>2, <2>4, <2>6, <2>7, Zenon
<1>6. T = Nat
  BY <1>4, <1>5, Induction
<1>7. g[n] \in P
  BY <1>2, <1>3, <1>6
<1> QED
  BY <1>1, <1>7 DEF FoldType

LEMMA ResultIs ==
  ASSUME EditsInv, NEW s \in Edit!Sortings(edits), ~Overlapping, Differ,
         \A i \in DOMAIN edits : ~Empties(i), NEW r,
         r = Edit!FoldLeft(Edit!Step, Edit!Edited(doc), [i \in DOMAIN edits |-> edits[s[i]]])
  PROVE  r.ok /\ Edit!Ended(Edit!joinLines(r.lines, ending), Edit!joinLines(doc, ending), ending) = Expected
<1>1. PICK n : n = Len(edits)
  OBVIOUS
<1>2. Starts
  <2>1. \A i \in DOMAIN edits : Changes.from[i] = Edit!OffsetOf(doc, edits[i].start)
    BY PlacesOfChanges
  <2> QED
    BY <2>1, Zenon DEF Differ, Starts
<1>3. LastFirst(s, n)
  BY <1>1, <1>2, OverlapIs, SortedIs, Zenon
<1>4. n \in Nat /\ DOMAIN edits = 1..n /\ s \in [1..n -> 1..n]
  BY <1>3 DEF LastFirst
<1>5. PICK es : es = [i \in DOMAIN edits |-> edits[s[i]]]
  OBVIOUS
<1>6. DOMAIN es = 1..n /\ \A k \in 1..n : es[k] = edits[s[k]]
  BY <1>4, <1>5
<1>7. AreEdits(Char, es, n)
  BY <1>4, <1>6, EditOf DEF AreEdits
<1>8. doc \in Seq(Seq(Char))
  BY LinesOfChar DEF EditsInv
<1>9. PICK g : IsRun(g, doc, es, n)
  BY <1>4, <1>7, <1>8, EditsRun
<1>10. EditRun(g, s, n) /\ r = g[n]
  BY <1>5, <1>6, <1>9, Zenon DEF EditRun, IsRun
<1>11. NoneEmptied(s, n)
  BY <1>3, EmptiedIs, Zenon DEF NoneEmptied
<1>12. r.ok /\ Holds(r.lines, DOMAIN edits)
  BY <1>3, <1>10, <1>11, StepsEnd, Zenon
<1>13. Edit!Flat(r.lines) = Edit!Simultaneously(doc, edits)
  BY <1>12, AllSimultaneous, Zenon DEF Holds
<1>14. r.lines \in Seq(Seq(Plain))
  BY <1>3, <1>10, RunType, Zenon
<1>15. Edit!Ended(Edit!joinLines(r.lines, ending), Edit!joinLines(doc, ending), ending)
         = Edit!Rendered(Whole(Edit!Flat(doc), Edit!Flat(r.lines)), ending)
  <2>1. PICK U : U = Char \cup {Edit!Return, Edit!Newline}
    OBVIOUS
  <2>2. ending \in Seq(U) /\ Ending(ending) /\ Char \subseteq U
    BY <2>1, EndingIs DEF ending
  <2>3. doc \in Seq(Seq(Plain))
    BY DEF EditsInv
  <2> QED
    BY <1>14, <2>2, <2>3, WrittenIs
<1> QED
  BY <1>12, <1>13, <1>15, Zenon DEF Expected

\* The file and the edits, whatever characters they have.
FileInv ==
  /\ content \in Seq(Characters) \cup {NoFile}
  /\ edits \in Seq([start : Positions, end : Positions, text : Texts])
  /\ \A i \in DOMAIN edits : ~Edit!Before(edits[i].end, edits[i].start)

LEMMA SplitDocument ==
  ASSUME FileInv, content # NoFile
  PROVE  Edit!joinLines(doc, ending) = content /\ doc = Edit!splitLines(content, ending)
<1>1. PICK U : U = Characters \cup {Edit!Return, Edit!Newline}
  OBVIOUS
<1>2. ending \in Seq(U)
  BY <1>1, EndingIs DEF ending
<1>3. content \in Seq(U)
  <2>1. content \in Seq(Characters) /\ Characters \subseteq U
    BY <1>1 DEF FileInv
  <2> QED
    BY <2>1, SeqMonotonic
<1>4. doc = Edit!splitLines(content, ending)
  BY DEF doc
<1> QED
  BY <1>2, <1>3, <1>4, SplitIs DEF AreLines

LEMMA PlainInv ==
  ASSUME FileInv, OneEnding
  PROVE  EditsInv
<1>1. PICK E, F : /\ E = [start : Positions, end : Positions, text : Texts]
                  /\ F = [start : Positions, end : Positions, text : PlainTexts]
  OBVIOUS
<1>2. edits \in Seq(E)
  BY <1>1 DEF FileInv
<1>3. PICK n \in Nat : n = Len(edits) /\ DOMAIN edits = 1..n
  BY <1>2, LenProperties
<1>4. ASSUME NEW i \in 1..n PROVE edits[i] \in F
  <2>1. edits[i] \in E
    BY <1>2, <1>3, ElementOfSeq
  <2>2. edits[i].text \in Seq(Seq(Plain))
    BY <1>3 DEF OneEnding
  <2>3. edits[i].text \in PlainTexts
    BY <1>1, <2>1, <2>2 DEF PlainTexts
  <2> QED
    BY <1>1, <2>1, <2>3
<1>5. edits = [i \in 1..n |-> edits[i]]
  BY <1>2, <1>3
<1>6. edits \in Seq(F)
  BY <1>4, <1>5
<1> QED
  BY <1>1, <1>6 DEF EditsInv, FileInv, OneEnding

LEMMA SimultaneousHolds ==
  ASSUME FileInv
  PROVE  EditsAreSimultaneous
<1> SUFFICES ASSUME content # NoFile, OneEnding
             PROVE  /\ Overlapping => Edit!applyTextEdits(content, edits) = {Edit!Rejected}
                    /\ ~Overlapping /\ Differ /\ (\A i \in DOMAIN edits : ~Empties(i))
                         => \A r \in Edit!applyTextEdits(content, edits) : r = Edit!Written(Expected)
  BY PropertyIs, SplitDocument, Zenon
<1>1. EditsInv
  BY PlainInv
<1>2. Overlapping <=> \E i, j \in DOMAIN edits : i < j /\ Edit!rangesOverlap(edits[i], edits[j])
  BY <1>1, OverlapIs
<1>3. Overlapping => Edit!applyTextEdits(content, edits) = {Edit!Rejected}
  BY <1>2, Zenon DEF Edit!applyTextEdits
<1>4. ASSUME ~Overlapping, Differ, \A i \in DOMAIN edits : ~Empties(i),
             NEW q \in Edit!applyTextEdits(content, edits)
      PROVE  q = Edit!Written(Expected)
  <2>0. Edit!lineEnding(content) = ending /\ Edit!splitLines(content, ending) = doc
        /\ content = Edit!joinLines(doc, ending)
    BY SplitDocument DEF ending
  <2>1. PICK s \in Edit!Sortings(edits) :
          \E r : /\ r = Edit!FoldLeft(Edit!Step, Edit!Edited(doc), [i \in DOMAIN edits |-> edits[s[i]]])
                 /\ q = IF r.ok THEN Edit!Written(Edit!Ended(Edit!joinLines(r.lines, ending), content, ending))
                        ELSE Edit!Rejected
    BY <1>2, <1>4, <2>0, Zenon DEF Edit!applyTextEdits
  <2>2. PICK r :
          /\ r = Edit!FoldLeft(Edit!Step, Edit!Edited(doc), [i \in DOMAIN edits |-> edits[s[i]]])
          /\ q = IF r.ok THEN Edit!Written(Edit!Ended(Edit!joinLines(r.lines, ending), content, ending))
                 ELSE Edit!Rejected
    BY <2>1
  <2>3. r.ok /\ Edit!Ended(Edit!joinLines(r.lines, ending), Edit!joinLines(doc, ending), ending) = Expected
    BY <1>1, <1>4, <2>2, ResultIs, Zenon
  <2> QED
    BY <2>0, <2>2, <2>3, Zenon
<1> QED
  BY <1>3, <1>4

-----------------------------------------------------------------------------
(* The theorems *)

AlgorithmsInv == steps \in Seq(Steps) /\ resources \in Seq(Resources) /\ history \in Seq(Messages)

LEMMA InputsGrow ==
  ASSUME AlgorithmsInv, [AlgorithmsNext]_inputs
  PROVE  AlgorithmsInv'
<1>1. ASSUME NEW s \in Steps, TakeStep(s) PROVE AlgorithmsInv'
  BY <1>1 DEF TakeStep, AlgorithmsInv
<1>2. ASSUME NEW r \in Resources, AddResource(r) PROVE AlgorithmsInv'
  BY <1>2 DEF AddResource, AlgorithmsInv
<1>3. ASSUME NEW from \in Positions, NEW to \in Positions, NEW text \in Texts, AddEdit(from, to, text)
      PROVE  AlgorithmsInv'
  BY <1>3 DEF AddEdit, AlgorithmsInv
<1>4. ASSUME NEW m \in Messages, AddMessage(m) PROVE AlgorithmsInv'
  BY <1>4 DEF AddMessage, AlgorithmsInv
<1>5. CASE UNCHANGED inputs
  BY <1>5 DEF inputs, AlgorithmsInv
<1> QED
  BY <1>1, <1>2, <1>3, <1>4, <1>5 DEF AlgorithmsNext

\* The detector stops a turn as soon as one of its windows has a signature
\* too often, and never a turn that has no such window.
THEOREM LoopsAreSeen == AlgorithmsSpec => []NoLoopIsMissed
<1>1. AlgorithmsInit => AlgorithmsInv /\ NoLoopIsMissed
  <2> SUFFICES ASSUME AlgorithmsInit PROVE AlgorithmsInv /\ NoLoopIsMissed
    OBVIOUS
  <2>1. steps = <<>> /\ resources = <<>> /\ history = <<>> /\ windowSize \in Nat \ {0}
    BY AlgorithmsAssumption DEF AlgorithmsInit
  <2>2. Len(steps) = 0 /\ 1..(Len(steps) - windowSize + 1) = {}
    BY <2>1
  <2>3. ~Loop!hasRepeatedToolCalls(steps)
    BY <2>1, <2>2 DEF Loop!hasRepeatedToolCalls
  <2>4. NoLoopIsMissed
    BY <2>1, <2>2, <2>3, Missed
  <2> QED
    BY <2>1, <2>4 DEF AlgorithmsInv
<1>2. AlgorithmsInv /\ NoLoopIsMissed /\ [AlgorithmsNext]_inputs => AlgorithmsInv' /\ NoLoopIsMissed'
  <2> SUFFICES ASSUME AlgorithmsInv, NoLoopIsMissed, [AlgorithmsNext]_inputs PROVE NoLoopIsMissed'
    BY InputsGrow
  <2>1. windowSize \in Nat \ {0} /\ LoopInv
    BY AlgorithmsAssumption DEF AlgorithmsInv, LoopInv
  <2>2. ASSUME NEW s \in Steps, TakeStep(s) PROVE NoLoopIsMissed'
    BY <2>1, <2>2, LoopStep
  <2>3. CASE steps' = steps
    BY <2>3 DEF NoLoopIsMissed
  <2>4. (\E s \in Steps : TakeStep(s)) \/ steps' = steps
    BY DEF AlgorithmsNext, inputs, AddResource, AddEdit, AddMessage
  <2> QED
    BY <2>2, <2>3, <2>4
<1> QED
  BY <1>1, <1>2, PTL DEF AlgorithmsSpec

\* No resource is lost, doubled or moved before another of its intent, whether a
\* task is divided by its files or by its modules; divided by its files, it has
\* an intent above the target only where one resource is too large by itself.
THEOREM PartitionsAreWhole == AlgorithmsSpec => []PartitionIsWhole
<1>1. AlgorithmsInit => AlgorithmsInv
  BY DEF AlgorithmsInit, AlgorithmsInv
<1>2. AlgorithmsInv /\ [AlgorithmsNext]_inputs => AlgorithmsInv'
  BY InputsGrow
<1>3. AlgorithmsInv => PartitionIsWhole
  <2> SUFFICES ASSUME AlgorithmsInv PROVE PartitionIsWhole
    OBVIOUS
  <2>1. resources \in Seq(Resources) /\ MaxTokensPerIntent \in Nat \ {0}
    BY AlgorithmsAssumption DEF AlgorithmsInv
  <2>2. \A intents \in Part!PartitionOf(resources, "file") : WholeByFile(resources, intents)
    BY <2>1, PartitionKeeps
  <2>3. resources # <<>> =>
          \A intents \in Part!PartitionOf(resources, "module") : WholeByModule(resources, intents)
    BY <2>1, ModulesKeep
  <2> QED
    BY <2>2, <2>3 DEF PartitionIsWhole
<1> QED
  BY <1>1, <1>2, <1>3, PTL DEF AlgorithmsSpec

\* After a compaction that truncates, the last two messages and every task are
\* in the next turn, whole; after another, a summary is asked for when it is due.
THEOREM RecentMessagesAreSent == AlgorithmsSpec => []RecentIsSent
<1>1. AlgorithmsInit => AlgorithmsInv
  BY DEF AlgorithmsInit, AlgorithmsInv
<1>2. AlgorithmsInv /\ [AlgorithmsNext]_inputs => AlgorithmsInv'
  BY InputsGrow
<1>3. AlgorithmsInv => RecentIsSent
  BY RecentAreSent DEF AlgorithmsInv
<1> QED
  BY <1>1, <1>2, <1>3, PTL DEF AlgorithmsSpec

LEMMA EditsGrow ==
  ASSUME FileInv, [AlgorithmsNext]_inputs
  PROVE  FileInv'
<1>1. ASSUME NEW s \in Steps, TakeStep(s) PROVE FileInv'
  BY <1>1 DEF TakeStep, FileInv, Positions, doc, ending
<1>2. ASSUME NEW r \in Resources, AddResource(r) PROVE FileInv'
  BY <1>2 DEF AddResource, FileInv, Positions, doc, ending
<1>3. ASSUME NEW from \in Positions, NEW to \in Positions, NEW text \in Texts, AddEdit(from, to, text)
      PROVE  FileInv'
  <2>1. PICK E, e : /\ E = [start : Positions, end : Positions, text : Texts]
                    /\ e = [start |-> from, end |-> to, text |-> text]
    OBVIOUS
  <2>2. e \in E /\ edits \in Seq(E)
    BY <2>1 DEF FileInv
  <2>3. edits' = Append(edits, e) /\ content' = content /\ ~Edit!Before(e.end, e.start)
    BY <1>3, <2>1 DEF AddEdit
  <2>4. edits' \in Seq(E)
    BY <2>2, <2>3, AppendProperties
  <2>5. Positions' = Positions
    BY <2>3 DEF Positions, doc, ending
  <2>6. \A i \in DOMAIN edits' : ~Edit!Before(edits'[i].end, edits'[i].start)
    <3>1. PICK n \in Nat : n = Len(edits) /\ DOMAIN edits = 1..n
      BY <2>2, LenProperties
    <3>2. /\ DOMAIN edits' = 1..(n + 1) /\ edits'[n + 1] = e
          /\ \A i \in 1..n : edits'[i] = edits[i]
      BY <2>2, <2>3, <3>1, AppendProperties
    <3>3. \A i \in 1..(n + 1) : i \in 1..n \/ i = n + 1
      OBVIOUS
    <3> QED
      BY <2>3, <3>1, <3>2, <3>3, Zenon DEF FileInv
  <2> QED
    BY <2>1, <2>3, <2>4, <2>5, <2>6 DEF FileInv, Edit!Before
<1>4. ASSUME NEW m \in Messages, AddMessage(m) PROVE FileInv'
  BY <1>4 DEF AddMessage, FileInv, Positions, doc, ending
<1>5. CASE UNCHANGED inputs
  BY <1>5 DEF inputs, FileInv, Positions, doc, ending
<1> QED
  BY <1>1, <1>2, <1>3, <1>4, <1>5 DEF AlgorithmsNext

\* The lines in which edits are made are all of the file.  Where the file has one
\* line ending and no new text has a "\r", edits that overlap are all rejected,
\* and others come to the file as if all were made at once, with its ending in
\* every line, whatever the order in which the sort leaves them; so they do for
\* any such file, any number of edits and any such texts.
THEOREM EditsComeAtOnce == AlgorithmsSpec => []EditsAreSimultaneous
<1>1. AlgorithmsInit => FileInv
  <2> SUFFICES ASSUME AlgorithmsInit PROVE FileInv
    OBVIOUS
  <2>1. content \in Seq(Characters) \cup {NoFile} /\ edits = <<>>
    BY AlgorithmsAssumption DEF AlgorithmsInit
  <2>2. DOMAIN edits = {}
    BY <2>1
  <2>3. \A E : edits \in Seq(E)
    BY <2>1
  <2> QED
    BY <2>1, <2>2, <2>3, Zenon DEF FileInv
<1>2. FileInv /\ [AlgorithmsNext]_inputs => FileInv'
  BY EditsGrow
<1>3. FileInv => EditsAreSimultaneous
  BY SimultaneousHolds
<1> QED
  BY <1>1, <1>2, <1>3, PTL DEF AlgorithmsSpec
=============================================================================

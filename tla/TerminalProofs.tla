--------------------------- MODULE TerminalProofs ---------------------------
(***************************************************************************)
(* Proofs about Terminal, for any sessions, providers and bounds.  Of the  *)
(* keyboard: a request of an agent has its dialog on the stack, a key      *)
(* dialog that verifies has its answer on the way, and an Escape is        *)
(* forgotten.  Of the list: while it follows, its end is shown.  Of the    *)
(* view: the chat that events build is the chat that a load builds.        *)
(*                                                                         *)
(* The stack is seen as a set of dialogs, of which none is there twice.    *)
(* Most steps are calm: they neither open nor close the dialog of a        *)
(* request, nor verify, nor touch the messages that the invariant is       *)
(* about.  One lemma shows that calm steps keep the invariant; each of     *)
(* the others has a lemma of its own.                                      *)
(*                                                                         *)
(* The chat: the event of the next write makes of the chat of a load the   *)
(* chat of the next load (SetStep); the events of writes that a load has   *)
(* already read leave no mark once all are handled (Like, LikeStep); and   *)
(* the channel has, in order, what the chat has not seen (QueueInv).       *)
(***************************************************************************)
EXTENDS Terminal, SequenceTheorems, WellFoundedInduction, TLAPS

-----------------------------------------------------------------------------
(* The stack *)

Values == Providers \cup Sessions \cup {None} \cup Nat

Ids == {"quit", "models", "commands", "arguments", "reasoning", "files", "sessions", "permissions",
        "apikey", "oauth"}

Modes == {"plain", "custom", "prompt", "renaming", "deleting", "initial", "verifying", "verified",
          "error", "initializing", "display", "success"}

DialogSet == [id : Ids, mode : Modes, of : Values, token : Values]

\* No dialog is on the stack twice.
Distinct(ds) == \A i, j \in 1..Len(ds) : ds[i].id = ds[j].id => i = j

StackOK(ds) == ds \in Seq(DialogSet) /\ Distinct(ds)

\* The first dialog of an id is the only one.
LEMMA SelectIs ==
  ASSUME NEW ds, Distinct(ds), NEW k \in 1..Len(ds), NEW id, ds[k].id = id
  PROVE  /\ {i \in 1..Len(ds) : ds[i].id = id} # {}
         /\ Min({i \in 1..Len(ds) : ds[i].id = id}) = k
<1>1. {i \in 1..Len(ds) : ds[i].id = id} = {k}
  BY DEF Distinct
<1>2. Min({k}) = k
  BY DEF Min
<1> QED
  BY <1>1, <1>2

LEMMA CloseDialogAt ==
  ASSUME NEW ds, Distinct(ds), NEW k \in 1..Len(ds), NEW id, ds[k].id = id
  PROVE  CloseDialog(ds, id) = SubSeq(ds, 1, k - 1) \o SubSeq(ds, k + 1, Len(ds))
<1>1. CloseDialog(ds, id) = RemoveAt(ds, k)
  BY SelectIs DEF CloseDialog, RemoveFirstMatch, SelectInSeq
<1> QED
  BY <1>1 DEF RemoveAt

LEMMA CloseDialogOther ==
  ASSUME NEW ds, NEW id, \A i \in 1..Len(ds) : ds[i].id # id
  PROVE  CloseDialog(ds, id) = ds
BY DEF CloseDialog, RemoveFirstMatch

\* What is left when one element is taken out.
LEMMA Removed ==
  ASSUME NEW S, NEW ds \in Seq(S), NEW k \in 1..Len(ds),
         NEW r, r = SubSeq(ds, 1, k - 1) \o SubSeq(ds, k + 1, Len(ds))
  PROVE  /\ r \in Seq(S) /\ Len(r) = Len(ds) - 1
         /\ \A i \in 1..(Len(ds) - 1) : r[i] = IF i < k THEN ds[i] ELSE ds[i + 1]
<1> DEFINE a == SubSeq(ds, 1, k - 1)
           b == SubSeq(ds, k + 1, Len(ds))
<1>1. /\ a \in Seq(S) /\ Len(a) = k - 1
      /\ \A i \in 1..(k - 1) : a[i] = ds[i]
  BY SubSeqProperties
<1>2. /\ b \in Seq(S) /\ Len(b) = Len(ds) - k
      /\ \A i \in 1..(Len(ds) - k) : b[i] = ds[k + i]
  BY SubSeqProperties
<1>3. r = a \o b
  OBVIOUS
<1> HIDE DEF a, b
<1>4. /\ a \o b \in Seq(S) /\ Len(a \o b) = Len(a) + Len(b)
      /\ \A i \in 1..(Len(a) + Len(b)) : (a \o b)[i] = IF i <= Len(a) THEN a[i] ELSE b[i - Len(a)]
  BY <1>1, <1>2, ConcatProperties
<1>5. Len(ds) \in Nat /\ k \in 1..Len(ds)
  OBVIOUS
<1>6. Len(a) + Len(b) = Len(ds) - 1
  BY <1>1, <1>2, <1>5
<1>7. ASSUME NEW i \in 1..(Len(ds) - 1)
      PROVE  r[i] = IF i < k THEN ds[i] ELSE ds[i + 1]
  <2>1. r[i] = IF i <= k - 1 THEN a[i] ELSE b[i - (k - 1)]
    BY <1>1, <1>3, <1>4, <1>6
  <2>2. CASE i < k
    <3>1. i \in 1..(k - 1) /\ i <= k - 1
      BY <1>5, <2>2
    <3>2. a[i] = ds[i]
      BY <1>1, <3>1
    <3> QED
      BY <2>1, <2>2, <3>1, <3>2
  <2>3. CASE ~(i < k)
    <3>1. i - (k - 1) \in 1..(Len(ds) - k) /\ k + (i - (k - 1)) = i + 1 /\ ~(i <= k - 1)
      BY <1>5, <2>3
    <3>2. b[i - (k - 1)] = ds[i + 1]
      BY <1>2, <3>1
    <3> QED
      BY <2>1, <2>3, <3>1, <3>2
  <2> QED
    BY <2>2, <2>3
<1> QED
  BY <1>3, <1>4, <1>6, <1>7

\* Closing a dialog takes it out and leaves the others in their order.
LEMMA CloseDialogIs ==
  ASSUME NEW ds, StackOK(ds), NEW id
  PROVE  /\ StackOK(CloseDialog(ds, id))
         /\ Range(CloseDialog(ds, id)) = {d \in Range(ds) : d.id # id}
<1> USE DEF StackOK
<1>0. \A e \in Seq(DialogSet) : DOMAIN e = 1..Len(e) /\ Len(e) \in Nat
  OBVIOUS
<1>1. CASE \A i \in 1..Len(ds) : ds[i].id # id
  BY <1>0, <1>1, CloseDialogOther DEF Range
<1>2. ASSUME NEW k \in 1..Len(ds), ds[k].id = id
      PROVE  /\ StackOK(CloseDialog(ds, id))
             /\ Range(CloseDialog(ds, id)) = {d \in Range(ds) : d.id # id}
  <2>1. PICK r : r = CloseDialog(ds, id)
    OBVIOUS
  <2>2. PICK n \in Nat : n = Len(ds)
    BY <1>0
  <2>3. /\ r \in Seq(DialogSet) /\ Len(r) = n - 1
        /\ \A i \in 1..(n - 1) : r[i] = IF i < k THEN ds[i] ELSE ds[i + 1]
    <3>1. r = SubSeq(ds, 1, k - 1) \o SubSeq(ds, k + 1, Len(ds))
      BY <1>2, <2>1, CloseDialogAt
    <3> QED
      BY <2>2, <3>1, Removed
  <2>4. DOMAIN ds = 1..n /\ DOMAIN r = 1..(n - 1) /\ k \in 1..n
    BY <1>0, <1>2, <2>2, <2>3
  <2>5. \A i, j \in 1..n : ds[i].id = ds[j].id => i = j
    BY <2>2 DEF Distinct
  <2>6. \A i \in 1..(n - 1) : \E m \in 1..n : r[i] = ds[m] /\ m # k /\ m = IF i < k THEN i ELSE i + 1
    BY <2>3, <2>4
  <2>7. Distinct(r)
    <3>1. ASSUME NEW i \in 1..(n - 1), NEW j \in 1..(n - 1), r[i].id = r[j].id
          PROVE  i = j
      <4>1. PICK m \in 1..n : r[i] = ds[m] /\ m = IF i < k THEN i ELSE i + 1
        BY <2>6
      <4>2. PICK o \in 1..n : r[j] = ds[o] /\ o = IF j < k THEN j ELSE j + 1
        BY <2>6
      <4>3. m = o
        BY <2>5, <3>1, <4>1, <4>2
      <4> QED
        BY <2>4, <4>1, <4>2, <4>3
    <3> QED
      BY <2>3, <3>1 DEF Distinct
  <2>8. \A i \in 1..(n - 1) : \E m \in 1..n : r[i] = ds[m] /\ ds[m].id # id
    <3>1. \A m \in 1..n : m # k => ds[m].id # id
      BY <1>2, <2>4, <2>5
    <3> QED
      BY <2>6, <3>1
  <2>9. ASSUME NEW m \in 1..n, ds[m].id # id
        PROVE  \E i \in 1..(n - 1) : r[i] = ds[m]
    <3>1. CASE m < k
      <4>1. m \in 1..(n - 1)
        BY <2>4, <3>1
      <4> QED
        BY <2>3, <3>1, <4>1
    <3>2. CASE m > k
      <4>1. m - 1 \in 1..(n - 1) /\ ~(m - 1 < k) /\ (m - 1) + 1 = m
        BY <2>4, <3>2
      <4>2. r[m - 1] = ds[m]
        BY <2>3, <4>1
      <4> QED
        BY <4>1, <4>2
    <3>3. m # k
      BY <1>2, <2>9
    <3> QED
      BY <2>4, <3>1, <3>2, <3>3
  <2>10. Range(r) = {d \in Range(ds) : d.id # id}
    <3>1. Range(r) = {r[i] : i \in 1..(n - 1)} /\ Range(ds) = {ds[m] : m \in 1..n}
      BY <2>4 DEF Range
    <3>2. \A d \in Range(r) : d \in Range(ds) /\ d.id # id
      BY <2>8, <3>1
    <3>3. \A d \in Range(ds) : d.id # id => d \in Range(r)
      BY <2>9, <3>1
    <3> QED
      BY <3>2, <3>3
  <2> QED
    BY <2>1, <2>3, <2>7, <2>10
<1> QED
  BY <1>1, <1>2

\* A dialog that is not there yet is opened in front.
LEMMA AppendIs ==
  ASSUME NEW ds, StackOK(ds), NEW d \in DialogSet, \A e \in Range(ds) : e.id # d.id
  PROVE  /\ StackOK(Append(ds, d))
         /\ Range(Append(ds, d)) = Range(ds) \cup {d}
<1>1. PICK r : r = Append(ds, d)
  OBVIOUS
<1>2. PICK n \in Nat : n = Len(ds) /\ DOMAIN ds = 1..n
  BY DEF StackOK
<1>3. /\ r \in Seq(DialogSet) /\ Len(r) = n + 1 /\ DOMAIN r = 1..(n + 1)
      /\ \A i \in 1..n : r[i] = ds[i]
      /\ r[n + 1] = d
  BY <1>1, <1>2, AppendProperties DEF StackOK
<1>4. \A i \in 1..n : ds[i] \in Range(ds)
  BY <1>2 DEF Range
<1>5. \A i \in 1..(n + 1) : i \in 1..n \/ i = n + 1
  BY <1>2
<1>6. Distinct(r)
  BY <1>2, <1>3, <1>4, <1>5 DEF Distinct, StackOK
<1>7. Range(r) = Range(ds) \cup {d}
  <2>1. Range(r) = {r[i] : i \in 1..(n + 1)} /\ Range(ds) = {ds[i] : i \in 1..n}
    BY <1>2, <1>3 DEF Range
  <2>2. \A e \in Range(r) : e \in Range(ds) \cup {d}
    BY <1>3, <1>5, <2>1
  <2>3. \A e \in Range(ds) \cup {d} : e \in Range(r)
    <3>1. \A i \in 1..n : i \in 1..(n + 1)
      BY <1>2
    <3>2. n + 1 \in 1..(n + 1)
      BY <1>2
    <3> QED
      BY <1>3, <2>1, <3>1, <3>2
  <2> QED
    BY <2>2, <2>3
<1> QED
  BY <1>1, <1>3, <1>6, <1>7 DEF StackOK

LEMMA ContainsIs ==
  ASSUME NEW ds, NEW id
  PROVE  ContainsDialog(ds, id) <=> \E d \in Range(ds) : d.id = id
BY DEF ContainsDialog, Range

\* A dialog that is there comes to the front as it is.
LEMMA OpenDialogIs ==
  ASSUME NEW ds, StackOK(ds), NEW d \in DialogSet
  PROVE  /\ StackOK(OpenDialog(ds, d))
         /\ Range(OpenDialog(ds, d)) =
              IF ContainsDialog(ds, d.id) THEN Range(ds) ELSE Range(ds) \cup {d}
<1>1. CASE ~ContainsDialog(ds, d.id)
  BY <1>1, AppendIs, ContainsIs DEF OpenDialog
<1>2. CASE ContainsDialog(ds, d.id)
  <2>1. PICK k \in 1..Len(ds) : ds[k].id = d.id
    BY <1>2 DEF ContainsDialog, StackOK
  <2>2. OpenDialog(ds, d) = Append(CloseDialog(ds, d.id), ds[k])
    BY <1>2, <2>1, SelectIs DEF OpenDialog, BringToFront, StackOK, SelectInSeq
  <2>3. /\ StackOK(CloseDialog(ds, d.id))
        /\ Range(CloseDialog(ds, d.id)) = {e \in Range(ds) : e.id # d.id}
    BY CloseDialogIs
  <2>4. ds[k] \in DialogSet /\ ds[k] \in Range(ds)
    BY <2>1, ElementOfSeq DEF StackOK, Range
  <2>5. /\ StackOK(OpenDialog(ds, d))
        /\ Range(OpenDialog(ds, d)) = Range(CloseDialog(ds, d.id)) \cup {ds[k]}
    BY <2>1, <2>2, <2>3, <2>4, AppendIs
  <2>6. \A e \in Range(ds) : e.id = d.id => e = ds[k]
    BY <2>1 DEF Range, StackOK, Distinct
  <2> QED
    BY <1>2, <2>3, <2>4, <2>5, <2>6
<1> QED
  BY <1>1, <1>2

LEMMA LastIs ==
  ASSUME NEW ds, StackOK(ds), ds # <<>>
  PROVE  /\ Last(ds) \in Range(ds) /\ Last(ds) \in DialogSet
         /\ \A e \in Range(ds) : e.id = Last(ds).id => e = Last(ds)
<1>1. Len(ds) \in 1..Len(ds) /\ DOMAIN ds = 1..Len(ds)
  BY DEF StackOK
<1>2. ds[Len(ds)] \in DialogSet
  BY <1>1, ElementOfSeq DEF StackOK
<1> QED
  BY <1>1, <1>2 DEF Last, Range, StackOK, Distinct

\* The dialog in front is closed.
LEMMA CloseFrontIs ==
  ASSUME NEW ds, StackOK(ds), ds # <<>>
  PROVE  /\ StackOK(CloseFrontDialog(ds))
         /\ Range(CloseFrontDialog(ds)) = Range(ds) \ {Last(ds)}
<1>1. PICK n \in Nat : n = Len(ds) /\ DOMAIN ds = 1..n /\ n > 0
  BY DEF StackOK
<1>2. PICK r : r = SubSeq(ds, 1, n - 1) /\ r = CloseFrontDialog(ds)
  BY <1>1 DEF CloseFrontDialog, Front
<1>3. /\ r \in Seq(DialogSet) /\ Len(r) = n - 1 /\ DOMAIN r = 1..(n - 1)
      /\ \A i \in 1..(n - 1) : r[i] = ds[i]
  <2>1. \A i \in 1..(n - 1) : ds[i] \in DialogSet
    BY <1>1, ElementOfSeq DEF StackOK
  <2>2. 1 \in Int /\ n - 1 \in Int
    BY <1>1
  <2>3. /\ SubSeq(ds, 1, n - 1) \in Seq(DialogSet)
        /\ Len(SubSeq(ds, 1, n - 1)) = IF 1 <= n - 1 THEN n - 1 - 1 + 1 ELSE 0
        /\ \A i \in 1..(n - 1 - 1 + 1) : SubSeq(ds, 1, n - 1)[i] = ds[1 + i - 1]
    BY <2>1, <2>2, SubSeqProperties
  <2>4. n - 1 - 1 + 1 = n - 1 /\ \A i \in 1..(n - 1) : 1 + i - 1 = i
    BY <1>1
  <2> QED
    BY <1>1, <1>2, <2>3, <2>4
<1>4. \A i \in 1..n : i \in 1..(n - 1) \/ i = n
  BY <1>1
<1>5. \A i \in 1..(n - 1) : i \in 1..n /\ i # n
  BY <1>1
<1>6. \A i, j \in 1..n : ds[i].id = ds[j].id => i = j
  BY <1>1 DEF StackOK, Distinct
<1>7. Distinct(r)
  BY <1>3, <1>5, <1>6 DEF Distinct
<1>8. Range(r) = Range(ds) \ {Last(ds)}
  <2>1. /\ Range(r) = {r[i] : i \in 1..(n - 1)} /\ Range(ds) = {ds[i] : i \in 1..n}
        /\ Last(ds) = ds[n] /\ n \in 1..n
    BY <1>1, <1>3 DEF Range, Last
  <2>2. \A e \in Range(r) : e \in Range(ds) /\ e # ds[n]
    BY <1>3, <1>5, <1>6, <2>1
  <2>3. \A e \in Range(ds) : e # ds[n] => e \in Range(r)
    BY <1>3, <1>4, <2>1
  <2> QED
    BY <2>1, <2>2, <2>3
<1> QED
  BY <1>2, <1>3, <1>7, <1>8 DEF StackOK

\* The dialog in front changes.
LEMMA ChangeFrontIs ==
  ASSUME StackOK(stack), stack # <<>>, NEW d \in DialogSet, d.id = DialogLast.id, ChangeFront(d)
  PROVE  /\ StackOK(stack')
         /\ Range(stack') = (Range(stack) \ {DialogLast}) \cup {d}
<1>1. PICK n \in Nat : n = Len(stack) /\ DOMAIN stack = 1..n /\ n > 0 /\ n \in 1..n
  BY DEF StackOK
<1>2. /\ stack' \in Seq(DialogSet) /\ Len(stack') = n /\ DOMAIN stack' = 1..n
      /\ \A i \in 1..n : stack'[i] = IF i = n THEN d ELSE stack[i]
  BY <1>1, ExceptSeq DEF ChangeFront, StackOK
<1>3. DialogLast = stack[n]
  BY <1>1 DEF DialogLast, Last
<1>4. \A i, j \in 1..n : stack[i].id = stack[j].id => i = j
  BY <1>1 DEF StackOK, Distinct
<1>5. Distinct(stack')
  BY <1>1, <1>2, <1>3, <1>4 DEF Distinct
<1>6. Range(stack') = (Range(stack) \ {stack[n]}) \cup {d}
  <2>1. Range(stack') = {stack'[i] : i \in 1..n} /\ Range(stack) = {stack[i] : i \in 1..n}
    BY <1>1, <1>2 DEF Range
  <2>2. \A e \in Range(stack') : e \in (Range(stack) \ {stack[n]}) \cup {d}
    BY <1>1, <1>2, <1>4, <2>1
  <2>3. \A e \in (Range(stack) \ {stack[n]}) \cup {d} : e \in Range(stack')
    BY <1>1, <1>2, <2>1
  <2> QED
    BY <2>2, <2>3
<1> QED
  BY <1>2, <1>3, <1>5, <1>6 DEF StackOK

-----------------------------------------------------------------------------
(* The messages *)

\* An exchange leaves what it does not take, and brings what it puts.
LEMMA ExchangeIs ==
  ASSUME NEW out, NEW new, IsABag(inbox), Exchange(out, new)
  PROVE  /\ IsABag(inbox')
         /\ \A m \in new : BagIn(m, inbox')
         /\ \A m : m \notin out /\ BagIn(m, inbox) => BagIn(m, inbox')
         /\ \A m : m \notin new /\ BagIn(m, inbox') => BagIn(m, inbox)
<1> DEFINE mid == inbox (-) SetToBag(out)
<1>1. inbox' = mid (+) SetToBag(new)
  BY DEF Exchange
<1>2. \A m \in DOMAIN inbox : inbox[m] \in Nat /\ inbox[m] > 0
  BY DEF IsABag
<1>3. /\ \A m \in DOMAIN mid : m \in DOMAIN inbox /\ mid[m] \in Nat /\ mid[m] > 0
      /\ \A m \in DOMAIN inbox : m \notin out => m \in DOMAIN mid
  BY <1>2 DEF SetToBag, (-), BagIn
<1> QED
  BY <1>1, <1>3 DEF SetToBag, (+), BagIn, BagToSet, IsABag

\* The messages that the invariant is about.
Watched == {"permission", "verified", "timer"}

\* The messages that nobody sends before there is a model.
Later == {"prompt", "closeDialog", "pickFile"}

\* What every step but a few does with the messages.
InboxQuiet ==
  \/ inbox' = inbox
  \/ \E out, new :
       /\ Exchange(out, new)
       /\ \A m \in out : m.kind \notin Watched
       /\ \A m \in new : m.kind \notin {"permission", "verified"}
       /\ state' = "onboarding" => \A m \in new : m.kind \notin Later

LEMMA InboxQuietIs ==
  ASSUME IsABag(inbox), InboxQuiet
  PROVE  /\ IsABag(inbox')
         /\ \A kind \in {"permission", "verified"} : \A x : Waits(kind, x)' <=> Waits(kind, x)
         /\ Waits("timer", None) => Waits("timer", None)'
         /\ state' = "onboarding" => \A kind \in Later : \A x : Waits(kind, x)' => Waits(kind, x)
<1>1. CASE inbox' = inbox
  BY <1>1 DEF Waits
<1>2. ASSUME NEW out, NEW new, Exchange(out, new),
             \A m \in out : m.kind \notin Watched,
             \A m \in new : m.kind \notin {"permission", "verified"},
             state' = "onboarding" => \A m \in new : m.kind \notin Later
      PROVE  /\ IsABag(inbox')
             /\ \A kind \in {"permission", "verified"} : \A x : Waits(kind, x)' <=> Waits(kind, x)
             /\ Waits("timer", None) => Waits("timer", None)'
             /\ state' = "onboarding" => \A kind \in Later : \A x : Waits(kind, x)' => Waits(kind, x)
  <2>1. /\ IsABag(inbox')
        /\ \A m : m \notin out /\ BagIn(m, inbox) => BagIn(m, inbox')
        /\ \A m : m \notin new /\ BagIn(m, inbox') => BagIn(m, inbox)
    BY <1>2, ExchangeIs
  <2>2. \A kind, x : Msg(kind, x).kind = kind
    BY DEF Msg
  <2>3. \A kind \in Watched : \A x : Msg(kind, x) \notin out
    BY <1>2, <2>2
  <2>4. \A kind \in {"permission", "verified"} : \A x : Msg(kind, x) \notin new
    BY <1>2, <2>2
  <2>5. state' = "onboarding" => \A kind \in Later : \A x : Msg(kind, x) \notin new
    BY <1>2, <2>2
  <2> QED
    BY <2>1, <2>3, <2>4, <2>5 DEF Waits, Watched
<1> QED
  BY <1>1, <1>2 DEF InboxQuiet

-----------------------------------------------------------------------------
(* The invariant *)

TypeInv ==
  /\ IsABag(inbox) /\ listed \subseteq Sessions /\ asked \in Nat
  /\ torn \/ StackOK(stack)

\* A dialog for a key belongs to a provider that takes one; a permission dialog
\* has one mode; the commands and the arguments of one are not open together.
KindsInv ==
  /\ \A d \in Range(stack) :
       /\ d.id = "apikey" => d.of \in KeyProviders
       /\ d.id = "permissions" => d.mode = "plain"
  /\ \A d, e \in Range(stack) : ~(d.id = "commands" /\ e.id = "arguments")

\* Before there is a model there are no commands and no files.
OnboardingInv ==
  state = "onboarding" =>
    /\ read = None
    /\ \A kind \in Later : \A x : ~Waits(kind, x)
    /\ \A d \in Range(stack) : d.id \notin {"commands", "arguments", "files"}
    /\ \E d \in Range(stack) : d.id \in {"models", "apikey", "oauth"}

\* The request that waits is the last one, and its event comes after the others.
LastInv ==
  /\ request # None => request.n = asked /\ asked # 0
  /\ \A k \in 1..asked : Waits("permission", k) => Waits("permission", asked)

ShownInv ==
  request # None /\ ~Waits("permission", request.n)
    => \/ \E d \in Range(stack) : d.id = "permissions" /\ d.of = request.n
       \/ request.n \in swept

AnsweredInv ==
  \A d \in Range(stack) :
    d.id = "apikey" /\ d.mode = "verifying"
      => unheard \/ \E p \in KeyProviders : Waits("verified", p)

IInv ==
  /\ TypeInv /\ OnboardingInv /\ LastInv /\ EscapeIsForgotten
  /\ torn \/ (KindsInv /\ ShownInv /\ AnsweredInv)

-----------------------------------------------------------------------------
(* Steps that neither open nor close the dialog of a request, nor verify *)

\* Stack ds may follow the one there is.
Fits(ds) ==
  /\ StackOK(ds)
  /\ \A d \in Range(ds) :
       \/ d \in Range(stack)
       \/ /\ d.id # "permissions"
          /\ d.id = "apikey" => d.of \in KeyProviders /\ d.mode # "verifying"
  /\ \A d \in Range(stack) : d.id = "permissions" => d \in Range(ds)
  /\ \A d, e \in Range(ds) : ~(d.id = "commands" /\ e.id = "arguments")

\* Before there is a model, it has a dialog to get one.
FitsOnboarding(ds) ==
  state' = "onboarding" =>
    /\ state = "onboarding"
    /\ \A d \in Range(ds) : d.id \notin {"commands", "arguments", "files"}
    /\ \E d \in Range(ds) : d.id \in {"models", "apikey", "oauth"}

LEMMA FitsSame ==
  ASSUME IInv, ~torn
  PROVE  Fits(stack)
BY DEF IInv, TypeInv, KindsInv, Fits

LEMMA FitsOnboardingSame ==
  ASSUME IInv, state' = state \/ state' # "onboarding"
  PROVE  FitsOnboarding(stack)
BY DEF IInv, OnboardingInv, FitsOnboarding

LEMMA FitsClose ==
  ASSUME NEW ds, Fits(ds), NEW id, id # "permissions"
  PROVE  /\ Fits(CloseDialog(ds, id))
         /\ Range(CloseDialog(ds, id)) = {d \in Range(ds) : d.id # id}
BY CloseDialogIs DEF Fits

LEMMA FitsCloseFront ==
  ASSUME NEW ds, Fits(ds), ds # <<>>, Last(ds).id # "permissions"
  PROVE  /\ Fits(CloseFrontDialog(ds))
         /\ Range(CloseFrontDialog(ds)) = Range(ds) \ {Last(ds)}
BY CloseFrontIs, LastIs DEF Fits

\* A new dialog that is no permission request, and no verification.
Plainly(d) ==
  /\ d \in DialogSet /\ d.id # "permissions"
  /\ d.id = "apikey" => d.of \in KeyProviders /\ d.mode # "verifying"

LEMMA FitsOpen ==
  ASSUME NEW ds, Fits(ds), NEW d, Plainly(d), d.id \notin {"commands", "arguments"}
  PROVE  /\ Fits(OpenDialog(ds, d))
         /\ \A e \in Range(OpenDialog(ds, d)) : e \in Range(ds) \/ e = d
         /\ \A e \in Range(ds) : e \in Range(OpenDialog(ds, d))
         /\ \E e \in Range(OpenDialog(ds, d)) : e.id = d.id
<1>1. /\ StackOK(OpenDialog(ds, d))
      /\ Range(OpenDialog(ds, d)) = IF ContainsDialog(ds, d.id) THEN Range(ds) ELSE Range(ds) \cup {d}
  BY OpenDialogIs DEF Fits, Plainly
<1>2. \E e \in Range(OpenDialog(ds, d)) : e.id = d.id
  BY <1>1, ContainsIs
<1> QED
  BY <1>1, <1>2 DEF Fits, Plainly

LEMMA FitsAppend ==
  ASSUME NEW ds, Fits(ds), NEW d, Plainly(d), \A e \in Range(ds) : e.id # d.id,
         d.id = "commands" => \A e \in Range(ds) : e.id # "arguments",
         d.id = "arguments" => \A e \in Range(ds) : e.id # "commands"
  PROVE  /\ Fits(Append(ds, d))
         /\ Range(Append(ds, d)) = Range(ds) \cup {d}
BY AppendIs DEF Fits, Plainly

LEMMA PlainIs ==
  ASSUME NEW id \in Ids, NEW mode \in Modes, NEW of \in Values, NEW d, d = Dialog(id, mode, of)
  PROVE  d \in DialogSet /\ d.id = id /\ d.mode = mode /\ d.of = of
<1>1. None \in Values
  BY DEF Values
<1> QED
  BY <1>1 DEF Dialog, DialogSet

LEMMA FitsChange ==
  ASSUME Fits(stack), stack # <<>>, NEW d, Plainly(d), d.id = DialogLast.id, ChangeFront(d)
  PROVE  /\ Fits(stack')
         /\ Range(stack') = (Range(stack) \ {DialogLast}) \cup {d}
<1>1. /\ StackOK(stack')
      /\ Range(stack') = (Range(stack) \ {DialogLast}) \cup {d}
  BY ChangeFrontIs DEF Fits, Plainly
<1>2. DialogLast \in Range(stack)
  BY LastIs DEF Fits, DialogLast
<1> QED
  BY <1>1, <1>2 DEF Fits, Plainly

\* What most steps do.
Calm ==
  /\ Fits(stack') /\ FitsOnboarding(stack') /\ InboxQuiet
  /\ listed' \subseteq Sessions /\ asked' = asked /\ request' \in {request, None}
  /\ state' = "onboarding" => read' = None
  /\ isCanceling' => isCanceling
  /\ swept' = swept /\ unheard' = unheard

LEMMA CalmIsKept ==
  ASSUME IInv, ~torn, Calm
  PROVE  IInv'
<1> USE DEF IInv
<1>1. /\ IsABag(inbox')
      /\ \A kind \in {"permission", "verified"} : \A x : Waits(kind, x)' <=> Waits(kind, x)
      /\ Waits("timer", None) => Waits("timer", None)'
      /\ state' = "onboarding" => \A kind \in Later : \A x : Waits(kind, x)' => Waits(kind, x)
  BY InboxQuietIs DEF Calm, TypeInv
<1>2. TypeInv'
  BY <1>1 DEF Calm, TypeInv, Fits
<1>3. OnboardingInv'
  BY <1>1 DEF Calm, OnboardingInv, FitsOnboarding
<1>4. LastInv'
  BY <1>1 DEF Calm, LastInv
<1>5. EscapeIsForgotten'
  BY <1>1 DEF Calm, EscapeIsForgotten
<1>6. KindsInv'
  BY DEF Calm, Fits, KindsInv
<1>7. ShownInv'
  BY <1>1 DEF Calm, Fits, ShownInv
<1>8. AnsweredInv'
  BY <1>1 DEF Calm, Fits, AnsweredInv
<1> QED
  BY <1>2, <1>3, <1>4, <1>5, <1>6, <1>7, <1>8

-----------------------------------------------------------------------------
(* The steps that are calm *)

\* The parts of Calm that are about the stack, when it stays.
LEMMA StackStays ==
  ASSUME IInv, ~torn, stack' = stack, state' = state \/ state' # "onboarding"
  PROVE  Fits(stack') /\ FitsOnboarding(stack')
BY FitsSame, FitsOnboardingSame DEF Fits, FitsOnboarding

\* Whoever is in front is on the stack.
LEMMA FrontIsThere ==
  ASSUME IInv, ~torn, NEW id, NEW modes, InFront(id, modes)
  PROVE  /\ stack # <<>> /\ DialogLast \in Range(stack) /\ DialogLast.id = id /\ DialogLast \in DialogSet
         /\ \A e \in Range(stack) : e.id = id => e = DialogLast
BY LastIs DEF IInv, TypeInv, InFront, DialogLast

\* Before there is a model nobody is in front that needs one.
LEMMA NotOnboarding ==
  ASSUME IInv, ~torn, NEW id, NEW modes, InFront(id, modes), id \in {"commands", "arguments", "files"}
  PROVE  state # "onboarding"
BY FrontIsThere DEF IInv, OnboardingInv

\* A prompt that is sent puts the loading of its session and its run.
LEMMA SendIs ==
  ASSUME NEW rest, NEW new, sendMessage(rest, new)
  PROVE  /\ \E more : /\ Exchange(rest, more)
                     /\ \A m \in more : m \in new \/ m.kind \in {"load", "run"}
         /\ state' = state \/ state' # "onboarding"
         /\ listed \subseteq Sessions => listed' \subseteq Sessions
<1>1. CASE session = None
  <2>1. PICK s \in Sessions \ listed :
          /\ listed' = listed \cup {s} /\ state' = "chat"
          /\ Exchange(rest, new \cup {Msg("load", s), Msg("run", s)})
    BY <1>1 DEF sendMessage
  <2>2. \A m \in new \cup {Msg("load", s), Msg("run", s)} : m \in new \/ m.kind \in {"load", "run"}
    BY DEF Msg
  <2> QED
    BY <2>1, <2>2
<1>2. CASE session # None
  <2>1. Exchange(rest, new \cup {Msg("run", session)}) /\ listed' = listed /\ state' = state
    BY <1>2 DEF sendMessage
  <2>2. \A m \in new \cup {Msg("run", session)} : m \in new \/ m.kind \in {"load", "run"}
    BY DEF Msg
  <2> QED
    BY <2>1, <2>2
<1> QED
  BY <1>1, <1>2

\* Keys and messages that leave the stack alone.
LEMMA KeysAreCalm ==
  ASSUME IInv, ~torn,
         \/ SubmitKey \/ OpenURL \/ RunMCPPrompt \/ PickFile
         \/ SendKey \/ NewSessionKey \/ InitializeKey
  PROVE  Calm
<1> USE DEF ui, agent, ghosts
<1>0. listed \subseteq Sessions /\ (state = "onboarding" => read = None)
  BY DEF IInv, TypeInv, OnboardingInv
<1>1. stack' = stack /\ (state' = state \/ state' # "onboarding")
  BY DEF SubmitKey, OpenURL, RunMCPPrompt, PickFile, SendKey, NewSessionKey, InitializeKey,
     sendMessage, newSession
<1>2. Fits(stack') /\ FitsOnboarding(stack')
  BY <1>1, StackStays
<1>3. /\ listed' \subseteq Sessions /\ asked' = asked /\ request' = request /\ read' = read
      /\ isCanceling' = isCanceling /\ torn' = torn /\ swept' = swept /\ unheard' = unheard
  BY <1>0 DEF SubmitKey, OpenURL, RunMCPPrompt, PickFile, SendKey, NewSessionKey, InitializeKey,
     sendMessage
<1>4. InboxQuiet
  <2>1. CASE SubmitKey \/ OpenURL
    BY <2>1 DEF SubmitKey, OpenURL, Put, InboxQuiet, Msg, Later, Watched
  <2>2. CASE RunMCPPrompt \/ PickFile
    <3>1. state # "onboarding" /\ state' = state
      BY <2>2, NotOnboarding DEF RunMCPPrompt, PickFile
    <3> QED
      BY <2>2, <3>1 DEF RunMCPPrompt, PickFile, Put, InboxQuiet, Msg
  <2>3. CASE SendKey
    BY <2>3, SendIs DEF SendKey, InboxQuiet, Later
  <2>4. CASE NewSessionKey
    BY <2>4 DEF NewSessionKey, InboxQuiet
  <2>5. CASE InitializeKey
    BY <2>5 DEF InitializeKey, Put, InboxQuiet, Msg, Later
  <2> QED
    BY <2>1, <2>2, <2>3, <2>4, <2>5
<1> QED
  BY <1>0, <1>1, <1>2, <1>3, <1>4 DEF Calm

LEMMA RunsAreCalm ==
  ASSUME IInv, ~torn, NEW s \in Sessions,
         \/ loadSession(s) \/ SessionLoaded(s) \/ DeleteSession(s) \/ SessionDeleted(s)
         \/ StartRun(s) \/ StartSummary(s) \/ EndRun(s)
  PROVE  Calm
<1> USE DEF ui, agent, ghosts
<1>0. listed \subseteq Sessions /\ (state = "onboarding" => read = None)
  BY DEF IInv, TypeInv, OnboardingInv
<1>1. stack' = stack /\ (state' = state \/ state' # "onboarding")
  BY DEF loadSession, SessionLoaded, DeleteSession, SessionDeleted, StartRun, StartSummary, EndRun,
     newSession
<1>2. Fits(stack') /\ FitsOnboarding(stack')
  BY <1>1, StackStays
<1>3. /\ listed' \subseteq Sessions /\ asked' = asked /\ request' = request /\ read' = read
      /\ isCanceling' = isCanceling /\ torn' = torn /\ swept' = swept /\ unheard' = unheard
  BY <1>0 DEF loadSession, SessionLoaded, DeleteSession, SessionDeleted, StartRun, StartSummary, EndRun
<1>4. InboxQuiet
  <2>1. CASE loadSession(s) \/ DeleteSession(s)
    BY <2>1 DEF loadSession, DeleteSession, InboxQuiet, Msg, Later, Watched
  <2>2. CASE SessionLoaded(s) \/ SessionDeleted(s)
    BY <2>2 DEF SessionLoaded, SessionDeleted, Take, InboxQuiet, Msg, Watched
  <2>3. CASE StartRun(s) \/ StartSummary(s)
    BY <2>3 DEF StartRun, StartSummary, Take, InboxQuiet, Msg, Watched
  <2>4. CASE EndRun(s)
    BY <2>4 DEF EndRun, InboxQuiet
  <2> QED
    BY <2>1, <2>2, <2>3, <2>4
<1> QED
  BY <1>0, <1>1, <1>2, <1>3, <1>4 DEF Calm

\* A prompt that was fetched is sent.  A file that is picked.
LEMMA PromptsAreCalm ==
  ASSUME IInv, ~torn, ReadStack \/ \E kind \in {"prompt", "initialize"} : FetchedPrompt(kind)
  PROVE  Calm
<1> USE DEF ui, agent, ghosts
<1>0. listed \subseteq Sessions /\ (state = "onboarding" => read = None)
  BY DEF IInv, TypeInv, OnboardingInv
<1>1. stack' = stack /\ (state' = state \/ state' # "onboarding")
  BY DEF ReadStack, FetchedPrompt, sendMessage
<1>2. Fits(stack') /\ FitsOnboarding(stack')
  BY <1>1, StackStays
<1>3. /\ listed' \subseteq Sessions /\ asked' = asked /\ request' = request
      /\ isCanceling' = isCanceling /\ torn' = torn /\ swept' = swept /\ unheard' = unheard
  BY <1>0 DEF ReadStack, FetchedPrompt, sendMessage
<1>4. CASE ReadStack
  <2>1. state # "onboarding"
    BY <1>4 DEF ReadStack, Take, Waits, IInv, OnboardingInv, Later
  <2>2. InboxQuiet
    BY <1>4 DEF ReadStack, Take, InboxQuiet, Msg, Watched
  <2> QED
    BY <1>1, <1>2, <1>3, <1>4, <2>1, <2>2 DEF Calm, ReadStack
<1>5. ASSUME NEW kind \in {"prompt", "initialize"}, FetchedPrompt(kind)
      PROVE  Calm
  <2> DEFINE close == IF kind = "prompt" THEN {Msg("closeDialog", None)} ELSE {}
  <2>1. kind = "prompt" => state # "onboarding"
    BY <1>5 DEF FetchedPrompt, IInv, OnboardingInv, Later
  <2>2. \/ sendMessage({Msg(kind, None)}, close)
        \/ Exchange({Msg(kind, None)}, close) /\ state' = state
    BY <1>5 DEF FetchedPrompt
  <2>3. \A m \in close : m.kind = "closeDialog" /\ state # "onboarding"
    BY <2>1 DEF Msg
  <2>4. \A m \in {Msg(kind, None)} : m.kind \notin Watched
    BY DEF Msg, Watched
  <2> HIDE DEF close
  <2>5. PICK new : /\ Exchange({Msg(kind, None)}, new)
                   /\ \A m \in new : \/ m.kind \in {"load", "run"}
                                     \/ m.kind = "closeDialog" /\ state # "onboarding"
    <3>1. CASE Exchange({Msg(kind, None)}, close)
      BY <2>3, <3>1
    <3>2. CASE sendMessage({Msg(kind, None)}, close)
      BY <2>3, <3>2, SendIs
    <3> QED
      BY <2>2, <3>1, <3>2
  <2>6. InboxQuiet
    BY <1>1, <2>4, <2>5 DEF InboxQuiet, Later
  <2>7. read' = read
    BY <1>5 DEF FetchedPrompt
  <2> QED
    BY <1>0, <1>1, <1>2, <1>3, <2>6, <2>7 DEF Calm
<1> QED
  BY <1>4, <1>5

\* A dialog that is opened from a key or a command.
LEMMA PlainFits ==
  ASSUME NEW id \in Ids, id # "permissions", id # "apikey"
  PROVE  Plainly(Plain(id)) /\ Plain(id).id = id
<1>1. None \in Values
  BY DEF Values
<1>2. "plain" \in Modes
  BY DEF Modes
<1>3. PICK d : d = Dialog(id, "plain", None)
  OBVIOUS
<1>4. d \in DialogSet /\ d.id = id
  BY <1>1, <1>2, <1>3, PlainIs
<1> QED
  BY <1>3, <1>4 DEF Plain, Plainly

\* What a step that only changes the stack and the state has to show.
StaysElse ==
  /\ listed' = listed /\ asked' = asked /\ request' = request /\ read' = read
  /\ isCanceling' = isCanceling /\ torn' = torn /\ swept' = swept /\ unheard' = unheard

LEMMA CalmFrom ==
  ASSUME IInv, ~torn, StaysElse, Fits(stack'), FitsOnboarding(stack'), InboxQuiet
  PROVE  Calm
BY DEF IInv, TypeInv, OnboardingInv, FitsOnboarding, StaysElse, Calm

\* Escape closes the dialog in front, and opens the models again where there
\* is no model.
LEMMA CloseIsCalm ==
  ASSUME IInv, ~torn, Close
  PROVE  Calm
<1> USE DEF ui, agent, ghosts
<1>1. StaysElse /\ inbox' = inbox /\ state' = state
  BY DEF Close, StaysElse
<1>2. stack # <<>> /\ DialogLast.id # "permissions"
  BY DEF Close, Closes
<1>3. PICK rest : rest = CloseFrontDialog(stack)
  OBVIOUS
<1>4. Fits(rest)
  BY <1>2, <1>3, FitsSame, FitsCloseFront DEF DialogLast
<1>5. Range(rest) = Range(stack) \ {DialogLast}
  BY <1>2, <1>3, FitsSame, FitsCloseFront DEF DialogLast
<1>6. CASE state # "onboarding"
  <2>1. stack' = rest
    BY <1>3, <1>6 DEF Close, Show
  <2> QED
    BY <1>1, <1>4, <1>6, <2>1, CalmFrom DEF Fits, FitsOnboarding, InboxQuiet
<1>7. CASE state = "onboarding"
  <2>1. stack' = OpenDialog(rest, Plain("models"))
    BY <1>3, <1>7 DEF Close, Show
  <2>2. Plainly(Plain("models")) /\ Plain("models").id = "models"
    <3>1. "models" \in Ids
      BY DEF Ids
    <3> QED
      BY <3>1, PlainFits
  <2>3. /\ Fits(OpenDialog(rest, Plain("models")))
        /\ \A e \in Range(OpenDialog(rest, Plain("models"))) : e \in Range(rest) \/ e = Plain("models")
        /\ \E e \in Range(OpenDialog(rest, Plain("models"))) : e.id = Plain("models").id
    BY <1>4, <2>2, FitsOpen
  <2>4. \A d \in Range(stack) : d.id \notin {"commands", "arguments", "files"}
    BY <1>7 DEF IInv, OnboardingInv
  <2>5. FitsOnboarding(OpenDialog(rest, Plain("models")))
    BY <1>1, <1>5, <1>7, <2>2, <2>3, <2>4 DEF FitsOnboarding
  <2> QED
    BY <1>1, <2>1, <2>3, <2>5, CalmFrom DEF Fits, FitsOnboarding, InboxQuiet
<1> QED
  BY <1>6, <1>7

\* ctrl+c.
LEMMA QuitIsCalm ==
  ASSUME IInv, ~torn, OpenQuit
  PROVE  Calm
<1>1. StaysElse /\ inbox' = inbox /\ state' = state /\ stack' = Append(stack, Plain("quit"))
  BY DEF OpenQuit, Show, StaysElse, agent, ghosts
<1>2. Plainly(Plain("quit")) /\ Plain("quit").id = "quit"
  <2>1. "quit" \in Ids
    BY DEF Ids
  <2> QED
    BY <2>1, PlainFits
<1>3. Fits(stack)
  BY FitsSame
<1>4. \A e \in Range(stack) : e.id # "quit"
  BY ContainsIs DEF OpenQuit
<1>5. Fits(stack') /\ Range(stack') = Range(stack) \cup {Plain("quit")}
  BY <1>1, <1>2, <1>3, <1>4, FitsAppend DEF Fits
<1>6. FitsOnboarding(stack')
  BY <1>1, <1>2, <1>5 DEF FitsOnboarding, IInv, OnboardingInv
<1> QED
  BY <1>1, <1>5, <1>6, CalmFrom DEF InboxQuiet

\* A model is chosen.
LEMMA UseModelFits ==
  ASSUME IInv, ~torn, UseModel
  PROVE  Fits(stack') /\ FitsOnboarding(stack')
<1>1. Fits(CloseDialog(CloseDialog(CloseDialog(stack, "apikey"), "oauth"), "models"))
  BY FitsSame, FitsClose
<1> QED
  BY <1>1 DEF UseModel, FitsOnboarding, Fits

\* A dialog for the credentials of a provider.
LEMMA AuthFits ==
  ASSUME NEW p \in Providers, NEW d,
         d = IF p \in KeyProviders THEN Dialog("apikey", "initial", p)
             ELSE Dialog("oauth", "initializing", p)
  PROVE  Plainly(d) /\ d.id \in {"apikey", "oauth"}
<1>1. p \in Values
  BY DEF Values
<1>2. {"apikey", "oauth"} \subseteq Ids /\ {"initial", "initializing"} \subseteq Modes
  BY DEF Ids, Modes
<1>3. CASE p \in KeyProviders
  BY <1>1, <1>2, <1>3, PlainIs DEF Plainly
<1>4. CASE p \notin KeyProviders
  BY <1>1, <1>2, <1>4, PlainIs DEF Plainly
<1> QED
  BY <1>3, <1>4

LEMMA ModelsAreCalm ==
  ASSUME IInv, ~torn,
         SaveKey \/ \E p \in Providers : ImportCopilot(p) \/ \E again \in BOOLEAN : SelectModel(p, again)
  PROVE  Calm
<1> USE DEF ui, agent, ghosts
<1>1. CASE SaveKey
  <2>1. StaysElse /\ inbox' = inbox
    BY <1>1 DEF SaveKey, StaysElse
  <2>2. UseModel \/ (stack' = stack /\ state' = state)
    BY <1>1 DEF SaveKey
  <2>3. Fits(stack') /\ FitsOnboarding(stack')
    BY <2>2, UseModelFits, StackStays
  <2> QED
    BY <2>1, <2>3, CalmFrom DEF InboxQuiet
<1>2. ASSUME NEW p \in Providers, ImportCopilot(p)
      PROVE  Calm
  <2>1. StaysElse /\ inbox' = inbox /\ UseModel
    BY <1>2 DEF ImportCopilot, StaysElse
  <2> QED
    BY <2>1, UseModelFits, CalmFrom DEF InboxQuiet
<1>3. ASSUME NEW p \in Providers, NEW again \in BOOLEAN, SelectModel(p, again)
      PROVE  Calm
  <2>1. StaysElse
    BY <1>3 DEF SelectModel, StaysElse
  <2>2. CASE UseModel /\ inbox' = inbox
    BY <2>1, <2>2, UseModelFits, CalmFrom DEF InboxQuiet
  <2>3. CASE openAuthenticationDialog(p, CloseDialog(stack, "models")) /\ state' = state
    <3>1. PICK d : d = IF p \in KeyProviders THEN Dialog("apikey", "initial", p)
                       ELSE Dialog("oauth", "initializing", p)
      OBVIOUS
    <3>2. Plainly(d) /\ d.id \in {"apikey", "oauth"}
      BY <3>1, AuthFits
    <3>3. PICK rest : rest = CloseDialog(stack, "models")
      OBVIOUS
    <3>4. Fits(rest) /\ Range(rest) = {e \in Range(stack) : e.id # "models"}
      BY <3>3, FitsSame, FitsClose
    <3>5. stack' = OpenDialog(rest, d)
      BY <2>3, <3>1, <3>3 DEF openAuthenticationDialog, Show
    <3>6. /\ Fits(stack')
          /\ \A e \in Range(stack') : e \in Range(rest) \/ e = d
          /\ \E e \in Range(stack') : e.id = d.id
      <4>1. d.id \notin {"commands", "arguments"}
        BY <3>2
      <4> QED
        BY <3>2, <3>4, <3>5, <4>1, FitsOpen DEF Fits
    <3>7. FitsOnboarding(stack')
      <4>1. SUFFICES ASSUME state = "onboarding"
                     PROVE  FitsOnboarding(stack')
        BY <2>3 DEF FitsOnboarding
      <4>2. \A e \in Range(stack) : e.id \notin {"commands", "arguments", "files"}
        BY <4>1 DEF IInv, OnboardingInv
      <4> QED
        BY <3>2, <3>4, <3>6, <4>1, <4>2 DEF FitsOnboarding
    <3>8. InboxQuiet
      <4>1. inbox' = inbox \/ Put({Msg("initiate", p)})
        BY <2>3 DEF openAuthenticationDialog
      <4> QED
        BY <4>1 DEF Put, InboxQuiet, Msg, Later
    <3> QED
      BY <2>1, <3>6, <3>7, <3>8, CalmFrom
  <2> QED
    BY <1>3, <2>2, <2>3 DEF SelectModel
<1> QED
  BY <1>1, <1>2, <1>3

\* A dialog that no model needs is closed by its id.
LEMMA ClosesCalmly ==
  ASSUME IInv, ~torn, NEW id, id \notin {"models", "apikey", "oauth", "permissions"},
         stack' = CloseDialog(stack, id), state' = state \/ state' # "onboarding"
  PROVE  Fits(stack') /\ FitsOnboarding(stack')
<1>1. Fits(CloseDialog(stack, id)) /\ Range(CloseDialog(stack, id)) = {d \in Range(stack) : d.id # id}
  BY FitsSame, FitsClose
<1>2. FitsOnboarding(CloseDialog(stack, id))
  BY <1>1 DEF IInv, OnboardingInv, FitsOnboarding
<1> QED
  BY <1>1, <1>2 DEF Fits, FitsOnboarding

\* The dialog in front changes its mode.
LEMMA ChangesCalmly ==
  ASSUME IInv, ~torn, stack # <<>>, NEW d, Plainly(d), d.id = DialogLast.id, ChangeFront(d),
         state' = state
  PROVE  Fits(stack') /\ FitsOnboarding(stack')
<1>1. Fits(stack') /\ Range(stack') = (Range(stack) \ {DialogLast}) \cup {d}
  BY FitsSame, FitsChange
<1>2. DialogLast \in Range(stack)
  BY LastIs DEF DialogLast, IInv, TypeInv
<1> QED
  BY <1>1, <1>2 DEF IInv, OnboardingInv, FitsOnboarding

\* The dialogs that a key opens.
LEMMA OpenKeysAreCalm ==
  ASSUME IInv, ~torn, NEW id \in {"commands", "models", "sessions", "files"}, OpenKey(id)
  PROVE  Calm
<1>1. StaysElse /\ inbox' = inbox /\ state' = state /\ state # "onboarding" /\ stack = <<>>
  BY DEF OpenKey, Ready, StaysElse, agent, ghosts
<1>2. Range(stack) = {} /\ ~ContainsDialog(stack, id)
  BY <1>1 DEF Range, ContainsDialog
<1>3. Plainly(Plain(id)) /\ Plain(id).id = id
  <2>1. id \in Ids
    BY DEF Ids
  <2> QED
    BY <2>1, PlainFits
<1>4. stack' = Append(stack, Plain(id))
  BY <1>2, <1>3 DEF OpenKey, Show, OpenDialog
<1>5. Fits(stack')
  BY <1>2, <1>3, <1>4, FitsSame, FitsAppend DEF Fits
<1> QED
  BY <1>1, <1>5, CalmFrom DEF FitsOnboarding, InboxQuiet

\* The dialogs that a command opens.
LEMMA OpenCommandsAreCalm ==
  ASSUME IInv, ~torn, NEW id \in {"models", "sessions", "reasoning", "quit"}, OpenCommand(id)
  PROVE  Calm
<1>1. StaysElse /\ inbox' = inbox /\ state' = state
  BY DEF OpenCommand, StaysElse, agent, ghosts
<1>2. state # "onboarding"
  BY NotOnboarding DEF OpenCommand
<1>3. Plainly(Plain(id)) /\ Plain(id).id = id
  <2>1. id \in Ids
    BY DEF Ids
  <2> QED
    BY <2>1, PlainFits
<1>4. PICK rest : rest = CloseDialog(stack, "commands")
  OBVIOUS
<1>5. Fits(rest)
  BY <1>4, FitsSame, FitsClose DEF Fits
<1>6. stack' = OpenDialog(rest, Plain(id))
  BY <1>4 DEF OpenCommand, Show
<1>7. Fits(OpenDialog(rest, Plain(id)))
  BY <1>3, <1>5, FitsOpen
<1>8. Fits(stack')
  BY <1>6, <1>7 DEF Fits
<1> QED
  BY <1>1, <1>2, <1>8, CalmFrom DEF FitsOnboarding, InboxQuiet

\* A command, a reasoning effort and a session are chosen.
LEMMA CommandsAreCalm ==
  ASSUME IInv, ~torn,
         \/ OptionCommand \/ NewSessionCommand \/ SummarizeCommand \/ InitializeCommand
         \/ SelectEffort \/ \E s \in Sessions : SelectSession(s)
  PROVE  Calm
<1> USE DEF ui, agent, ghosts
<1>1. StaysElse
  BY DEF OptionCommand, NewSessionCommand, SummarizeCommand, InitializeCommand, SelectEffort, SelectSession,
     newSession, StaysElse
<1>2. PICK id \in {"commands", "reasoning", "sessions"} :
        stack' = CloseDialog(stack, id) /\ (state' = state \/ state' # "onboarding")
  BY DEF OptionCommand, NewSessionCommand, SummarizeCommand, InitializeCommand, SelectEffort, SelectSession,
     newSession
<1>3. Fits(stack') /\ FitsOnboarding(stack')
  BY <1>2, ClosesCalmly
<1>4. InboxQuiet
  <2>1. CASE OptionCommand \/ NewSessionCommand \/ SelectEffort
    BY <2>1 DEF OptionCommand, NewSessionCommand, SelectEffort, InboxQuiet
  <2>2. CASE SummarizeCommand
    BY <2>2 DEF SummarizeCommand, Put, InboxQuiet, Msg, Later
  <2>3. CASE InitializeCommand
    BY <2>3 DEF InitializeCommand, Put, InboxQuiet, Msg, Later
  <2>4. CASE \E s \in Sessions : SelectSession(s)
    BY <2>4 DEF SelectSession, Put, InboxQuiet, Msg, Later
  <2> QED
    BY <2>1, <2>2, <2>3, <2>4
<1> QED
  BY <1>1, <1>3, <1>4, CalmFrom

\* The dialog for the arguments takes the place of the commands, and there is
\* no other of its kind: the commands and the arguments are not open together.
LEMMA AskArgumentsIsCalm ==
  ASSUME IInv, ~torn, AskArguments
  PROVE  Calm
<1>1. StaysElse /\ inbox' = inbox /\ state' = state
  BY DEF AskArguments, StaysElse, agent, ghosts
<1>2. InFront("commands", {"plain"}) /\ state # "onboarding"
  BY NotOnboarding DEF AskArguments
<1>3. PICK kind \in {"custom", "prompt"} :
        stack' = Append(CloseFrontDialog(stack), Dialog("arguments", kind, None))
  BY DEF AskArguments, Show
<1>4. PICK d : d = Dialog("arguments", kind, None)
  OBVIOUS
<1>5. Plainly(d) /\ d.id = "arguments"
  <2>1. "arguments" \in Ids /\ kind \in Modes /\ None \in Values
    BY DEF Ids, Modes, Values
  <2> QED
    BY <1>4, <2>1, PlainIs DEF Plainly
<1>6. PICK rest : rest = CloseFrontDialog(stack)
  OBVIOUS
<1>7. stack # <<>> /\ DialogLast.id = "commands" /\ DialogLast \in Range(stack)
      /\ \A e \in Range(stack) : e.id = "commands" => e = DialogLast
  BY <1>2, FrontIsThere
<1>8. Fits(rest) /\ Range(rest) = Range(stack) \ {DialogLast}
  BY <1>6, <1>7, FitsSame, FitsCloseFront DEF DialogLast
<1>9. \A e \in Range(rest) : e.id # "arguments" /\ e.id # "commands"
  BY <1>7, <1>8 DEF IInv, KindsInv
<1>10. Fits(stack')
  BY <1>3, <1>4, <1>5, <1>6, <1>8, <1>9, FitsAppend DEF Fits
<1> QED
  BY <1>1, <1>2, <1>10, CalmFrom DEF FitsOnboarding, InboxQuiet

\* A custom command is sent.
LEMMA RunCustomCommandIsCalm ==
  ASSUME IInv, ~torn, RunCustomCommand
  PROVE  Calm
<1>1. PICK id \in {"commands", "arguments"} : \E modes : InFront(id, modes)
  BY DEF RunCustomCommand
<1>2. state # "onboarding" /\ stack # <<>> /\ DialogLast.id = id
  BY <1>1, NotOnboarding, FrontIsThere
<1>3. Fits(CloseFrontDialog(stack))
  BY <1>2, FitsSame, FitsCloseFront DEF DialogLast
<1>4. /\ \E more : Exchange({}, more) /\ \A m \in more : m.kind \in {"load", "run"}
      /\ state' = state \/ state' # "onboarding"
      /\ listed' \subseteq Sessions
  BY SendIs DEF RunCustomCommand, IInv, TypeInv
<1>5. InboxQuiet
  BY <1>4 DEF InboxQuiet, Later
<1> QED
  BY <1>2, <1>3, <1>4, <1>5 DEF RunCustomCommand, Calm, Fits, FitsOnboarding, ghosts

\* The modes of the sessions dialog.
LEMMA SessionsAreCalm ==
  ASSUME IInv, ~torn, EditSessions \/ ConfirmDelete
  PROVE  Calm
<1> USE DEF ui, agent, ghosts
<1>1. StaysElse /\ state' = state
  BY DEF EditSessions, ConfirmDelete, StaysElse
<1>2. PICK modes : InFront("sessions", modes)
  BY DEF EditSessions, ConfirmDelete, ChangeMode
<1>3. stack # <<>> /\ DialogLast.id = "sessions" /\ DialogLast \in DialogSet
  BY <1>2, FrontIsThere
<1>4. PICK d : ChangeFront(d) /\ Plainly(d) /\ d.id = "sessions"
  <2>1. PICK mode \in Modes, x \in Values :
          \/ ChangeFront([DialogLast EXCEPT !.mode = mode])
          \/ ChangeFront([DialogLast EXCEPT !.mode = mode, !.of = x])
    <3>1. "renaming" \in Modes /\ "deleting" \in Modes /\ "plain" \in Modes
      BY DEF Modes
    <3>2. None \in Values /\ \A s \in listed : s \in Values
      BY DEF Values, IInv, TypeInv
    <3>3. \/ ChangeFront([DialogLast EXCEPT !.mode = "renaming"])
          \/ \E s \in listed : ChangeFront([DialogLast EXCEPT !.mode = "deleting", !.of = s])
          \/ ChangeFront([DialogLast EXCEPT !.mode = "plain", !.of = None])
      BY DEF EditSessions, ConfirmDelete, ChangeMode
    <3> QED
      BY <3>1, <3>2, <3>3
  <2> QED
    <3>1. PICK d : /\ ChangeFront(d)
                   /\ \/ d = [DialogLast EXCEPT !.mode = mode]
                      \/ d = [DialogLast EXCEPT !.mode = mode, !.of = x]
      BY <2>1
    <3>2. d \in DialogSet /\ d.id = "sessions"
      <4>1. PICK last \in DialogSet : last = DialogLast /\ last.id = "sessions"
        BY <1>3
      <4>2. d = [last EXCEPT !.mode = mode] \/ d = [last EXCEPT !.mode = mode, !.of = x]
        BY <3>1, <4>1
      <4> QED
        BY <2>1, <4>1, <4>2 DEF DialogSet
    <3> QED
      BY <3>1, <3>2 DEF Plainly
<1>5. Fits(stack') /\ FitsOnboarding(stack')
  BY <1>1, <1>3, <1>4, ChangesCalmly
<1>6. InboxQuiet
  <2>1. CASE EditSessions
    BY <2>1 DEF EditSessions, InboxQuiet
  <2>2. CASE ConfirmDelete
    BY <2>2 DEF ConfirmDelete, Put, InboxQuiet, Msg, Later
  <2> QED
    BY <2>1, <2>2
<1> QED
  BY <1>1, <1>5, <1>6, CalmFrom

\* The device flow.
LEMMA OAuthIsCalm ==
  ASSUME IInv, ~torn,
         OAuthErrored \/ \E p \in Providers : InitiateOAuth(p) \/ CompleteOAuth(p)
  PROVE  Calm
<1> USE DEF ui, agent, ghosts
<1>1. StaysElse /\ state' = state
  BY DEF OAuthErrored, InitiateOAuth, CompleteOAuth, StaysElse
<1>2. Fits(stack') /\ FitsOnboarding(stack')
  <2>1. CASE stack' = stack
    BY <1>1, <2>1, StackStays
  <2>2. CASE stack' # stack
    <3>1. stack # <<>> /\ DialogLast.id = "oauth"
      BY <2>2 DEF OAuthErrored, InitiateOAuth, CompleteOAuth
    <3>2. DialogLast \in DialogSet
      BY <3>1, LastIs DEF DialogLast, IInv, TypeInv
    <3>3. PICK mode \in Modes, x \in Values :
            \/ ChangeFront([DialogLast EXCEPT !.mode = mode])
            \/ ChangeFront([DialogLast EXCEPT !.mode = mode, !.token = x])
      <4>1. "display" \in Modes /\ "success" \in Modes /\ "error" \in Modes
        BY DEF Modes
      <4>2. None \in Values /\ \A p \in Providers : p \in Values
        BY DEF Values
      <4>3. \/ ChangeFront([DialogLast EXCEPT !.mode = "display"])
            \/ ChangeFront([DialogLast EXCEPT !.mode = "error"])
            \/ \E p \in Providers : ChangeFront([DialogLast EXCEPT !.mode = "success", !.token = p])
        BY <2>2 DEF OAuthErrored, InitiateOAuth, CompleteOAuth
      <4> QED
        BY <4>1, <4>2, <4>3
    <3>4. PICK d : ChangeFront(d) /\ Plainly(d) /\ d.id = "oauth"
      <4>1. PICK d : /\ ChangeFront(d)
                     /\ \/ d = [DialogLast EXCEPT !.mode = mode]
                        \/ d = [DialogLast EXCEPT !.mode = mode, !.token = x]
        BY <3>3
      <4>2. d \in DialogSet /\ d.id = "oauth"
        <5>1. PICK last \in DialogSet : last = DialogLast /\ last.id = "oauth"
          BY <3>1, <3>2
        <5>2. d = [last EXCEPT !.mode = mode] \/ d = [last EXCEPT !.mode = mode, !.token = x]
          BY <4>1, <5>1
        <5> QED
          BY <3>3, <5>1, <5>2 DEF DialogSet
      <4> QED
        BY <4>1, <4>2 DEF Plainly
    <3> QED
      BY <1>1, <3>1, <3>4, ChangesCalmly
  <2> QED
    BY <2>1, <2>2
<1>3. InboxQuiet
  <2>1. PICK out, new : /\ Exchange(out, new)
                        /\ \A m \in out \cup new : m.kind \in {"initiate", "poll", "noBrowser"}
    <3>0. ASSUME NEW m, m.kind \in {"poll", "noBrowser"}, Polled(m)
          PROVE  \E o, n : Exchange(o, n) /\ \A e \in o \cup n : e.kind \in {"initiate", "poll", "noBrowser"}
      <4>1. PICK stopped \in SUBSET {Msg("poll", DialogLast.of)} : Exchange({m} \cup stopped, {})
        BY <3>0 DEF Polled
      <4>2. \A e \in ({m} \cup stopped) \cup {} : e.kind \in {"initiate", "poll", "noBrowser"}
        BY <3>0, <4>1 DEF Msg
      <4> QED
        BY <4>1, <4>2
    <3>1. CASE OAuthErrored
      <4>1. Msg("noBrowser", None).kind = "noBrowser"
        BY DEF Msg
      <4>2. Polled(Msg("noBrowser", None)) \/ Exchange({Msg("noBrowser", None)}, {})
        BY <3>1 DEF OAuthErrored
      <4> QED
        BY <3>0, <4>1, <4>2
    <3>2. ASSUME NEW p \in Providers, InitiateOAuth(p)
          PROVE  \E o, n : Exchange(o, n) /\ \A m \in o \cup n : m.kind \in {"initiate", "poll", "noBrowser"}
      BY <3>2 DEF InitiateOAuth, Msg
    <3>3. ASSUME NEW p \in Providers, CompleteOAuth(p)
          PROVE  \E o, n : Exchange(o, n) /\ \A m \in o \cup n : m.kind \in {"initiate", "poll", "noBrowser"}
      <4>1. Msg("poll", p).kind = "poll"
        BY DEF Msg
      <4>2. Polled(Msg("poll", p)) \/ Exchange({Msg("poll", p)}, {})
        BY <3>3 DEF CompleteOAuth
      <4> QED
        BY <3>0, <4>1, <4>2
    <3> QED
      BY <3>1, <3>2, <3>3
  <2> QED
    BY <2>1 DEF InboxQuiet, Watched, Later
<1> QED
  BY <1>1, <1>2, <1>3, CalmFrom

-----------------------------------------------------------------------------
(* The steps that are not *)

\* Messages of other kinds neither come nor go.
LEMMA OtherKinds ==
  ASSUME IsABag(inbox), NEW out, NEW new, Exchange(out, new), NEW kinds, NEW kind, kind \notin kinds,
         \A m \in out \cup new : m.kind \in kinds
  PROVE  \A x : Waits(kind, x)' <=> Waits(kind, x)
<1>1. \A x : Msg(kind, x) \notin out \cup new
  BY DEF Msg
<1> QED
  BY <1>1, ExchangeIs DEF Waits

\* The key dialog in front changes its mode, and is the only one.
LEMMA KeyDialogChanges ==
  ASSUME IInv, ~torn, NEW modes, InFront("apikey", modes),
         NEW mode \in Modes, ChangeFront([DialogLast EXCEPT !.mode = mode]),
         NEW out, NEW new, Exchange(out, new),
         \A m \in out \cup new : m.kind \in {"verifying", "verified"},
         UNCHANGED <<state, isCanceling, agent, read, swept>>
  PROVE  /\ TypeInv' /\ OnboardingInv' /\ LastInv' /\ EscapeIsForgotten' /\ KindsInv' /\ ShownInv'
         /\ \A d \in Range(stack') : d.id = "apikey" => d.mode = mode
<1>1. /\ stack # <<>> /\ DialogLast \in Range(stack) /\ DialogLast.id = "apikey" /\ DialogLast \in DialogSet
      /\ \A e \in Range(stack) : e.id = "apikey" => e = DialogLast
  BY FrontIsThere
<1>2. PICK d : d = [DialogLast EXCEPT !.mode = mode]
  OBVIOUS
<1>3. d \in DialogSet /\ d.id = "apikey" /\ d.of = DialogLast.of /\ d.mode = mode
  BY <1>1, <1>2 DEF DialogSet
<1>4. StackOK(stack') /\ Range(stack') = (Range(stack) \ {DialogLast}) \cup {d}
  BY <1>1, <1>2, <1>3, ChangeFrontIs DEF IInv, TypeInv
<1>5. IsABag(inbox)
  BY DEF IInv, TypeInv
<1>6. IsABag(inbox')
  BY <1>5, ExchangeIs
<1>7. \A kind \in Later \cup {"permission", "timer"} : \A x : Waits(kind, x)' <=> Waits(kind, x)
  <2>1. \A kind \in Later \cup {"permission", "timer"} : kind \notin {"verifying", "verified"}
    BY DEF Later
  <2> QED
    BY <1>5, <2>1, OtherKinds
<1>8. TypeInv'
  BY <1>4, <1>6 DEF TypeInv, IInv, agent
<1>9. OnboardingInv'
  BY <1>1, <1>3, <1>4, <1>7 DEF OnboardingInv, IInv
<1>10. LastInv'
  BY <1>7 DEF LastInv, IInv, agent
<1>11. EscapeIsForgotten'
  BY <1>7 DEF EscapeIsForgotten, IInv
<1>12. KindsInv'
  BY <1>1, <1>3, <1>4 DEF KindsInv, IInv
<1>13. ShownInv'
  BY <1>1, <1>3, <1>4, <1>7 DEF ShownInv, IInv, agent
<1>14. \A e \in Range(stack') : e.id = "apikey" => e.mode = mode
  BY <1>1, <1>3, <1>4
<1> QED
  BY <1>8, <1>9, <1>10, <1>11, <1>12, <1>13, <1>14

\* A verification starts, and its answer is on its way.
LEMMA VerifyKeeps ==
  ASSUME IInv, ~torn, Verify
  PROVE  IInv'
<1> DEFINE modes == {"initial", "error", "verifying", "verified"}
<1>1. CASE InFront("apikey", modes)
  <2>1. /\ ChangeFront([DialogLast EXCEPT !.mode = "verifying"])
        /\ Exchange({Msg("verifying", None)}, {Msg("verified", DialogLast.of)})
    BY <1>1 DEF Verify
  <2>2. \A m \in {Msg("verifying", None)} \cup {Msg("verified", DialogLast.of)} :
          m.kind \in {"verifying", "verified"}
    BY DEF Msg
  <2>3. "verifying" \in Modes
    BY DEF Modes
  <2>4. UNCHANGED <<state, isCanceling, agent, read, swept>>
    BY DEF Verify, ghosts
  <2> HIDE DEF modes
  <2>5. TypeInv' /\ OnboardingInv' /\ LastInv' /\ EscapeIsForgotten' /\ KindsInv' /\ ShownInv'
    BY <1>1, <2>1, <2>2, <2>3, <2>4, KeyDialogChanges
  <2>6. DialogLast.of \in KeyProviders
    BY <1>1, FrontIsThere DEF IInv, KindsInv
  <2>7. BagIn(Msg("verified", DialogLast.of), inbox')
    BY <2>1, ExchangeIs DEF IInv, TypeInv
  <2>8. AnsweredInv'
    BY <2>6, <2>7 DEF AnsweredInv, Waits
  <2> QED
    BY <2>5, <2>8 DEF IInv
<1>2. CASE ~InFront("apikey", modes)
  <2>1. StaysElse /\ stack' = stack /\ state' = state /\ Exchange({Msg("verifying", None)}, {})
    BY <1>2 DEF Verify, StaysElse, Take, agent, ghosts
  <2>2. InboxQuiet
    BY <2>1 DEF InboxQuiet, Msg, Watched
  <2> QED
    BY <2>1, <2>2, StackStays, CalmFrom, CalmIsKept
<1> QED
  BY <1>1, <1>2

\* The answer ends it, or another dialog has it.
LEMMA VerifiedKeeps ==
  ASSUME IInv, ~torn, NEW p \in Providers, Verified(p)
  PROVE  IInv'
<1> DEFINE modes == {"initial", "error", "verifying", "verified"}
<1>0. Exchange({Msg("verified", p)}, {}) /\ UNCHANGED <<state, isCanceling, agent, read, swept>>
  BY DEF Verified, Take
<1>1. \A m \in {Msg("verified", p)} \cup {} : m.kind \in {"verifying", "verified"}
  BY DEF Msg
<1>2. CASE InFront("apikey", modes)
  <2>1. PICK mode \in {"verified", "error"} : ChangeFront([DialogLast EXCEPT !.mode = mode])
    BY <1>2 DEF Verified
  <2>2. mode \in Modes /\ mode # "verifying"
    BY <2>1 DEF Modes
  <2> HIDE DEF modes
  <2>3. /\ TypeInv' /\ OnboardingInv' /\ LastInv' /\ EscapeIsForgotten' /\ KindsInv' /\ ShownInv'
        /\ \A d \in Range(stack') : d.id = "apikey" => d.mode = mode
    BY <1>0, <1>1, <1>2, <2>1, <2>2, KeyDialogChanges
  <2> QED
    BY <2>2, <2>3 DEF IInv, AnsweredInv
<1>3. CASE ~InFront("apikey", modes)
  <2>1. unheard' /\ stack' = stack
    BY <1>3 DEF Verified
  <2>2. IsABag(inbox')
    BY <1>0, ExchangeIs DEF IInv, TypeInv
  <2>3. \A kind \in Later \cup {"permission", "timer"} : \A x : Waits(kind, x)' <=> Waits(kind, x)
    <3>1. \A kind \in Later \cup {"permission", "timer"} : kind \notin {"verifying", "verified"}
      BY DEF Later
    <3> QED
      BY <1>0, <1>1, <3>1, OtherKinds DEF IInv, TypeInv
  <2>4. TypeInv' /\ OnboardingInv' /\ LastInv' /\ EscapeIsForgotten'
    BY <1>0, <2>1, <2>2, <2>3 DEF IInv, TypeInv, OnboardingInv, LastInv, EscapeIsForgotten, agent
  <2>5. KindsInv' /\ ShownInv' /\ AnsweredInv'
    BY <1>0, <2>1, <2>3 DEF IInv, KindsInv, ShownInv, AnsweredInv, agent
  <2> QED
    BY <2>4, <2>5 DEF IInv
<1> QED
  BY <1>2, <1>3

\* closeDialogMsg closes what is in front; a request that it closes is swept.
LEMMA CloseLoadingKeeps ==
  ASSUME IInv, ~torn, CloseLoading
  PROVE  IInv'
<1>0. /\ Exchange({Msg("closeDialog", None)}, {}) /\ stack' = CloseFrontDialog(stack)
      /\ UNCHANGED <<state, isCanceling, agent, read, unheard>>
  BY DEF CloseLoading, Take
<1>1. state # "onboarding"
  BY DEF CloseLoading, Take, Waits, IInv, OnboardingInv, Later
<1>2. InboxQuiet
  BY <1>0 DEF InboxQuiet, Msg, Watched
<1>3. /\ IsABag(inbox')
      /\ \A kind \in {"permission", "verified"} : \A x : Waits(kind, x)' <=> Waits(kind, x)
      /\ Waits("timer", None) => Waits("timer", None)'
  BY <1>2, InboxQuietIs DEF IInv, TypeInv
<1>4. StackOK(stack') /\ \A d \in Range(stack') : d \in Range(stack)
  BY <1>0, CloseFrontIs DEF CloseFrontDialog, IInv, TypeInv
<1>5. TypeInv' /\ OnboardingInv' /\ LastInv' /\ EscapeIsForgotten'
  BY <1>0, <1>1, <1>3, <1>4 DEF IInv, TypeInv, OnboardingInv, LastInv, EscapeIsForgotten, agent
<1>6. KindsInv' /\ AnsweredInv'
  BY <1>0, <1>3, <1>4 DEF IInv, KindsInv, AnsweredInv
<1>7. ShownInv'
  <2>1. ASSUME NEW d \in Range(stack), d.id = "permissions"
        PROVE  d \in Range(stack') \/ d.of \in swept'
    <3>1. CASE stack = <<>>
      BY <1>0, <2>1, <3>1 DEF CloseFrontDialog
    <3>2. CASE stack # <<>> /\ d # DialogLast
      BY <1>0, <2>1, <3>2, CloseFrontIs DEF DialogLast, IInv, TypeInv
    <3>3. CASE stack # <<>> /\ d = DialogLast
      <4>1. InFront("permissions", {"plain"})
        BY <2>1, <3>3 DEF InFront, IInv, KindsInv
      <4> QED
        BY <3>3, <4>1 DEF CloseLoading
    <3> QED
      BY <3>1, <3>2, <3>3
  <2>2. swept \subseteq swept'
    BY DEF CloseLoading
  <2> QED
    BY <1>0, <1>3, <2>1, <2>2 DEF IInv, ShownInv, agent
<1> QED
  BY <1>5, <1>6, <1>7 DEF IInv

\* A request comes to the front.  Its event comes after those of the earlier
\* ones: it is the last, or the last is still on its way.
LEMMA OpenPermissionsKeeps ==
  ASSUME IInv, ~torn, NEW n \in 1..asked, openPermissionsDialog(n)
  PROVE  IInv'
<1>0. /\ Waits("permission", n) /\ Exchange({Msg("permission", n)}, {})
      /\ \A k \in 1..(n - 1) : ~Waits("permission", k)
      /\ UNCHANGED <<state, isCanceling, agent, read, swept, unheard>>
  BY DEF openPermissionsDialog, Take, Waits, ghosts
<1>1. asked \in Nat /\ asked' = asked /\ request' = request /\ IsABag(inbox)
  BY <1>0 DEF agent, IInv, TypeInv
<1>1a. PICK last : last = asked /\ last = asked' /\ last \in Nat /\ n \in 1..last
  BY <1>1
<1>2. PICK d : d = Dialog("permissions", "plain", n)
  OBVIOUS
<1>3. d \in DialogSet /\ d.id = "permissions" /\ d.mode = "plain" /\ d.of = n
  <2>1. "permissions" \in Ids /\ "plain" \in Modes /\ n \in Values
    BY <1>1 DEF Ids, Modes, Values
  <2> QED
    BY <1>2, <2>1, PlainIs
<1>4. PICK rest : rest = CloseDialog(stack, "permissions")
  OBVIOUS
<1>5. StackOK(rest) /\ Range(rest) = {e \in Range(stack) : e.id # "permissions"}
  BY <1>4, CloseDialogIs DEF IInv, TypeInv
<1>6. stack' = Append(rest, d)
  BY <1>2, <1>4 DEF openPermissionsDialog, Show
<1>7. StackOK(Append(rest, d)) /\ Range(Append(rest, d)) = Range(rest) \cup {d}
  BY <1>3, <1>5, AppendIs
<1>8. /\ StackOK(stack') /\ d \in Range(stack')
      /\ \A e \in Range(stack') : e = d \/ (e \in Range(stack) /\ e.id # "permissions")
      /\ \A e \in Range(stack) : e.id # "permissions" => e \in Range(stack')
  BY <1>5, <1>6, <1>7
<1>9. /\ IsABag(inbox')
      /\ \A k : k # n => (Waits("permission", k)' <=> Waits("permission", k))
      /\ \A kind \in Later \cup {"verified", "timer"} : \A x : Waits(kind, x)' <=> Waits(kind, x)
  <2>1. \A k : k # n => Msg("permission", k) \notin {Msg("permission", n)}
    BY DEF Msg
  <2>2. \A m \in {Msg("permission", n)} \cup {} : m.kind \in {"permission"}
    BY DEF Msg
  <2>3. \A kind \in Later \cup {"verified", "timer"} : kind \notin {"permission"}
    BY DEF Later
  <2>4. \A kind \in Later \cup {"verified", "timer"} : \A x : Waits(kind, x)' <=> Waits(kind, x)
    BY <1>0, <1>1, <2>2, <2>3, OtherKinds
  <2>5. \A k : k # n => (Waits("permission", k)' <=> Waits("permission", k))
    BY <1>0, <1>1, <2>1, ExchangeIs DEF Waits
  <2> QED
    BY <1>0, <1>1, <2>4, <2>5, ExchangeIs
<1>10. TypeInv'
  BY <1>0, <1>8, <1>9 DEF IInv, TypeInv, agent
<1>11. OnboardingInv'
  BY <1>0, <1>3, <1>8, <1>9 DEF IInv, OnboardingInv
<1>12. EscapeIsForgotten'
  BY <1>0, <1>9 DEF IInv, EscapeIsForgotten
<1>13. LastInv'
  <2>1. request' # None => request'.n = last /\ last # 0
    BY <1>1, <1>1a DEF IInv, LastInv
  <2>2. ASSUME NEW k \in 1..last, Waits("permission", k)'
        PROVE  Waits("permission", last)'
    <3>1. CASE n # last
      <4>1. Waits("permission", last)
        BY <1>0, <1>1a DEF IInv, LastInv
      <4> QED
        BY <1>9, <3>1, <4>1
    <3>2. CASE n = last /\ k # n
      <4>1. k \in 1..(n - 1)
        <5>1. \A i, j \in Nat : i \in 1..j /\ i # j => i \in 1..(j - 1)
          OBVIOUS
        <5>2. k \in Nat /\ n \in Nat /\ k \in 1..n /\ k # n
          BY <1>1a, <3>2
        <5> QED
          BY <5>1, <5>2
      <4>2. Waits("permission", k)
        BY <1>9, <2>2, <3>2
      <4> QED
        BY <1>0, <4>1, <4>2
    <3> QED
      BY <2>2, <3>1, <3>2
  <2> QED
    BY <1>1a, <2>1, <2>2 DEF LastInv, Waits
<1>14. KindsInv'
  BY <1>3, <1>8 DEF IInv, KindsInv
<1>15. ShownInv'
  <2>1. SUFFICES ASSUME request # None, ~Waits("permission", last)'
                 PROVE  \E e \in Range(stack') : e.id = "permissions" /\ e.of = last
    BY <1>1, <1>1a DEF ShownInv, Waits, IInv, LastInv
  <2>2. Waits("permission", last)
    BY <1>0, <1>1a DEF IInv, LastInv
  <2>3. n = last
    BY <1>9, <2>1, <2>2
  <2> QED
    BY <1>3, <1>8, <2>3
<1>16. AnsweredInv'
  BY <1>0, <1>3, <1>8, <1>9 DEF IInv, AnsweredInv
<1> QED
  BY <1>10, <1>11, <1>12, <1>13, <1>14, <1>15, <1>16 DEF IInv

\* The answer to a request closes its dialog.
LEMMA PermissionResponseKeeps ==
  ASSUME IInv, ~torn, PermissionResponse
  PROVE  IInv'
<1>0. /\ stack' = CloseDialog(stack, "permissions")
      /\ request' = IF request # None /\ request.n = DialogLast.of THEN None ELSE request
      /\ UNCHANGED <<state, isCanceling, inbox, listed, asked, read, swept, unheard>>
  BY DEF PermissionResponse, ghosts
<1>1. \A e \in Range(stack) : e.id = "permissions" => e = DialogLast
  BY FrontIsThere DEF PermissionResponse
<1>2. StackOK(stack') /\ Range(stack') = {e \in Range(stack) : e.id # "permissions"}
  BY <1>0, CloseDialogIs DEF IInv, TypeInv
<1>3. TypeInv' /\ OnboardingInv' /\ LastInv' /\ EscapeIsForgotten'
  BY <1>0, <1>2 DEF IInv, TypeInv, OnboardingInv, LastInv, EscapeIsForgotten, Waits
<1>4. KindsInv' /\ AnsweredInv'
  BY <1>0, <1>2 DEF IInv, KindsInv, AnsweredInv, Waits
<1>5. ShownInv'
  BY <1>0, <1>1 DEF IInv, ShownInv, Waits
<1> QED
  BY <1>3, <1>4, <1>5 DEF IInv

\* An agent asks.
LEMMA AskKeeps ==
  ASSUME IInv, ~torn, NEW s \in Sessions, Ask(s)
  PROVE  IInv'
<1>1. asked \in Nat /\ IsABag(inbox)
  BY DEF IInv, TypeInv
<1>2. PICK next : next = asked' /\ next = asked + 1 /\ next \in Nat
  BY <1>1 DEF Ask
<1>3. /\ request' = [n |-> next, s |-> s] /\ Exchange({}, {Msg("permission", next)})
      /\ UNCHANGED <<state, stack, isCanceling, listed, read, swept, unheard>>
  BY <1>2 DEF Ask, Put, ui, ghosts
<1>4. /\ IsABag(inbox') /\ BagIn(Msg("permission", next), inbox')
      /\ \A kind \in Later \cup {"verified", "timer"} : \A x : Waits(kind, x)' <=> Waits(kind, x)
  <2>1. \A m \in {} \cup {Msg("permission", next)} : m.kind \in {"permission"}
    BY DEF Msg
  <2>2. \A kind \in Later \cup {"verified", "timer"} : kind \notin {"permission"}
    BY DEF Later
  <2>3. \A kind \in Later \cup {"verified", "timer"} : \A x : Waits(kind, x)' <=> Waits(kind, x)
    BY <1>1, <1>3, <2>1, <2>2, OtherKinds
  <2> QED
    BY <1>1, <1>3, <2>3, ExchangeIs
<1>5. TypeInv' /\ OnboardingInv' /\ EscapeIsForgotten'
  BY <1>2, <1>3, <1>4 DEF IInv, TypeInv, OnboardingInv, EscapeIsForgotten
<1>6. request'.n = next /\ next # 0 /\ Waits("permission", next)'
  BY <1>1, <1>2, <1>3, <1>4 DEF Waits
<1>7. LastInv'
  BY <1>2, <1>6 DEF LastInv, Waits
<1>8. ShownInv'
  BY <1>6 DEF ShownInv, Waits
<1>9. KindsInv' /\ AnsweredInv'
  BY <1>3, <1>4 DEF IInv, KindsInv, AnsweredInv
<1> QED
  BY <1>5, <1>7, <1>8, <1>9 DEF IInv

\* The file picker closes itself in the stack that it read.
LEMMA WriteStackKeeps ==
  ASSUME IInv, ~torn, WriteStack
  PROVE  IInv'
<1>0. state # "onboarding"
  BY DEF WriteStack, IInv, OnboardingInv
<1>1. CASE read = stack
  <2>1. stack' = CloseDialog(stack, "files") /\ state' = state
    BY <1>1 DEF WriteStack
  <2>2. Fits(stack') /\ FitsOnboarding(stack')
    BY <2>1, ClosesCalmly
  <2>3. Calm
    BY <2>2 DEF Calm, WriteStack, InboxQuiet, IInv, TypeInv, agent
  <2> QED
    BY <2>3, CalmIsKept
<1>2. CASE read # stack
  <2>1. torn' = TRUE /\ UNCHANGED <<state, isCanceling, inbox, listed, asked, request>>
    BY <1>2 DEF WriteStack, agent
  <2> QED
    BY <1>0, <2>1 DEF IInv, TypeInv, OnboardingInv, LastInv, EscapeIsForgotten, Waits
<1> QED
  BY <1>1, <1>2

\* The Escapes and their timers.
LEMMA TimersKeep ==
  ASSUME IInv, ~torn, NEW out, NEW new, Exchange(out, new),
         \A m \in out \cup new : m.kind \in {"timer", "oldTimer"},
         isCanceling' => Msg("timer", None) \in new, request' \in {request, None},
         UNCHANGED <<state, stack, listed, asked, read, swept, unheard>>
  PROVE  IInv'
<1>1. IsABag(inbox') /\ \A m \in new : BagIn(m, inbox')
  BY ExchangeIs DEF IInv, TypeInv
<1>2. \A kind \in Later \cup {"permission", "verified"} : \A x : Waits(kind, x)' <=> Waits(kind, x)
  <2>1. \A kind \in Later \cup {"permission", "verified"} : kind \notin {"timer", "oldTimer"}
    BY DEF Later
  <2> QED
    BY <2>1, OtherKinds DEF IInv, TypeInv
<1>3. TypeInv' /\ OnboardingInv' /\ LastInv'
  BY <1>1, <1>2 DEF IInv, TypeInv, OnboardingInv, LastInv
<1>4. EscapeIsForgotten'
  BY <1>1 DEF EscapeIsForgotten, Waits
<1>5. KindsInv' /\ ShownInv' /\ AnsweredInv'
  BY <1>2 DEF IInv, KindsInv, ShownInv, AnsweredInv
<1> QED
  BY <1>3, <1>4, <1>5 DEF IInv

LEMMA EscapesKeep ==
  ASSUME IInv, ~torn, cancelAgent \/ \E kind \in {"timer", "oldTimer"} : CancelTimerExpired(kind)
  PROVE  IInv'
<1> USE DEF ui, agent, ghosts
<1>0. UNCHANGED <<state, stack, listed, asked, read, swept, unheard>> /\ request' \in {request, None}
  BY DEF cancelAgent, Cancel, ClearQueue, ArmCancel, CancelTimerExpired
<1>1. ASSUME NEW more, \A m \in more : m.kind \in {"timer", "oldTimer"}, Forget(more),
             isCanceling' => Msg("timer", None) \in more
      PROVE  IInv'
  <2>1. PICK out, new : /\ Exchange(out, new) /\ more \subseteq new
                        /\ \A m \in out \cup new : m.kind \in {"timer", "oldTimer"}
    <3>1. CASE Waits("timer", None)
      <4>1. Exchange({Msg("timer", None)}, more \cup {Msg("oldTimer", None)})
        BY <1>1, <3>1 DEF Forget
      <4>2. \A m \in {Msg("timer", None)} \cup (more \cup {Msg("oldTimer", None)}) :
              m.kind \in {"timer", "oldTimer"}
        BY <1>1 DEF Msg
      <4> QED
        BY <4>1, <4>2
    <3>2. CASE ~Waits("timer", None)
      <4>1. Exchange({}, more)
        BY <1>1, <3>2 DEF Forget, Put
      <4> QED
        BY <1>1, <4>1
    <3> QED
      BY <3>1, <3>2
  <2> QED
    BY <1>0, <1>1, <2>1, TimersKeep
<1>2. CASE cancelAgent
  <2>1. CASE Cancel
    <3>1. Forget({}) /\ isCanceling' = FALSE
      BY <2>1 DEF Cancel
    <3> QED
      BY <1>1, <3>1
  <2>2. CASE ClearQueue
    <3>1. StaysElse /\ inbox' = inbox
      BY <1>2, <2>2 DEF ClearQueue, cancelAgent, StaysElse
    <3> QED
      BY <1>0, <3>1, StackStays, CalmFrom, CalmIsKept DEF InboxQuiet
  <2>3. CASE ArmCancel
    <3>1. Forget({Msg("timer", None)}) /\ \A m \in {Msg("timer", None)} : m.kind \in {"timer", "oldTimer"}
      BY <2>3 DEF ArmCancel, Msg
    <3> QED
      BY <1>1, <3>1
  <2> QED
    BY <1>2, <2>1, <2>2, <2>3 DEF cancelAgent
<1>3. ASSUME NEW kind \in {"timer", "oldTimer"}, CancelTimerExpired(kind)
      PROVE  IInv'
  <2>1. Exchange({Msg(kind, None)}, {}) /\ isCanceling' = FALSE
    BY <1>3 DEF CancelTimerExpired, Take
  <2>2. \A m \in {Msg(kind, None)} \cup {} : m.kind \in {"timer", "oldTimer"}
    BY <1>3 DEF Msg
  <2> QED
    BY <1>0, <2>1, <2>2, TimersKeep
<1> QED
  BY <1>2, <1>3

-----------------------------------------------------------------------------
(* The theorems *)

LEMMA Starts ==
  ASSUME Init
  PROVE  IInv
<1>0. PICK puts : inbox = SetToBag(puts) /\ \A m \in puts : m.kind = "load"
  <2>1. CASE inbox = EmptyBag
    BY <2>1 DEF EmptyBag
  <2>2. CASE inbox # EmptyBag
    <3>1. PICK s \in Sessions : inbox = SetToBag({Msg("load", s)})
      BY <2>2 DEF Init
    <3> QED
      BY <3>1 DEF Msg
  <2> QED
    BY <2>1, <2>2
<1>1. \A m : BagIn(m, inbox) => m.kind = "load"
  BY <1>0 DEF SetToBag, BagIn, BagToSet
<1>2. IsABag(inbox)
  BY <1>0 DEF SetToBag, IsABag
<1>3. \A kind : kind # "load" => \A x : ~Waits(kind, x)
  BY <1>1 DEF Waits, Msg
<1>4. StackOK(stack) /\ \A d \in Range(stack) : d.id = "models"
  <2>1. CASE stack = <<>>
    BY <2>1 DEF StackOK, Distinct, Range
  <2>2. CASE stack = <<Plain("models")>>
    <3>1. Plain("models") \in DialogSet /\ Plain("models").id = "models"
      <4>1. "models" \in Ids
        BY DEF Ids
      <4> QED
        BY <4>1, PlainFits DEF Plainly
    <3> QED
      BY <2>2, <3>1 DEF StackOK, Distinct, Range
  <2> QED
    BY <2>1, <2>2 DEF Init
<1>5. state = "onboarding" => \E d \in Range(stack) : d.id = "models"
  <2>1. ASSUME state = "onboarding"
        PROVE  \E d \in Range(stack) : d.id = "models"
    <3>1. stack = <<Plain("models")>>
      BY <2>1 DEF Init
    <3>2. 1 \in DOMAIN stack /\ stack[1] \in Range(stack)
      BY <3>1 DEF Range
    <3> QED
      BY <1>4, <3>2
  <2> QED
    BY <2>1
<1>6. TypeInv
  BY <1>2, <1>4 DEF Init, TypeInv
<1>7. OnboardingInv
  BY <1>3, <1>4, <1>5 DEF Init, OnboardingInv, Later
<1>8. LastInv /\ EscapeIsForgotten
  BY <1>3 DEF Init, LastInv, EscapeIsForgotten
<1>9. KindsInv /\ ShownInv /\ AnsweredInv
  BY <1>4 DEF Init, KindsInv, ShownInv, AnsweredInv
<1> QED
  BY <1>6, <1>7, <1>8, <1>9 DEF IInv

LEMMA StepKeeps ==
  ASSUME IInv, [Next]_vars
  PROVE  IInv'
<1>1. CASE UNCHANGED vars
  BY <1>1 DEF vars, ui, agent, ghosts, IInv, TypeInv, OnboardingInv, LastInv, EscapeIsForgotten, KindsInv,
     ShownInv, AnsweredInv, Waits
<1>2. CASE Next /\ ~torn /\ Keys
  <2>1. CASE PermissionResponse
    BY <1>2, <2>1, PermissionResponseKeeps
  <2>2. CASE cancelAgent
    BY <1>2, <2>2, EscapesKeep
  <2>3. CASE \/ SubmitKey \/ OpenURL \/ RunMCPPrompt \/ PickFile
             \/ SendKey \/ NewSessionKey \/ InitializeKey
    BY <1>2, <2>3, KeysAreCalm, CalmIsKept
  <2>4. CASE OpenQuit \/ Close \/ AskArguments \/ RunCustomCommand
    BY <1>2, <2>4, QuitIsCalm, CloseIsCalm, AskArgumentsIsCalm, RunCustomCommandIsCalm, CalmIsKept
  <2>5. CASE SaveKey \/ \E p \in Providers : ImportCopilot(p) \/ \E again \in BOOLEAN : SelectModel(p, again)
    BY <1>2, <2>5, ModelsAreCalm, CalmIsKept
  <2>6. CASE \/ \E id \in {"commands", "models", "sessions", "files"} : OpenKey(id)
             \/ \E id \in {"models", "sessions", "reasoning", "quit"} : OpenCommand(id)
    BY <1>2, <2>6, OpenKeysAreCalm, OpenCommandsAreCalm, CalmIsKept
  <2>7. CASE \/ OptionCommand \/ NewSessionCommand \/ SummarizeCommand \/ InitializeCommand
             \/ SelectEffort \/ \E s \in Sessions : SelectSession(s)
    BY <1>2, <2>7, CommandsAreCalm, CalmIsKept
  <2>8. CASE EditSessions \/ ConfirmDelete
    BY <1>2, <2>8, SessionsAreCalm, CalmIsKept
  <2> QED
    BY <1>2, <2>1, <2>2, <2>3, <2>4, <2>5, <2>6, <2>7, <2>8 DEF Keys
<1>3. CASE Next /\ ~torn /\ Messages
  <2>1. CASE Verify
    BY <1>3, <2>1, VerifyKeeps
  <2>2. CASE CloseLoading
    BY <1>3, <2>2, CloseLoadingKeeps
  <2>3. CASE OAuthErrored \/ \E p \in Providers : InitiateOAuth(p) \/ CompleteOAuth(p)
    BY <1>3, <2>3, OAuthIsCalm, CalmIsKept
  <2>4. CASE \E p \in Providers : Verified(p)
    BY <1>3, <2>4, VerifiedKeeps
  <2>5. CASE ReadStack \/ \E kind \in {"prompt", "initialize"} : FetchedPrompt(kind)
    BY <1>3, <2>5, PromptsAreCalm, CalmIsKept
  <2>6. CASE \E s \in Sessions : loadSession(s) \/ SessionLoaded(s) \/ DeleteSession(s) \/ SessionDeleted(s)
    BY <1>3, <2>6, RunsAreCalm, CalmIsKept
  <2>7. CASE \E kind \in {"timer", "oldTimer"} : CancelTimerExpired(kind)
    BY <1>3, <2>7, EscapesKeep
  <2>8. CASE \E n \in 1..asked : openPermissionsDialog(n)
    BY <1>3, <2>8, OpenPermissionsKeeps
  <2> QED
    BY <1>3, <2>1, <2>2, <2>3, <2>4, <2>5, <2>6, <2>7, <2>8 DEF Messages
<1>4. CASE Next /\ ~torn /\ Agents
  <2>1. PICK s \in Sessions : StartRun(s) \/ StartSummary(s) \/ EndRun(s) \/ Ask(s)
    BY <1>4 DEF Agents
  <2>2. CASE Ask(s)
    BY <1>4, <2>2, AskKeeps
  <2>3. CASE StartRun(s) \/ StartSummary(s) \/ EndRun(s)
    BY <1>4, <2>3, RunsAreCalm, CalmIsKept
  <2> QED
    BY <2>1, <2>2, <2>3
<1>5. CASE Next /\ ~torn /\ WriteStack
  BY <1>5, WriteStackKeeps
<1> QED
  BY <1>1, <1>2, <1>3, <1>4, <1>5 DEF Next

LEMMA AlwaysIInv == TerminalSpec => []IInv
<1>1. TerminalInit => IInv
  BY Starts DEF TerminalInit
<1>2. IInv /\ [TerminalNext]_<<part, l, view, vars>> => IInv'
  <2> SUFFICES ASSUME IInv, [TerminalNext]_<<part, l, view, vars>>
               PROVE  IInv'
    OBVIOUS
  <2>1. [Next]_vars
    BY DEF TerminalNext, Scroll, Update, Press
  <2> QED
    BY <2>1, StepKeeps
<1> QED
  BY <1>1, <1>2, PTL DEF TerminalSpec

\* Whoever is at a place of the stack is on it.
LEMMA OnStack ==
  ASSUME NEW i \in DOMAIN stack
  PROVE  stack[i] \in Range(stack)
BY DEF Range

\* A request that waits has its dialog, its event on the way, or was swept away
\* with the stack: for any number of requests, agents and dialogs.
THEOREM RequestsAreShown == TerminalSpec => []AskedIsShown
<1>1. IInv => AskedIsShown
  BY DEF IInv, ShownInv, AskedIsShown, Range
<1> QED
  BY <1>1, AlwaysIInv, PTL

\* A key dialog that takes no key has its answer on the way, for any number of
\* providers.
THEOREM VerificationsAreAnswered == TerminalSpec => []VerifyingIsAnswered
<1>1. ASSUME IInv, NEW i \in DOMAIN stack, stack[i].id = "apikey", stack[i].mode = "verifying"
      PROVE  torn \/ unheard \/ \E p \in KeyProviders : Waits("verified", p)
  BY <1>1, OnStack DEF IInv, AnsweredInv
<1>2. IInv => VerifyingIsAnswered
  BY <1>1 DEF VerifyingIsAnswered
<1> QED
  BY <1>2, AlwaysIInv, PTL

\* An Escape that armed the cancel has a timer that disarms it.
THEOREM EscapesAreForgotten == TerminalSpec => []EscapeIsForgotten
<1>1. IInv => EscapeIsForgotten
  BY DEF IInv
<1> QED
  BY <1>1, AlwaysIInv, PTL

\* Whoever has no model has a dialog to get one, whatever is closed.
THEOREM ModelsCanBeChosen == TerminalSpec => []OnboardingGoesOn
<1>1. ASSUME IInv, state = "onboarding"
      PROVE  \E id \in {"models", "apikey", "oauth"} : ContainsDialog(stack, id)
  <2>1. PICK d \in Range(stack) : d.id \in {"models", "apikey", "oauth"}
    BY <1>1 DEF IInv, OnboardingInv
  <2>2. ContainsDialog(stack, d.id)
    BY <2>1, ContainsIs
  <2> QED
    BY <2>1, <2>2
<1>2. IInv => OnboardingGoesOn
  BY <1>1 DEF OnboardingGoesOn
<1> QED
  BY <1>2, AlwaysIInv, PTL

-----------------------------------------------------------------------------
(* The list: its sums are recursive functions, which exist and are integers  *)
(* by induction over sets of natural numbers.                                *)

\* A set of natural numbers has a least element.
LEMMA Least ==
  ASSUME NEW T \in SUBSET Nat, T # {}
  PROVE  \E m \in T : \A k \in T : m <= k
<1>1. PICK R : R = OpToRel(<, Nat)
  OBVIOUS
<1>2. \A x, y \in Nat : x < y => <<x, y>> \in R
  BY <1>1 DEF OpToRel
<1>3. PICK m \in T : \A k \in T : ~(<<k, m>> \in R)
  BY <1>1, NatLessThanWellFounded, WFMin
<1>4. ASSUME NEW k \in T PROVE m <= k
  <2>1. ~(k < m)
    BY <1>2, <1>3
  <2> QED
    BY <2>1
<1> QED
  BY <1>4

\* Induction over the natural numbers, for a set in place of a predicate.
LEMMA Induction ==
  ASSUME NEW T \in SUBSET Nat, 0 \in T, \A n \in T : n + 1 \in T
  PROVE  T = Nat
<1> SUFFICES ASSUME T # Nat PROVE FALSE
  OBVIOUS
<1>1. PICK m \in Nat \ T : \A k \in Nat \ T : m <= k
  BY Least
<1>2. m # 0 /\ m - 1 \in Nat /\ ~(m <= m - 1)
  OBVIOUS
<1>3. m - 1 \in T
  BY <1>1, <1>2
<1> QED
  BY <1>2, <1>3

\* A set of integers that is bounded has a greatest element.
LEMMA MaxIs ==
  ASSUME NEW T \in SUBSET Int, T # {}, NEW b \in Int, \A k \in T : k <= b
  PROVE  List!Max(T) \in T /\ \A k \in T : k <= List!Max(T)
<1> DEFINE D == {n \in Nat : b - n \in T}
<1>1. D # {}
  <2>1. PICK k \in T : TRUE
    OBVIOUS
  <2>2. b - k \in Nat /\ b - (b - k) = k
    BY <2>1
  <2> QED
    BY <2>2
<1>2. PICK m \in D : \A n \in D : m <= n
  <2>1. D \in SUBSET Nat
    OBVIOUS
  <2> HIDE DEF D
  <2> QED
    BY <1>1, <2>1, Least
<1>3. \A k \in T : k <= b - m
  <2> SUFFICES ASSUME NEW k \in T PROVE k <= b - m
    OBVIOUS
  <2>1. b - k \in Nat /\ b - (b - k) = k
    OBVIOUS
  <2>2. m <= b - k
    BY <1>2, <2>1
  <2> QED
    BY <1>2, <2>2
<1>4. b - m \in T
  BY <1>2
<1>5. \E x \in T : \A y \in T : x >= y
  BY <1>3, <1>4
<1> QED
  BY <1>5 DEF List!Max

-----------------------------------------------------------------------------
\* Sums of the values of g from a on exist, as the sums up to a bound.
LEMMA SumsUpTo ==
  ASSUME NEW a \in Int, NEW g \in [Int -> Int], NEW n \in Nat
  PROVE  \E f \in [Int -> Int] : \A i \in Int :
           f[i] = IF i < a THEN 0 ELSE (IF i < a + n THEN g[i] ELSE 0) + f[i - 1]
<1> DEFINE Sums(f, k) == \A i \in Int :
             f[i] = IF i < a THEN 0 ELSE (IF i < a + k THEN g[i] ELSE 0) + f[i - 1]
           T == {k \in Nat : \E f \in [Int -> Int] : Sums(f, k)}
<1>1. 0 \in T
  <2>1. Sums([i \in Int |-> 0], 0)
    OBVIOUS
  <2>2. [i \in Int |-> 0] \in [Int -> Int]
    OBVIOUS
  <2> QED
    BY <2>1, <2>2
<1>2. ASSUME NEW k \in T PROVE k + 1 \in T
  <2>1. PICK f \in [Int -> Int] : Sums(f, k)
    OBVIOUS
  <2>2. PICK h : h = [i \in Int |-> IF i < a + k THEN f[i] ELSE f[i] + g[a + k]]
    OBVIOUS
  <2>3. h \in [Int -> Int]
    BY <2>2
  <2>4. ASSUME NEW i \in Int
        PROVE  h[i] = IF i < a THEN 0 ELSE (IF i < a + (k + 1) THEN g[i] ELSE 0) + h[i - 1]
    <3>1. f[i] = IF i < a THEN 0 ELSE (IF i < a + k THEN g[i] ELSE 0) + f[i - 1]
      BY <2>1
    <3>2. /\ h[i] = IF i < a + k THEN f[i] ELSE f[i] + g[a + k]
          /\ h[i - 1] = IF i - 1 < a + k THEN f[i - 1] ELSE f[i - 1] + g[a + k]
      BY <2>2
    <3>3. f[i] \in Int /\ f[i - 1] \in Int /\ g[i] \in Int /\ g[a + k] \in Int
      OBVIOUS
    <3>4. CASE i < a + k
      BY <3>1, <3>2, <3>3, <3>4
    <3>5. CASE i = a + k
      BY <3>1, <3>2, <3>3, <3>5
    <3>6. CASE i > a + k
      BY <3>1, <3>2, <3>3, <3>6
    <3> QED
      BY <3>4, <3>5, <3>6
  <2>5. Sums(h, k + 1)
    BY <2>4
  <2> QED
    BY <2>3, <2>5
<1>3. T = Nat
  <2>1. T \in SUBSET Nat
    OBVIOUS
  <2> HIDE DEF T
  <2> QED
    BY <1>1, <1>2, <2>1, Induction
<1> QED
  BY <1>3

\* The lists of the proofs: what ChatList's methods are given and return.
Items == Seq([lines: Nat, focusable: BOOLEAN])

\* An item has lines, and outside of the list there are none.
LEMMA ItemLines ==
  ASSUME NEW v, v.items \in Items
  PROVE  /\ List!Last(v) = Len(v.items) - 1 /\ Len(v.items) \in Nat
         /\ \A i \in Int : List!GetItem(v, i) \in Nat
         /\ \A i \in Int : i > List!Last(v) => List!GetItem(v, i) = 0
<1>1. Len(v.items) \in Nat /\ List!Last(v) = Len(v.items) - 1
  BY DEF Items, List!Last
<1>2. ASSUME NEW i \in Int PROVE List!GetItem(v, i) \in Nat
  <2>1. CASE i \in 0..List!Last(v)
    <3>1. i + 1 \in 1..Len(v.items)
      BY <1>1, <2>1
    <3>2. v.items[i + 1] \in [lines: Nat, focusable: BOOLEAN]
      BY <3>1, ElementOfSeq DEF Items
    <3> QED
      BY <2>1, <3>2 DEF List!GetItem
  <2>2. CASE i \notin 0..List!Last(v)
    BY <2>2 DEF List!GetItem
  <2> QED
    BY <2>1, <2>2
<1>3. \A i \in Int : i > List!Last(v) => List!GetItem(v, i) = 0
  BY <1>1 DEF List!GetItem
<1> QED
  BY <1>1, <1>2, <1>3

\* The lines of the items from a on are the recursive function they are meant to be.
LEMMA TotalIs ==
  ASSUME NEW v, v.items \in Items, NEW a \in Int, NEW b \in Int, Gap \in Nat
  PROVE  List!Total(v, a, b) \in Int
<1> DEFINE Lines(f) == f = [i \in Int |-> IF i < a THEN 0 ELSE List!GetItem(v, i) + f[i - 1]]
<1>1. \E f : Lines(f)
  <2>1. PICK g : g = [i \in Int |-> List!GetItem(v, i)]
    OBVIOUS
  <2>2. g \in [Int -> Int] /\ \A i \in Int : g[i] = List!GetItem(v, i)
    BY <2>1, ItemLines
  <2>3. PICK n \in Nat : a + n > List!Last(v)
    <3>1. List!Last(v) \in Int
      BY ItemLines
    <3>2. CASE a > List!Last(v)
      BY <3>1, <3>2
    <3>3. CASE a <= List!Last(v)
      <4>1. List!Last(v) - a + 1 \in Nat /\ a + (List!Last(v) - a + 1) > List!Last(v)
        BY <3>1, <3>3
      <4> QED
        BY <4>1
    <3> QED
      BY <3>1, <3>2, <3>3
  <2>4. PICK f \in [Int -> Int] : \A i \in Int :
          f[i] = IF i < a THEN 0 ELSE (IF i < a + n THEN g[i] ELSE 0) + f[i - 1]
    BY <2>2, SumsUpTo
  <2>5. \A i \in Int : (IF i < a + n THEN g[i] ELSE 0) = List!GetItem(v, i)
    <3>1. List!Last(v) \in Int
      BY ItemLines
    <3>2. \A i \in Int : i > List!Last(v) => List!GetItem(v, i) = 0
      BY ItemLines
    <3> QED
      BY <2>2, <2>3, <3>1, <3>2
  <2>6. \A i \in Int : f[i] = IF i < a THEN 0 ELSE List!GetItem(v, i) + f[i - 1]
    BY <2>4, <2>5
  <2>7. Lines(f)
    BY <2>4, <2>6
  <2> QED
    BY <2>7
<1>2. PICK f : f = CHOOSE h : Lines(h)
  OBVIOUS
<1>3. \A i \in Int : f[i] = IF i < a THEN 0 ELSE List!GetItem(v, i) + f[i - 1]
  <2>1. Lines(f)
    BY <1>1, <1>2
  <2> QED
    BY <2>1
<1>4. \A i \in Int : f[i] \in Int
  <2> DEFINE T == {k \in Nat : f[a - 1 + k] \in Int}
  <2>1. 0 \in T
    BY <1>3
  <2>2. ASSUME NEW k \in T PROVE k + 1 \in T
    <3>1. f[a - 1 + (k + 1)] = List!GetItem(v, a - 1 + (k + 1)) + f[a - 1 + k]
      <4>1. a - 1 + (k + 1) \in Int /\ ~(a - 1 + (k + 1) < a) /\ a - 1 + (k + 1) - 1 = a - 1 + k
        OBVIOUS
      <4> QED
        BY <1>3, <4>1
    <3>2. List!GetItem(v, a - 1 + (k + 1)) \in Nat
      <4>1. PICK m \in Int : m = a - 1 + (k + 1)
        OBVIOUS
      <4> QED
        BY <4>1, ItemLines
    <3> QED
      BY <3>1, <3>2
  <2>3. T = Nat
    <3>1. T \in SUBSET Nat
      OBVIOUS
    <3> HIDE DEF T
    <3> QED
      BY <2>1, <2>2, <3>1, Induction
  <2>4. ASSUME NEW i \in Int PROVE f[i] \in Int
    <3>1. CASE i < a
      BY <1>3, <3>1
    <3>2. CASE i >= a
      <4>1. i - a + 1 \in Nat /\ a - 1 + (i - a + 1) = i
        BY <3>2
      <4>2. i - a + 1 \in T
        BY <2>3, <4>1
      <4> QED
        BY <4>1, <4>2
    <3> QED
      BY <3>1, <3>2
  <2> QED
    BY <2>4
<1>5. List!Total(v, a, b) = IF a > b THEN 0 ELSE f[b] + Gap * (b - a)
  BY <1>2 DEF List!Total
<1>6. CASE a > b
  BY <1>5, <1>6
<1>7. CASE a <= b
  <2>1. f[b] \in Int /\ Gap * (b - a) \in Int
    BY <1>4
  <2> QED
    BY <1>5, <1>7, <2>1
<1> QED
  BY <1>6, <1>7
-----------------------------------------------------------------------------
(* The methods of the list *)

\* A list: whatever is scrolled and selected, its items have lines.
Shape(v) ==
  /\ DOMAIN v = {"items", "height", "selected", "idx", "line", "follow"}
  /\ v.items \in Items /\ v.height \in Nat /\ v.follow \in BOOLEAN

\* The same items in the same viewport.
Same(v, w) == Shape(w) /\ w.items = v.items /\ w.height = v.height

\* What the assignments of the code change and what they leave alone.
LEMMA OffsetIs ==
  ASSUME NEW v, Shape(v), NEW i, NEW n
  PROVE  /\ Same(v, List!Offset(v, i, n)) /\ List!Offset(v, i, n).follow = v.follow
         /\ List!Offset(v, i, n).idx = i /\ List!Offset(v, i, n).line = n
BY DEF Shape, Same, List!Offset

LEMMA SelectKeeps ==
  ASSUME NEW v, Shape(v), NEW i
  PROVE  /\ Same(v, List!Select(v, i)) /\ List!Select(v, i).follow = v.follow
         /\ List!Select(v, i).idx = v.idx /\ List!Select(v, i).line = v.line
BY DEF Shape, Same, List!Select

LEMMA FollowedIs ==
  ASSUME NEW v, Shape(v), NEW b \in BOOLEAN
  PROVE  /\ Same(v, List!Followed(v, b)) /\ List!Followed(v, b).follow = b
         /\ List!Followed(v, b).idx = v.idx /\ List!Followed(v, b).line = v.line
BY DEF Shape, Same, List!Followed

LEMMA RedrawIs ==
  ASSUME NEW v, Shape(v), NEW i \in 0..List!Last(v), NEW n \in Nat
  PROVE  Shape(List!Redraw(v, i, n)) /\ List!Redraw(v, i, n).follow = v.follow
<1>1. PICK k \in 1..Len(v.items) : k = i + 1
  BY ItemLines DEF Shape
<1>2. PICK x : x = [v.items[k] EXCEPT !.lines = n]
  OBVIOUS
<1>3. x \in [lines: Nat, focusable: BOOLEAN]
  <2>1. PICK y : y = v.items[k]
    OBVIOUS
  <2>2. y \in [lines: Nat, focusable: BOOLEAN]
    BY <2>1, ElementOfSeq DEF Shape, Items
  <2> QED
    BY <1>2, <2>1, <2>2
<1>4. PICK s : s = [v.items EXCEPT ![k] = x]
  OBVIOUS
<1>5. s \in Items
  BY <1>3, <1>4 DEF Shape, Items
<1>6. List!Redraw(v, i, n) = [v EXCEPT !.items = s]
  BY <1>1, <1>2, <1>4 DEF List!Redraw
<1> QED
  BY <1>5, <1>6 DEF Shape

LEMMA AppendItemsIs ==
  ASSUME NEW v, Shape(v), NEW s \in Items
  PROVE  Shape(List!AppendItems(v, s)) /\ List!AppendItems(v, s).follow = v.follow
BY ConcatProperties DEF Shape, Items, List!AppendItems

LEMMA SetItemsIs ==
  ASSUME NEW v, Shape(v), NEW s \in Items
  PROVE  Shape(List!SetItems(v, s)) /\ List!SetItems(v, s).follow = v.follow
BY DEF Shape, List!SetItems

\* The items around the removed one stay.
LEMMA RemoveItemIs ==
  ASSUME NEW v, Shape(v), NEW i \in 0..List!Last(v)
  PROVE  Shape(List!RemoveItem(v, i)) /\ List!RemoveItem(v, i).follow = v.follow
<1>1. PICK a : a = SubSeq(v.items, 1, i)
  OBVIOUS
<1>2. PICK b : b = SubSeq(v.items, i + 2, List!Last(v) + 1)
  OBVIOUS
<1>3. Len(v.items) \in Nat /\ List!Last(v) = Len(v.items) - 1 /\ v.items \in Items
  BY ItemLines DEF Shape
<1>4. a \in Items /\ b \in Items
  <2>1. PICK m \in Int, n \in Int : m = i + 2 /\ n = List!Last(v) + 1
    BY <1>3
  <2>2. m \in 1..(Len(v.items) + 1) /\ n \in (m - 1)..Len(v.items)
    BY <1>3, <2>1
  <2>3. \A k \in 1..Len(v.items) : v.items[k] \in [lines: Nat, focusable: BOOLEAN]
    BY <1>3, ElementOfSeq DEF Items
  <2> QED
    <3>1. b \in Items
      BY <1>2, <2>1, <2>2, <2>3, SubSeqProperties DEF Items
    <3>2. PICK k \in Int : k = 1
      OBVIOUS
    <3>3. k \in 1..(Len(v.items) + 1) /\ i \in Int /\ i \in (k - 1)..Len(v.items)
      BY <1>3, <3>2
    <3>4. a = SubSeq(v.items, k, i)
      BY <1>1, <3>2
    <3>5. a \in Items
      BY <2>3, <3>3, <3>4, SubSeqProperties DEF Items
    <3> QED
      BY <3>1, <3>5
<1>5. a \o b \in Items
  BY <1>4, ConcatProperties DEF Items
<1> QED
  BY <1>1, <1>2, <1>5 DEF Shape, List!RemoveItem

\* Scrolled to the bottom, the list shows its end.
LEMMA ToBottomIs ==
  ASSUME NEW v, Shape(v), Gap \in Nat
  PROVE  LET w == List!ListToBottom(v)
         IN  Same(v, w) /\ w.follow = v.follow /\ List!EndIsShown(w)
<1> DEFINE e == List!Last(v)
           over == {i \in 0..e : List!Total(v, i, e) > v.height}
           w == List!ListToBottom(v)
<1>1. e \in Int /\ \A i \in 0..e : List!Total(v, i, e) \in Int
  <2>1. v.items \in Items /\ e \in Int
    BY ItemLines DEF Shape
  <2>2. \A i \in Int : List!Total(v, i, e) \in Int
    BY <2>1, TotalIs
  <2> QED
    BY <2>1, <2>2
<1>2. CASE v.items = <<>>
  BY <1>2 DEF List!ListToBottom, List!EndIsShown, Same
<1>3. CASE v.items # <<>>
  <2>1. e >= 0
    <3>1. Len(v.items) # 0
      BY <1>3, EmptySeq DEF Shape, Items
    <3> QED
      BY <3>1, ItemLines DEF Shape
  <2>2. PICK i \in 0..e, n \in Int : /\ List!LastOffsetItem(v) = <<i, n>>
                                    /\ List!Total(v, i, e) - n <= v.height
    <3>1. CASE over = {}
      <4>1. List!LastOffsetItem(v) = <<0, 0>>
        BY <3>1 DEF List!LastOffsetItem
      <4>2. 0 \in 0..e /\ ~(List!Total(v, 0, e) > v.height)
        BY <1>1, <2>1, <3>1
      <4>3. List!Total(v, 0, e) - 0 <= v.height
        BY <1>1, <4>2 DEF Shape
      <4> QED
        BY <4>1, <4>2, <4>3
    <3>2. CASE over # {}
      <4>1. List!Max(over) \in over
        <5>1. PICK T : T = over
          OBVIOUS
        <5>2. T \subseteq 0..e
          BY <5>1, Zenon
        <5>3. 0..e \subseteq Int
          OBVIOUS
        <5>4. T # {} /\ \A k \in T : k <= e
          BY <1>1, <3>2, <5>1, <5>2
        <5> HIDE DEF over
        <5> QED
          BY <1>1, <5>1, <5>2, <5>3, <5>4, MaxIs
      <4>2. PICK i \in 0..e : i = List!Max(over)
        BY <4>1
      <4>3. PICK n \in Int : n = List!Total(v, i, e) - v.height
        BY <1>1 DEF Shape
      <4>4. List!LastOffsetItem(v) = <<i, n>>
        <5>1. List!LastOffsetItem(v) = IF over = {} THEN <<0, 0>>
                ELSE <<List!Max(over), List!Total(v, List!Max(over), e) - v.height>>
          BY DEF List!LastOffsetItem
        <5> QED
          BY <3>2, <4>2, <4>3, <5>1
      <4>5. List!Total(v, i, e) - n <= v.height
        BY <1>1, <4>3 DEF Shape
      <4> QED
        BY <4>4, <4>5
    <3> QED
      BY <3>1, <3>2
  <2>3. w = List!Offset(v, i, n)
    BY <1>3, <2>2 DEF List!ListToBottom
  <2>4. Same(v, w) /\ w.follow = v.follow /\ w.idx = i /\ w.line = n
    BY <2>3, OffsetIs
  <2>5. List!Max2(w.idx, 0) = i
    BY <2>4 DEF List!Max2
  <2>6. List!Last(w) = e /\ List!Total(w, i, e) = List!Total(v, i, e)
    BY <2>4 DEF Same, List!Last, List!Total, List!GetItem
  <2> QED
    BY <2>2, <2>4, <2>5, <2>6 DEF Same, List!EndIsShown, List!Below
<1> QED
  BY <1>2, <1>3
\* What a list shows depends on its items, its height and its offset alone.
LEMMA EndStays ==
  ASSUME NEW v, NEW w, w.items = v.items, w.height = v.height, w.idx = v.idx, w.line = v.line,
         List!EndIsShown(v)
  PROVE  List!EndIsShown(w)
<1>1. List!Total(w, List!Max2(w.idx, 0), List!Last(w)) = List!Total(v, List!Max2(v.idx, 0), List!Last(v))
  BY DEF List!Total, List!GetItem, List!Last
<1> QED
  BY <1>1 DEF List!EndIsShown, List!Below

\* The same list with another item selected.
Selected(v, w) == Same(v, w) /\ w.follow = v.follow /\ w.idx = v.idx /\ w.line = v.line

\* Whatever is selected, nothing is scrolled.
LEMMA SelectsIs ==
  ASSUME NEW v, Shape(v)
  PROVE  /\ \A i : Selected(v, List!Select(v, i)) /\ Selected(v, v)
         /\ Selected(v, List!SelectPrev(v)) /\ Selected(v, List!SelectNext(v))
         /\ Selected(v, List!SelectFirst(v)) /\ Selected(v, List!SelectLast(v))
         /\ Selected(v, List!SelectFirstInView(v)) /\ Selected(v, List!SelectLastInView(v))
         /\ \A i : Selected(v, List!SetSelected(v, i))
<1>1. \A i : Selected(v, List!Select(v, i))
  BY SelectKeeps DEF Selected
<1>2. Selected(v, v)
  BY DEF Selected, Same
<1>3. Selected(v, List!SelectPrev(v)) /\ Selected(v, List!SelectNext(v))
  BY <1>1 DEF List!SelectPrev, List!SelectNext
<1>4. Selected(v, List!SelectFirst(v)) /\ Selected(v, List!SelectLast(v))
  BY <1>1, <1>2 DEF List!SelectFirst, List!SelectLast
<1>5. Selected(v, List!SelectFirstInView(v)) /\ Selected(v, List!SelectLastInView(v))
  BY <1>1, <1>2 DEF List!SelectFirstInView, List!SelectLastInView
<1>6. \A i : Selected(v, List!SetSelected(v, i))
  BY <1>1, <1>4 DEF List!SetSelected
<1> QED
  BY <1>1, <1>2, <1>3, <1>4, <1>5, <1>6

\* Scrolling changes no item.
LEMMA ScrollsAre ==
  ASSUME NEW v, Shape(v), Gap \in Nat
  PROVE  /\ \A n : Same(v, List!ScrollBy(v, n))
         /\ \A i : Same(v, List!ScrollToIndex(v, i))
         /\ Same(v, List!ScrollToSelected(v)) /\ Same(v, List!ScrollToTop(v))
<1>1. Same(v, v) /\ \A i, n : Same(v, List!Offset(v, i, n))
  BY OffsetIs DEF Same
<1>2. \A w, b : Same(v, w) /\ b \in BOOLEAN => Same(v, List!Followed(w, b))
  BY FollowedIs DEF Same
<1>3. \A w : List!AtBottom(w) \in BOOLEAN
  BY DEF List!AtBottom
<1>4. ASSUME NEW n PROVE Same(v, List!ScrollBy(v, n))
  <2>1. PICK w : w = List!ListScrollBy(v, n)
    OBVIOUS
  <2>2. Same(v, w)
    BY <1>1, <2>1 DEF List!ListScrollBy
  <2>3. PICK b \in BOOLEAN : b = (n > 0 /\ List!AtBottom(w))
    OBVIOUS
  <2>4. List!ScrollBy(v, n) = List!Followed(w, b)
    BY <2>1, <2>3 DEF List!ScrollBy
  <2> QED
    BY <1>2, <2>2, <2>4
<1>5. ASSUME NEW i PROVE Same(v, List!ScrollToIndex(v, i))
  <2>1. PICK w : w = List!Offset(v, i, 0)
    OBVIOUS
  <2>2. List!ScrollToIndex(v, i) = List!Followed(w, List!AtBottom(w))
    BY <2>1 DEF List!ScrollToIndex
  <2> QED
    BY <1>1, <1>2, <1>3, <2>1, <2>2
<1>6. Same(v, List!ScrollToSelected(v))
  <2>1. PICK w : w = List!ListToSelected(v)
    OBVIOUS
  <2>2. Same(v, w)
    BY <1>1, <2>1 DEF List!ListToSelected
  <2>3. List!ScrollToSelected(v) = List!Followed(w, List!AtBottom(w))
    BY <2>1 DEF List!ScrollToSelected
  <2> QED
    BY <1>2, <1>3, <2>2, <2>3
<1>7. Same(v, List!ScrollToTop(v))
  BY <1>1, <1>2 DEF List!ScrollToTop
<1> QED
  BY <1>4, <1>5, <1>6, <1>7

LEMMA ScrollToBottomIs ==
  ASSUME NEW v, Shape(v), Gap \in Nat
  PROVE  LET w == List!ScrollToBottom(v)
         IN  Same(v, w) /\ w.follow /\ List!EndIsShown(w)
<1>1. PICK u : u = List!ListToBottom(v)
  OBVIOUS
<1>2. Same(v, u) /\ List!EndIsShown(u)
  BY <1>1, ToBottomIs
<1>3. PICK w : w = List!Followed(u, TRUE)
  OBVIOUS
<1>4. Same(u, w) /\ w.follow = TRUE /\ w.idx = u.idx /\ w.line = u.line
  BY <1>2, <1>3, FollowedIs DEF Same
<1>5. List!EndIsShown(w)
  BY <1>2, <1>4, EndStays DEF Same
<1>6. List!ScrollToBottom(v) = w
  BY <1>1, <1>3 DEF List!ScrollToBottom
<1> QED
  BY <1>2, <1>4, <1>5, <1>6 DEF Same

\* The last item is selected after the list is at its bottom.
LEMMA BottomSelected ==
  ASSUME NEW v, Shape(v), Gap \in Nat
  PROVE  LET w == List!SelectLast(List!ScrollToBottom(v))
         IN  Same(v, w) /\ List!EndIsShown(w)
<1>1. PICK u : u = List!ScrollToBottom(v)
  OBVIOUS
<1>2. Same(v, u) /\ List!EndIsShown(u)
  BY <1>1, ScrollToBottomIs
<1>3. Selected(u, List!SelectLast(u))
  BY <1>2, SelectsIs DEF Same
<1>4. List!EndIsShown(List!SelectLast(u))
  BY <1>2, <1>3, EndStays DEF Selected, Same
<1> QED
  BY <1>1, <1>2, <1>3, <1>4 DEF Selected, Same

\* What arrives while the list follows leaves it at its end.
LEMMA AnchoredIs ==
  ASSUME NEW v, Shape(v), Gap \in Nat
  PROVE  Same(v, List!Anchored(v)) /\ (v.follow => List!EndIsShown(List!Anchored(v)))
BY ScrollToBottomIs DEF List!Anchored, Same

LEMMA AfterUpdateIs ==
  ASSUME NEW v, Shape(v), Gap \in Nat
  PROVE  Same(v, List!AfterUpdate(v)) /\ (v.follow => List!EndIsShown(List!AfterUpdate(v)))
BY BottomSelected DEF List!AfterUpdate, Same

\* A new height does not end the following.
LEMMA SetSizeIs ==
  ASSUME NEW v, Shape(v), NEW h \in Nat, Gap \in Nat
  PROVE  Shape(List!SetSize(v, h)) /\ (v.follow => List!SetSize(v, h).follow)
<1>1. PICK w : w = [v EXCEPT !.height = h]
  OBVIOUS
<1>2. Shape(w) /\ w.follow = v.follow
  BY <1>1 DEF Shape
<1>3. Shape(List!ScrollToBottom(w)) /\ List!ScrollToBottom(w).follow
  BY <1>2, ScrollToBottomIs DEF Same
<1>4. List!SetSize(v, h) = IF List!AtBottom(w) THEN List!ScrollToBottom(w) ELSE w
  BY <1>1 DEF List!SetSize
<1> QED
  BY <1>2, <1>3, <1>4
-----------------------------------------------------------------------------
(* The handlers *)

\* A move of the user scrolls and selects.
LEMMA MovesKeep ==
  ASSUME Shape(l), Gap \in Nat, List!UserMoves
  PROVE  Shape(l')
<1>1. \A v : Shape(v) => \A n : Shape(List!ScrollBy(v, n))
  BY ScrollsAre DEF Same
<1>2. \A v : Shape(v) => /\ Shape(List!ScrollToSelected(v)) /\ Shape(List!ScrollToTop(v))
                         /\ Shape(List!ScrollToBottom(v))
  BY ScrollsAre, ScrollToBottomIs DEF Same
<1>3. \A v : Shape(v) => /\ Shape(List!SelectPrev(v)) /\ Shape(List!SelectNext(v))
                         /\ Shape(List!SelectFirst(v)) /\ Shape(List!SelectLast(v))
                         /\ Shape(List!SelectFirstInView(v)) /\ Shape(List!SelectLastInView(v))
                         /\ \A i : Shape(List!SetSelected(v, i)) /\ Shape(List!Select(v, i))
  BY SelectsIs DEF Selected, Same
<1>4. List!KeyUp => Shape(l')
  BY <1>1, <1>2, <1>3 DEF List!KeyUp, List!KeepInView
<1>5. List!KeyDown => Shape(l')
  BY <1>1, <1>2, <1>3 DEF List!KeyDown, List!KeepInView
<1>6. List!WheelUp => Shape(l')
  BY <1>1, <1>2, <1>3 DEF List!WheelUp, List!KeepInView
<1>7. List!WheelDown => Shape(l')
  BY <1>1, <1>2, <1>3 DEF List!WheelDown, List!KeepInView
<1>8. List!UpOneItem \/ List!DownOneItem => Shape(l')
  BY <1>2, <1>3 DEF List!UpOneItem, List!DownOneItem
<1>9. List!PageUp \/ List!PageDown => Shape(l')
  BY <1>1, <1>3 DEF List!PageUp, List!PageDown
<1>10. List!Home \/ List!End \/ List!FocusChat => Shape(l')
  BY <1>2, <1>3 DEF List!Home, List!End, List!FocusChat
<1>11. \A i : List!Click(i) => Shape(l')
  BY <1>3 DEF List!Click
<1> QED
  BY <1>4, <1>5, <1>6, <1>7, <1>8, <1>9, <1>10, <1>11 DEF List!UserMoves

LEMMA ExpandKeeps ==
  ASSUME Shape(l), List!ListAssumption, List!Expands
  PROVE  Shape(l')
<1>1. PICK n \in 1..MaxLines, b \in BOOLEAN : List!Expand(n, b)
  BY DEF List!Expands
<1>2. n \in Nat /\ Gap \in Nat
  BY DEF List!ListAssumption
<1>3. l.selected \in 0..List!Last(l)
  BY <1>1 DEF List!Expand, List!Selectable
<1>4. PICK v : v = List!Redraw(l, l.selected, n)
  OBVIOUS
<1>5. Shape(v)
  BY <1>2, <1>3, <1>4, RedrawIs
<1>6. PICK w : w = IF b THEN v ELSE List!ScrollToIndex(v, v.selected)
  OBVIOUS
<1>7. Shape(w)
  BY <1>2, <1>5, <1>6, ScrollsAre DEF Same
<1>8. l' = IF List!AtBottom(w) THEN List!ScrollToBottom(w) ELSE w
  BY <1>1, <1>4, <1>6 DEF List!Expand
<1> QED
  BY <1>2, <1>7, <1>8, ScrollToBottomIs DEF Same

\* One item, or as many as there are.
LEMMA ItemsAre ==
  ASSUME List!ListAssumption
  PROVE  /\ \A x \in List!Item : <<x>> \in Items
         /\ \A n \in 0..MaxItems : \A x \in List!Item : [i \in 1..n |-> x] \in Items
         /\ <<>> \in Items
<1>1. \A x \in List!Item : x \in [lines: Nat, focusable: BOOLEAN]
  BY DEF List!Item, List!ListAssumption
<1> QED
  BY <1>1 DEF Items, List!ListAssumption

\* What arrives keeps the list a list, and one that follows at its end.
LEMMA ArrivalsAnchor ==
  ASSUME Shape(l), List!ListAssumption, List!Arrives
  PROVE  Shape(l') /\ (l.follow => List!EndIsShown(l'))
<1>1. Gap \in Nat /\ \A n \in 1..MaxLines : n \in Nat
  BY DEF List!ListAssumption
<1>2. CASE List!Updates
  <2>1. PICK i \in 0..(MaxItems - 1) :
          \/ \E n \in 1..MaxLines : List!UpdateMessage(i, n) \/ List!ToolResult(i, n)
          \/ \E x \in List!Item : List!UpdateToCalls(i, <<x>>)
    BY <1>2 DEF List!Updates
  <2>2. ASSUME NEW n \in 1..MaxLines, List!UpdateMessage(i, n) \/ List!ToolResult(i, n)
        PROVE  Shape(l') /\ (l.follow => List!EndIsShown(l'))
    <3>1. i \in 0..List!Last(l)
      BY <2>2, ItemLines DEF List!UpdateMessage, List!ToolResult, Shape
    <3>2. PICK v : v = List!Redraw(l, i, n)
      OBVIOUS
    <3>3. Shape(v) /\ v.follow = l.follow
      BY <1>1, <3>1, <3>2, RedrawIs
    <3>4. l' = List!AfterUpdate(v) \/ l' = List!Anchored(v)
      BY <2>2, <3>2 DEF List!UpdateMessage, List!ToolResult
    <3> QED
      BY <1>1, <3>3, <3>4, AfterUpdateIs, AnchoredIs DEF Same
  <2>3. ASSUME NEW x \in List!Item, List!UpdateToCalls(i, <<x>>)
        PROVE  Shape(l') /\ (l.follow => List!EndIsShown(l'))
    <3>1. i \in 0..List!Last(l)
      BY <2>3, ItemLines DEF List!UpdateToCalls, Shape
    <3>2. PICK u : u = List!RemoveItem(l, i)
      OBVIOUS
    <3>3. Shape(u) /\ u.follow = l.follow
      BY <3>1, <3>2, RemoveItemIs
    <3>4. PICK v : v = List!AppendItems(u, <<x>>)
      OBVIOUS
    <3>5. Shape(v) /\ v.follow = l.follow
      BY <3>3, <3>4, AppendItemsIs, ItemsAre
    <3>6. l' = List!AfterUpdate(v)
      BY <2>3, <3>2, <3>4 DEF List!UpdateToCalls
    <3> QED
      BY <1>1, <3>5, <3>6, AfterUpdateIs DEF Same
  <2> QED
    BY <2>1, <2>2, <2>3
<1>3. ASSUME NEW x \in List!Item, List!AppendUser(x) \/ List!AppendAssistant(<<x>>)
      PROVE  Shape(l') /\ (l.follow => List!EndIsShown(l'))
  <2>1. PICK v : v = List!AppendItems(l, <<x>>)
    OBVIOUS
  <2>2. Shape(v) /\ v.follow = l.follow
    BY <2>1, AppendItemsIs, ItemsAre
  <2>3. l' = List!ScrollToBottom(v) \/ l' = List!Anchored(v)
    BY <1>3, <2>1 DEF List!AppendUser, List!AppendAssistant
  <2> QED
    BY <1>1, <2>2, <2>3, ScrollToBottomIs, AnchoredIs DEF Same
<1>4. ASSUME NEW n \in 0..MaxItems, NEW x \in List!Item, List!LoadSession([i \in 1..n |-> x])
      PROVE  Shape(l') /\ List!EndIsShown(l')
  <2>1. PICK s \in Items : s = [i \in 1..n |-> x]
    BY ItemsAre
  <2>2. PICK v : v = List!SetItems(l, s)
    OBVIOUS
  <2>3. Shape(v)
    BY <2>2, SetItemsIs
  <2>4. l' = List!SelectLast(List!ScrollToBottom(v))
    BY <1>4, <2>1, <2>2 DEF List!LoadSession
  <2> QED
    BY <1>1, <2>3, <2>4, BottomSelected DEF Same
<1>5. CASE List!AnimationStep
  BY <1>1, <1>5, AnchoredIs DEF List!AnimationStep, Same
<1> QED
  BY <1>2, <1>3, <1>4, <1>5 DEF List!Arrives

LEMMA RewrapsAnchor ==
  ASSUME Shape(l), List!ListAssumption, List!Rewraps
  PROVE  Shape(l') /\ (l.follow => List!EndIsShown(l'))
<1>1. Gap \in Nat /\ 1..MaxLines \subseteq Nat /\ 1..MaxHeight \subseteq Nat
  BY DEF List!ListAssumption
<1>2. PICK h \in 1..MaxHeight, lines \in [DOMAIN l.items -> 1..MaxLines] : List!WindowSize(h, lines)
  BY DEF List!Rewraps
<1>3. PICK s : s = [i \in DOMAIN l.items |-> [l.items[i] EXCEPT !.lines = lines[i]]]
  OBVIOUS
<1>4. s \in Items
  <2>1. PICK n \in Nat : DOMAIN l.items = 1..n /\ n = Len(l.items)
    BY DEF Shape, Items
  <2>2. ASSUME NEW i \in 1..n PROVE s[i] \in [lines: Nat, focusable: BOOLEAN]
    <3>1. PICK y \in [lines: Nat, focusable: BOOLEAN] : y = l.items[i]
      BY <2>1, ElementOfSeq DEF Shape, Items
    <3>2. PICK k \in Nat : k = lines[i]
      BY <1>1, <2>1
    <3>3. s[i] = [y EXCEPT !.lines = k]
      BY <1>3, <2>1, <3>1, <3>2
    <3> QED
      BY <3>3
  <2>3. s \in [1..n -> [lines: Nat, focusable: BOOLEAN]]
    BY <1>3, <2>1, <2>2
  <2> QED
    <3>1. s \in UNION {[1..k -> [lines: Nat, focusable: BOOLEAN]] : k \in Nat}
      BY <2>3
    <3> QED
      BY <3>1, SeqDef, Zenon DEF Items
<1>5. PICK v : v = [l EXCEPT !.items = s]
  OBVIOUS
<1>6. Shape(v) /\ v.follow = l.follow
  BY <1>4, <1>5 DEF Shape
<1>7. PICK w : w = List!SetSize(v, h)
  OBVIOUS
<1>8. Shape(w) /\ (v.follow => w.follow)
  BY <1>1, <1>6, <1>7, SetSizeIs
<1>9. l' = List!Anchored(w)
  BY <1>2, <1>3, <1>5, <1>7 DEF List!WindowSize
<1> QED
  BY <1>1, <1>6, <1>8, <1>9, AnchoredIs DEF Same

\* The list keeps its shape, and its end when it follows.
LEMMA ListStep ==
  ASSUME Shape(l), List!ListAssumption, List!Next
  PROVE  Shape(l') /\ List!KeepsEnd
<1>1. Gap \in Nat /\ 1..MaxHeight \subseteq Nat
  BY DEF List!ListAssumption
<1>2. List!Deletes => Shape(l')
  <2>1. ASSUME NEW i \in 0..(MaxItems - 1), List!DeleteMessage(i) PROVE Shape(l')
    <3>1. i \in 0..List!Last(l)
      BY <2>1, ItemLines DEF List!DeleteMessage, Shape
    <3> QED
      BY <2>1, <3>1, RemoveItemIs DEF List!DeleteMessage
  <2> QED
    BY <2>1 DEF List!Deletes
<1>3. List!ClearMessages => Shape(l')
  BY ItemsAre, SetItemsIs DEF List!ClearMessages
<1>4. ASSUME NEW h \in 1..MaxHeight, List!Layout(h) PROVE Shape(l')
  BY <1>1, <1>4, SetSizeIs DEF List!Layout
<1>5. Shape(l')
  BY <1>1, <1>2, <1>3, <1>4, MovesKeep, ExpandKeeps, ArrivalsAnchor, RewrapsAnchor DEF List!Next
<1>6. List!KeepsEnd
  BY ArrivalsAnchor, RewrapsAnchor DEF List!KeepsEnd
<1> QED
  BY <1>5, <1>6

ListInv == Shape(l)

LEMMA ListStarts == TerminalInit => ListInv
<1> SUFFICES ASSUME TerminalInit PROVE Shape(l)
  BY DEF ListInv
<1>1. PICK h \in 1..MaxHeight : l = [items |-> <<>>, height |-> h, selected |-> -1, idx |-> 0,
                                     line |-> 0, follow |-> FALSE]
  BY DEF TerminalInit, List!Init
<1> QED
  BY <1>1, TerminalAssumption DEF List!ListAssumption, Shape, Items

\* While the chat follows, whatever arrives and however the window changes, the
\* last line ends in the viewport, for any items, heights and gaps.
THEOREM EndIsFollowed == TerminalSpec => FollowShowsTheEnd
<1>1. TerminalInit => ListInv
  BY ListStarts
<1>2. ListInv /\ [TerminalNext]_<<part, l, view, vars>> => ListInv' /\ [part = "list" => List!KeepsEnd]_l
  <2> SUFFICES ASSUME ListInv, [TerminalNext]_<<part, l, view, vars>>
               PROVE  Shape(l') /\ [part = "list" => List!KeepsEnd]_l
    BY DEF ListInv
  <2>1. CASE Scroll
    BY <2>1, ListStep, TerminalAssumption DEF Scroll, ListInv
  <2>2. CASE l' = l
    BY <2>2 DEF ListInv
  <2> QED
    BY <2>1, <2>2 DEF TerminalNext, Update, Press
<1> QED
  BY <1>1, <1>2, PTL DEF TerminalSpec, FollowShowsTheEnd

\* A command is for the session that was in view when it was made.
CommandsInv == \A c \in cmds : c.typed = c.s

\* A prompt runs in the session in which it was sent, whichever is in view then.
THEOREM PromptsStay == TerminalSpec => PromptRunsWhereTyped
<1>1. TerminalInit => CommandsInv
  BY DEF TerminalInit, View!Init, CommandsInv
<1>2. CommandsInv /\ [TerminalNext]_<<part, l, view, vars>>
        => CommandsInv' /\ [View!RunsWhereTyped]_view
  <2> SUFFICES ASSUME CommandsInv, [TerminalNext]_<<part, l, view, vars>>
               PROVE  CommandsInv' /\ [View!RunsWhereTyped]_view
    OBVIOUS
  <2>1. CASE Update
    <3>1. \A kind, s : View!Cmd(kind, s).typed = View!Cmd(kind, s).s
      BY DEF View!Cmd
    <3>2. \A new : View!Return(new) /\ (\A c \in new : c.typed = c.s) => CommandsInv'
      BY DEF CommandsInv, View!Return
    <3>3. ASSUME NEW s \in ViewSessions, NEW reads \in BOOLEAN,
                 \/ View!WriteMessage(s) \/ View!WriteFile(s) \/ View!EndTurn(s)
                 \/ View!SelectSession(s) \/ View!sendMessage(s, reads)
          PROVE  CommandsInv'
      <4>1. CASE View!SelectSession(s)
        BY <3>1, <3>2, <4>1 DEF View!SelectSession
      <4>2. CASE View!sendMessage(s, reads)
        <5>1. PICK new : View!Return(new) /\ new \subseteq
                {View!Cmd("load", s), View!Cmd("reads", s), View!Cmd("run", s)}
          BY <4>2 DEF View!sendMessage
        <5> QED
          BY <3>1, <3>2, <5>1
      <4> QED
        BY <3>3, <4>1, <4>2 DEF View!WriteMessage, View!WriteFile, View!EndTurn, CommandsInv
    <3>4. View!HandleEvent => CommandsInv'
      BY <3>1, <3>2 DEF View!HandleEvent, CommandsInv
    <3>5. View!newSession => CommandsInv'
      BY DEF View!newSession, CommandsInv
    <3>6. \A c : View!HandleLoad(c) \/ View!RunPrompt(c) \/ View!UseSession(c) => CommandsInv'
      BY DEF View!HandleLoad, View!RunPrompt, View!UseSession, CommandsInv
    <3>7. CommandsInv'
      BY <2>1, <3>3, <3>4, <3>5, <3>6, TRUE \in BOOLEAN DEF Update, View!Next
    <3>8. ASSUME NEW s \in running' \ running
          PROVE  \E c \in cmds \ cmds' : c.kind = "run" /\ c.typed = s
      <4>1. PICK c \in cmds : View!RunPrompt(c)
        BY <2>1, <3>8 DEF Update, View!Next, View!WriteMessage, View!WriteFile,
          View!EndTurn, View!SelectSession, View!sendMessage, View!newSession, View!HandleEvent,
          View!HandleLoad, View!UseSession
      <4> QED
        BY <3>8, <4>1 DEF CommandsInv, View!RunPrompt
    <3> QED
      BY <3>7, <3>8 DEF View!RunsWhereTyped
  <2>2. CASE UNCHANGED view
    BY <2>2 DEF view, CommandsInv
  <2> QED
    BY <2>1, <2>2 DEF TerminalNext, Scroll, Press
<1> QED
  BY <1>1, <1>2, PTL DEF TerminalSpec, PromptRunsWhereTyped

-----------------------------------------------------------------------------
(* Flattened sequences *)

\* g has the flattened beginnings of ss.
Flattens(g, ss) == g[0] = <<>> /\ \A k \in 1..Len(ss) : g[k] = g[k - 1] \o ss[k]

\* The first k of ss have flattened beginnings.
HasRun(S, ss, k) ==
  \E g \in [0..k -> Seq(S)] : g[0] = <<>> /\ \A i \in 1..k : g[i] = g[i - 1] \o ss[i]

\* FlattenSeq builds its result one element of ss after the other.
LEMMA FlatRuns ==
  ASSUME NEW S, NEW ss \in Seq(Seq(S))
  PROVE  \E g \in [0..Len(ss) -> Seq(S)] :
           Flattens(g, ss) /\ View!FlattenSeq(ss) = g[Len(ss)]
<1>1. PICK n \in Nat : n = Len(ss) /\ DOMAIN ss = 1..n /\ \A i \in 1..n : ss[i] \in Seq(S)
  OBVIOUS
<1> DEFINE T == {k \in Nat : k <= n => HasRun(S, ss, k)}
<1>2. 0 \in T
  <2>1. PICK g : g = [i \in 0..0 |-> <<>>]
    OBVIOUS
  <2>2. <<>> \in Seq(S) /\ 0 \in 0..0 /\ 1..0 = {}
    OBVIOUS
  <2>3. g \in [0..0 -> Seq(S)] /\ g[0] = <<>>
    BY <2>1, <2>2, Zenon
  <2>4. HasRun(S, ss, 0)
    BY <2>2, <2>3, Zenon DEF HasRun
  <2> QED
    BY <2>4
<1>3. ASSUME NEW k \in T PROVE k + 1 \in T
  <2> SUFFICES ASSUME k + 1 <= n PROVE HasRun(S, ss, k + 1)
    OBVIOUS
  <2>1. k \in Nat /\ k <= n /\ HasRun(S, ss, k)
    OBVIOUS
  <2>2. PICK g \in [0..k -> Seq(S)] : g[0] = <<>> /\ \A i \in 1..k : g[i] = g[i - 1] \o ss[i]
    BY <2>1 DEF HasRun
  <2>3. PICK m \in Nat : m = k + 1 /\ m - 1 = k /\ m \in 1..n
    BY <2>1
  <2>4. PICK x \in Seq(S) : x = g[k] \o ss[m]
    <3>1. g[k] \in Seq(S) /\ ss[m] \in Seq(S)
      BY <1>1, <2>1, <2>3
    <3> QED
      BY <3>1, ConcatProperties
  <2>5. PICK h : h = [i \in 0..m |-> IF i = m THEN x ELSE g[i]]
    OBVIOUS
  <2>6. h \in [0..m -> Seq(S)]
    <3>1. \A i \in 0..m : i # m => i \in 0..k
      BY <2>1, <2>3
    <3> QED
      BY <2>5, <3>1
  <2>7. h[0] = <<>>
    BY <2>1, <2>2, <2>3, <2>5
  <2>8. ASSUME NEW i \in 1..m PROVE h[i] = h[i - 1] \o ss[i]
    <3>1. CASE i = m
      <4>1. h[m] = x /\ h[k] = g[k]
        BY <2>1, <2>3, <2>5
      <4> QED
        BY <2>3, <2>4, <3>1, <4>1
    <3>2. CASE i # m
      <4>1. i \in 1..k /\ h[i] = g[i] /\ h[i - 1] = g[i - 1]
        BY <2>1, <2>3, <2>5, <3>2
      <4> QED
        BY <2>2, <4>1
    <3> QED
      BY <3>1, <3>2
  <2>9. HasRun(S, ss, m)
    BY <2>6, <2>7, <2>8, Zenon DEF HasRun
  <2> QED
    BY <2>3, <2>9
<1>4. n \in T
  <2>1. T \in SUBSET Nat
    OBVIOUS
  <2> HIDE DEF T
  <2> QED
    BY <1>2, <1>3, <2>1, Induction
<1>5. PICK g \in [0..n -> Seq(S)] : g[0] = <<>> /\ \A i \in 1..n : g[i] = g[i - 1] \o ss[i]
  <2>1. HasRun(S, ss, n)
    BY <1>4
  <2> QED
    BY <2>1 DEF HasRun
<1>6. CASE n = 0
  <2>1. View!FlattenSeq(ss) = ss /\ ss = <<>>
    BY <1>1, <1>6 DEF View!FlattenSeq
  <2> QED
    BY <1>1, <1>5, <1>6, <2>1 DEF Flattens
<1>7. CASE n # 0
  <2>1. PICK f : f = [i \in 1..n |-> g[i]]
    OBVIOUS
  <2>2. ASSUME NEW i \in 1..n PROVE f[i] = IF i = 1 THEN ss[i] ELSE f[i - 1] \o ss[i]
    <3>1. CASE i = 1
      <4>1. g[1] = g[0] \o ss[1] /\ ss[1] \in Seq(S)
        <5>1. 1 \in 1..n /\ 1 - 1 = 0
          BY <3>1
        <5> QED
          BY <1>1, <1>5, <5>1
      <4>2. <<>> \o ss[1] = ss[1]
        BY <4>1, ConcatEmptySeq
      <4> QED
        BY <1>5, <2>1, <3>1, <4>1, <4>2
    <3>2. CASE i # 1
      <4>1. i - 1 \in 1..n
        BY <3>2
      <4> QED
        BY <1>5, <2>1, <3>2, <4>1
    <3> QED
      BY <3>1, <3>2
  <2>3. f = [i \in 1..Len(ss) |-> IF i = 1 THEN ss[i] ELSE f[i - 1] \o ss[i]]
    BY <1>1, <2>1, <2>2
  <2>4. PICK h : h = CHOOSE x : x = [i \in 1..Len(ss) |-> IF i = 1 THEN ss[i] ELSE x[i - 1] \o ss[i]]
    OBVIOUS
  <2>5. h = [i \in 1..Len(ss) |-> IF i = 1 THEN ss[i] ELSE h[i - 1] \o ss[i]]
    BY <2>3, <2>4, Zenon
  <2>6. View!FlattenSeq(ss) = h[Len(ss)]
    <3>1. Len(ss) # 0
      BY <1>1, <1>7
    <3> QED
      BY <2>4, <3>1, Zenon DEF View!FlattenSeq
  <2> DEFINE U == {k \in Nat : k + 1 <= n => h[k + 1] = g[k + 1]}
  <2>7. 0 \in U
    <3>1. 1 \in 1..n
      BY <1>7
    <3>2. h[1] = ss[1] /\ f[1] = ss[1] /\ f[1] = g[1]
      BY <1>1, <2>1, <2>2, <2>5, <3>1
    <3> QED
      BY <3>2
  <2>8. ASSUME NEW k \in U PROVE k + 1 \in U
    <3> SUFFICES ASSUME k + 1 + 1 <= n PROVE h[k + 1 + 1] = g[k + 1 + 1]
      OBVIOUS
    <3>1. PICK m \in Nat : m = k + 1 + 1 /\ m - 1 = k + 1 /\ m \in 1..n /\ m # 1 /\ m - 1 <= n
      OBVIOUS
    <3>2. h[m - 1] = g[m - 1]
      BY <3>1
    <3>3. h[m] = h[m - 1] \o ss[m]
      BY <1>1, <2>5, <3>1
    <3>4. g[m] = g[m - 1] \o ss[m]
      BY <1>5, <3>1
    <3> QED
      BY <3>1, <3>2, <3>3, <3>4
  <2>9. U = Nat
    <3>1. U \in SUBSET Nat
      OBVIOUS
    <3> HIDE DEF U
    <3> QED
      BY <2>7, <2>8, <3>1, Induction
  <2>10. h[n] = g[n]
    <3>1. PICK k \in Nat : k + 1 = n
      <4>1. n - 1 \in Nat /\ (n - 1) + 1 = n
        BY <1>7
      <4> QED
        BY <4>1
    <3>2. k \in U
      BY <2>9
    <3> QED
      BY <3>1, <3>2
  <2> QED
    BY <1>1, <1>5, <2>6, <2>10 DEF Flattens
<1> QED
  BY <1>6, <1>7

\* ss and tt have the same first k.
AgreeTo(ss, tt, k) ==
  /\ Len(ss) \in Nat /\ Len(tt) \in Nat /\ k \in 0..Len(ss) /\ k \in 0..Len(tt)
  /\ \A i \in 1..k : ss[i] = tt[i]

BeginAlike(g, ss, h, tt, k) == Flattens(g, ss) /\ Flattens(h, tt) /\ AgreeTo(ss, tt, k)

\* All but the first k are empty.
EmptyAfter(ss, k) == \A i \in (k + 1)..Len(ss) : ss[i] = <<>>

\* The flattened beginnings of two sequences that begin alike are alike.
LEMMA FlatsAgree ==
  ASSUME NEW ss, NEW tt, NEW g, NEW h, NEW k, BeginAlike(g, ss, h, tt, k)
  PROVE  g[k] = h[k]
<1>a. Flattens(g, ss) /\ Flattens(h, tt) /\ \A i \in 1..k : ss[i] = tt[i]
  BY DEF BeginAlike, AgreeTo
<1>0. k \in Nat /\ k <= Len(ss) /\ k <= Len(tt)
  BY DEF BeginAlike, AgreeTo
<1> DEFINE T == {m \in Nat : m <= k => g[m] = h[m]}
<1>1. 0 \in T
  BY <1>a DEF Flattens
<1>2. ASSUME NEW m \in T PROVE m + 1 \in T
  <2> SUFFICES ASSUME m + 1 <= k PROVE g[m + 1] = h[m + 1]
    OBVIOUS
  <2>1. PICK a \in Nat : a = m + 1 /\ a - 1 = m /\ a \in 1..k /\ a \in 1..Len(ss) /\ a \in 1..Len(tt)
    BY <1>0
  <2>2. g[a] = g[a - 1] \o ss[a] /\ h[a] = h[a - 1] \o tt[a]
    BY <1>a, <2>1 DEF Flattens
  <2>3. ss[a] = tt[a]
    <3>1. a \in 1..k
      BY <2>1
    <3> QED
      BY <1>a, <3>1, Zenon
  <2>4. g[m] = h[m]
    BY <1>0, <2>1
  <2> QED
    BY <2>1, <2>2, <2>3, <2>4
<1>3. T = Nat
  <2>1. T \in SUBSET Nat
    OBVIOUS
  <2> HIDE DEF T
  <2> QED
    BY <1>1, <1>2, <2>1, Induction
<1> QED
  BY <1>0, <1>3

\* What comes after the k-th is empty.
LEMMA FlatEnds ==
  ASSUME NEW S, NEW ss \in Seq(Seq(S)), NEW g \in [0..Len(ss) -> Seq(S)], NEW k \in 0..Len(ss),
         Flattens(g, ss), EmptyAfter(ss, k)
  PROVE  g[Len(ss)] = g[k]
<1>1. PICK n \in Nat : n = Len(ss)
  OBVIOUS
<1> DEFINE T == {m \in Nat : k + m <= n => g[k + m] = g[k]}
<1>2. 0 \in T
  OBVIOUS
<1>3. ASSUME NEW m \in T PROVE m + 1 \in T
  <2> SUFFICES ASSUME k + (m + 1) <= n PROVE g[k + (m + 1)] = g[k]
    OBVIOUS
  <2>1. PICK a \in Nat : a = k + (m + 1) /\ a - 1 = k + m /\ a \in 1..n /\ a \in (k + 1)..n /\ a - 1 \in 0..n
    <3>1. k \in Nat /\ m \in Nat
      OBVIOUS
    <3> QED
      BY <1>1, <3>1
  <2>2. g[a] = g[a - 1] \o ss[a] /\ ss[a] = <<>>
    BY <1>1, <2>1 DEF Flattens, EmptyAfter
  <2>3. g[a - 1] \in Seq(S)
    BY <1>1, <2>1
  <2>4. g[a] = g[a - 1]
    BY <2>2, <2>3, ConcatEmptySeq
  <2>5. g[k + m] = g[k]
    BY <1>1, <2>1
  <2> QED
    BY <2>1, <2>4, <2>5
<1>4. n - k \in T
  <2>1. T \in SUBSET Nat /\ n - k \in Nat
    BY <1>1
  <2> HIDE DEF T
  <2> QED
    BY <1>2, <1>3, <2>1, Induction
<1> QED
  BY <1>1, <1>4

-----------------------------------------------------------------------------
(* The writes of a session, and its items *)

\* The number of writes.
Length == Len(Script)

\* A write of a message that has items of its own.
Own(w) == w.role \in {"user", "assistant"}

\* A session's items, and the items of the message created by write i.
ItemType(s) ==
  [s : {s}, id : Nat, kind : {"message", "call", "info"}, text : BOOLEAN,
   call : {"none", "open", "done"}, result : BOOLEAN, nested : {"none", "open", "done", "answered"}]

Piece(s, i, n) ==
  IF Script[i].type = "created" THEN View!AllItems(s, View!Latest(Script[i].id, n)) ELSE <<>>

MessageItems(s, n) == View!FlattenSeq([i \in 1..n |-> Piece(s, i, n)])

\* The first n writes have one of message id; the last of them is the i-th.
Written(id, n) == \E i \in 1..n : Script[i].id = id

IsLast(i, id, n) ==
  /\ i \in 1..n /\ Script[i].id = id
  /\ \A j \in (i + 1)..n : Script[j].id # id

\* Script is a sequence of writes that a run makes.
LEMMA ScriptType ==
  /\ Length \in Nat /\ DOMAIN Script = 1..Length
  /\ \A i \in 1..Length : Script[i] \in View!Write /\ View!IsWrite(i)
<1>1. View!ViewAssumption
  BY TerminalAssumption
<1>2. Script \in Seq(View!Write)
  BY <1>1 DEF View!ViewAssumption
<1>3. Length \in Nat /\ DOMAIN Script = 1..Length
  BY <1>2 DEF Length
<1>4. \A i \in 1..Length : Script[i] \in View!Write
  BY <1>2, <1>3
<1>5. \A i \in 1..Length : View!IsWrite(i)
  BY <1>1, <1>3 DEF View!ViewAssumption
<1> QED
  BY <1>3, <1>4, <1>5

\* Latest is the last write of the message; there is one when there is any.
LEMMA LatestIs ==
  ASSUME NEW n \in Nat, NEW id, NEW i, IsLast(i, id, n)
  PROVE  View!Latest(id, n) = Script[i]
<1> DEFINE P(x) == Script[x].id = id /\ \A j \in (x + 1)..n : Script[j].id # id
<1>1. i \in 1..n /\ P(i)
  BY DEF IsLast
<1>2. \A x \in 1..n : P(x) => x = i
  <2> SUFFICES ASSUME NEW x \in 1..n, P(x), x # i PROVE FALSE
    OBVIOUS
  <2>1. x \in (i + 1)..n \/ i \in (x + 1)..n
    BY <1>1
  <2> QED
    BY <1>1, <2>1
<1>3. (CHOOSE x \in 1..n : P(x)) = i
  BY <1>1, <1>2
<1> QED
  BY <1>3, Zenon DEF View!Latest

LEMMA LastExists ==
  ASSUME NEW n \in Nat, NEW id, Written(id, n)
  PROVE  \E i : IsLast(i, id, n)
<1> DEFINE T == {m \in Nat : Written(id, m) => \E i : IsLast(i, id, m)}
<1>1. 0 \in T
  BY DEF Written
<1>2. ASSUME NEW m \in T PROVE m + 1 \in T
  <2> SUFFICES ASSUME Written(id, m + 1) PROVE \E i : IsLast(i, id, m + 1)
    OBVIOUS
  <2>1. PICK a \in Nat : a = m + 1 /\ a \in 1..a /\ (a + 1)..a = {}
    OBVIOUS
  <2>2. CASE Script[a].id = id
    <3>1. IsLast(a, id, a)
      BY <2>1, <2>2 DEF IsLast
    <3> QED
      BY <2>1, <3>1
  <2>3. CASE Script[a].id # id
    <3>1. Written(id, m)
      BY <2>1, <2>3 DEF Written
    <3>2. PICK i : IsLast(i, id, m)
      BY <3>1
    <3>3. IsLast(i, id, a)
      BY <2>1, <2>3, <3>2 DEF IsLast
    <3> QED
      BY <2>1, <3>3
  <2> QED
    BY <2>2, <2>3
<1>3. T = Nat
  <2>1. T \in SUBSET Nat
    OBVIOUS
  <2> HIDE DEF T
  <2> QED
    BY <1>1, <1>2, <2>1, Induction
<1> QED
  BY <1>3

LEMMA LatestIsWrite ==
  ASSUME NEW n \in 0..Length, NEW id, Written(id, n)
  PROVE  \E i \in 1..n : IsLast(i, id, n) /\ View!Latest(id, n) = Script[i] /\ Script[i].id = id
<1>1. n \in Nat
  BY ScriptType
<1>2. PICK i : IsLast(i, id, n)
  BY <1>1, LastExists
<1>3. i \in 1..n /\ Script[i].id = id
  BY <1>2 DEF IsLast
<1> QED
  BY <1>1, <1>2, <1>3, LatestIs

\* The next write is the latest of its message, and no other changes.
LEMMA LatestStep ==
  ASSUME NEW n \in Nat, NEW m \in Nat, m = n + 1, NEW id
  PROVE  /\ id = Script[m].id => View!Latest(id, m) = Script[m]
         /\ id # Script[m].id /\ Written(id, n) => View!Latest(id, m) = View!Latest(id, n)
         /\ Written(id, m) <=> Written(id, n) \/ id = Script[m].id
<1>1. ASSUME id = Script[m].id PROVE View!Latest(id, m) = Script[m]
  <2>1. IsLast(m, id, m)
    BY <1>1 DEF IsLast
  <2> QED
    BY <2>1, LatestIs
<1>2. ASSUME id # Script[m].id, Written(id, n) PROVE View!Latest(id, m) = View!Latest(id, n)
  <2>1. PICK i : IsLast(i, id, n)
    BY <1>2, LastExists
  <2>2. IsLast(i, id, m)
    BY <1>2, <2>1 DEF IsLast
  <2> QED
    BY <2>1, <2>2, LatestIs
<1>3. Written(id, m) <=> Written(id, n) \/ id = Script[m].id
  BY DEF Written
<1> QED
  BY <1>1, <1>2, <1>3

\* A message has one role, and is created once.
LEMMA OneRole ==
  ASSUME NEW i \in 1..Length, NEW j \in 1..Length, Script[i].id = Script[j].id
  PROVE  Script[i].role = Script[j].role
<1>1. ASSUME NEW a \in 1..Length, NEW b \in 1..Length, a < b, Script[a].id = Script[b].id
      PROVE  Script[a].role = Script[b].role
  <2>1. a \in View!Before(b, Script[b].id)
    BY <1>1, ScriptType DEF View!Before
  <2> QED
    BY <2>1, ScriptType DEF View!IsWrite
<1> QED
  BY <1>1, ScriptType

LEMMA OneCreated ==
  ASSUME NEW i \in 1..Length, NEW j \in 1..Length, Script[i].id = Script[j].id, i < j, Own(Script[j])
  PROVE  Script[j].type = "updated"
<1>1. i \in View!Before(j, Script[j].id)
  BY ScriptType DEF View!Before
<1>2. Script[j].type # "created"
  BY <1>1, ScriptType DEF View!IsWrite, Own
<1> QED
  BY <1>2, ScriptType DEF View!Write

\* The items of a message are items of the session, and so are those of a write
\* and of all writes.
LEMMA AllItemsType ==
  ASSUME NEW s, NEW w \in View!Write
  PROVE  View!AllItems(s, w) \in Seq(ItemType(s))
<1>1. \A kind \in {"message", "call", "info"} : View!Item(s, w.id, kind, w) \in ItemType(s)
  BY DEF View!Item, View!Write, ItemType
<1>2. View!InfoItem(s, w) \in ItemType(s)
  BY <1>1 DEF View!InfoItem
<1> HIDE DEF ItemType
<1>3. /\ <<View!Item(s, w.id, "message", w)>> \in Seq(ItemType(s))
      /\ <<View!Item(s, w.id, "call", w)>> \in Seq(ItemType(s))
      /\ <<View!InfoItem(s, w)>> \in Seq(ItemType(s))
      /\ <<>> \in Seq(ItemType(s))
  BY <1>1, <1>2
<1>4. View!ExtractMessageItems(s, w) \in Seq(ItemType(s))
  <2> DEFINE a == IF View!ShouldRender(w) THEN <<View!Item(s, w.id, "message", w)>> ELSE <<>>
             b == IF w.call # "none" THEN <<View!Item(s, w.id, "call", w)>> ELSE <<>>
  <2>1. a \in Seq(ItemType(s)) /\ b \in Seq(ItemType(s))
    BY <1>3, Zenon
  <2> HIDE DEF a, b
  <2>2. a \o b \in Seq(ItemType(s))
    BY <2>1, ConcatProperties
  <2>3. \/ View!ExtractMessageItems(s, w) = <<View!Item(s, w.id, "message", w)>>
        \/ View!ExtractMessageItems(s, w) = a \o b
        \/ View!ExtractMessageItems(s, w) = <<>>
    BY DEF View!ExtractMessageItems, a, b
  <2> QED
    BY <1>3, <2>2, <2>3
<1>5. (IF View!IsInfo(w) THEN <<View!InfoItem(s, w)>> ELSE <<>>) \in Seq(ItemType(s))
  BY <1>3, Zenon
<1> QED
  BY <1>4, <1>5, ConcatProperties DEF View!AllItems

LEMMA PieceType ==
  ASSUME NEW s, NEW n \in 0..Length, NEW i \in 1..n
  PROVE  /\ Piece(s, i, n) \in Seq(ItemType(s))
         /\ ~Own(Script[i]) => Piece(s, i, n) = <<>>
<1>1. Written(Script[i].id, n)
  BY DEF Written
<1>2. PICK k \in 1..n : View!Latest(Script[i].id, n) = Script[k] /\ Script[k].id = Script[i].id
  BY <1>1, LatestIsWrite
<1>3. i \in 1..Length /\ k \in 1..Length /\ Script[k] \in View!Write
  BY ScriptType
<1>4. View!AllItems(s, Script[k]) \in Seq(ItemType(s))
  BY <1>3, AllItemsType
<1>5. Piece(s, i, n) \in Seq(ItemType(s))
  BY <1>2, <1>4 DEF Piece
<1>6. ASSUME ~Own(Script[i]) PROVE Piece(s, i, n) = <<>>
  <2>1. Script[k].role \notin {"user", "assistant"}
    BY <1>2, <1>3, <1>6, OneRole DEF Own
  <2>2. View!AllItems(s, Script[k]) = <<>> \o <<>>
    BY <2>1 DEF View!AllItems, View!ExtractMessageItems, View!IsInfo
  <2> QED
    BY <1>2, <2>2 DEF Piece
<1> QED
  BY <1>5, <1>6

\* A write changes no items but those of its own message.
LEMMA PieceSame ==
  ASSUME NEW s, NEW n \in Nat, NEW m \in 1..Length, m = n + 1, NEW i \in 1..n,
         Script[i].id # Script[m].id \/ ~Own(Script[m])
  PROVE  Piece(s, i, m) = Piece(s, i, n)
<1>0. n \in 0..Length /\ m \in 0..Length /\ i \in 1..m /\ i \in 1..Length /\ m \in Nat
  BY ScriptType
<1>1. CASE Script[i].id # Script[m].id
  <2>1. Written(Script[i].id, n)
    BY DEF Written
  <2>2. View!Latest(Script[i].id, m) = View!Latest(Script[i].id, n)
    BY <1>0, <1>1, <2>1, LatestStep
  <2> QED
    BY <2>2 DEF Piece
<1>2. CASE Script[i].id = Script[m].id
  <2>1. ~Own(Script[i])
    BY <1>0, <1>2, OneRole DEF Own
  <2> QED
    BY <1>0, <2>1, PieceType
<1> QED
  BY <1>1, <1>2

\* The items of the first n writes, write by write, and their flattened beginnings.
Pieces(s, n) == [i \in 1..n |-> Piece(s, i, n)]

RunOf(g, s, n) ==
  g \in [0..n -> Seq(ItemType(s))] /\ Flattens(g, Pieces(s, n)) /\ MessageItems(s, n) = g[n]

LEMMA PiecesType ==
  ASSUME NEW s, NEW n \in 0..Length
  PROVE  /\ Pieces(s, n) \in Seq(Seq(ItemType(s)))
         /\ Len(Pieces(s, n)) = n
         /\ \A i \in 1..n : Pieces(s, n)[i] = Piece(s, i, n)
<1>1. n \in Nat
  BY ScriptType
<1>2. \A i \in 1..n : Piece(s, i, n) \in Seq(ItemType(s))
  BY PieceType
<1>3. \A i \in 1..n : Pieces(s, n)[i] = Piece(s, i, n)
  BY DEF Pieces
<1> HIDE DEF ItemType
<1> DEFINE S == Seq(ItemType(s))
<1>4. Pieces(s, n) \in Seq(S)
  <2>1. \A i \in 1..n : Piece(s, i, n) \in S
    BY <1>2
  <2> HIDE DEF S
  <2> QED
    BY <1>1, <2>1 DEF Pieces
<1>5. Len(Pieces(s, n)) = n
  BY <1>1 DEF Pieces
<1> QED
  BY <1>3, <1>4, <1>5

\* The items of a session are built write by write.
LEMMA ItemsRuns ==
  ASSUME NEW s, NEW n \in 0..Length
  PROVE  \E g : RunOf(g, s, n)
<1>1. Pieces(s, n) \in Seq(Seq(ItemType(s))) /\ Len(Pieces(s, n)) = n
  BY PiecesType
<1>2. PICK g \in [0..Len(Pieces(s, n)) -> Seq(ItemType(s))] :
        Flattens(g, Pieces(s, n)) /\ View!FlattenSeq(Pieces(s, n)) = g[Len(Pieces(s, n))]
  BY <1>1, FlatRuns, Zenon
<1>3. MessageItems(s, n) = View!FlattenSeq(Pieces(s, n))
  BY DEF MessageItems, Pieces
<1> QED
  BY <1>1, <1>2, <1>3, Zenon DEF RunOf

LEMMA ItemsType ==
  ASSUME NEW s, NEW n \in 0..Length
  PROVE  MessageItems(s, n) \in Seq(ItemType(s))
<1>1. PICK g \in [0..n -> Seq(ItemType(s))] : MessageItems(s, n) = g[n]
  BY ItemsRuns, Zenon DEF RunOf
<1>2. n \in 0..n
  BY ScriptType
<1> QED
  BY <1>1, <1>2, Zenon

\* A write that is no prompt's nor answer's changes no item of its own; a new
\* message comes last.
LEMMA ItemsGrow ==
  ASSUME NEW s, NEW n \in Nat, NEW m \in 1..Length, m = n + 1,
         ~Own(Script[m]) \/ Script[m].type = "created"
  PROVE  MessageItems(s, m) =
           MessageItems(s, n) \o (IF Own(Script[m]) THEN View!AllItems(s, Script[m]) ELSE <<>>)
<1>0. n \in 0..Length /\ m \in 0..Length /\ m \in Nat /\ m \in 1..m /\ m - 1 = n
  BY ScriptType
<1>1. PICK g : RunOf(g, s, n)
  BY <1>0, ItemsRuns, Zenon
<1>2. PICK h : RunOf(h, s, m)
  BY <1>0, ItemsRuns, Zenon
<1>3. /\ Len(Pieces(s, n)) = n /\ Len(Pieces(s, m)) = m
      /\ \A i \in 1..n : Pieces(s, n)[i] = Piece(s, i, n)
      /\ \A i \in 1..m : Pieces(s, m)[i] = Piece(s, i, m)
  BY <1>0, PiecesType
<1>4. AgreeTo(Pieces(s, m), Pieces(s, n), n)
  <2> SUFFICES ASSUME NEW i \in 1..n PROVE Piece(s, i, m) = Piece(s, i, n)
    BY <1>0, <1>3 DEF AgreeTo
  <2>1. Script[i].id # Script[m].id \/ ~Own(Script[m])
    <3>1. i \in 1..Length /\ i < m
      BY <1>0, ScriptType
    <3>2. CASE Script[i].id = Script[m].id /\ Own(Script[m])
      <4>1. Script[m].type = "updated"
        BY <3>1, <3>2, OneCreated
      <4> QED
        BY <3>2, <4>1
    <3> QED
      BY <3>2
  <2> QED
    BY <2>1, PieceSame
<1>5. h[n] = g[n]
  <2>1. BeginAlike(h, Pieces(s, m), g, Pieces(s, n), n)
    BY <1>1, <1>2, <1>4, Zenon DEF BeginAlike, RunOf
  <2> QED
    BY <2>1, FlatsAgree
<1>6. h[m] = h[n] \o Piece(s, m, m)
  BY <1>0, <1>2, <1>3 DEF Flattens, RunOf
<1>7. Piece(s, m, m) = IF Own(Script[m]) THEN View!AllItems(s, Script[m]) ELSE <<>>
  <2>1. CASE Own(Script[m])
    <3>1. View!Latest(Script[m].id, m) = Script[m] /\ Script[m].type = "created"
      <4>1. Script[m].type = "created"
        BY <2>1
      <4>2. PICK id : id = Script[m].id
        OBVIOUS
      <4>3. View!Latest(id, m) = Script[m]
        BY <1>0, <4>2, LatestStep
      <4> QED
        BY <4>1, <4>2, <4>3
    <3> QED
      BY <2>1, <3>1 DEF Piece
  <2>2. CASE ~Own(Script[m])
    BY <1>0, <2>2, PieceType
  <2> QED
    BY <2>1, <2>2
<1> QED
  BY <1>1, <1>2, <1>5, <1>6, <1>7 DEF RunOf

\* An answer that is updated has its items last.
LEMMA ItemsChange ==
  ASSUME NEW s, NEW n \in Nat, NEW m \in 1..Length, m = n + 1,
         Own(Script[m]), Script[m].type = "updated"
  PROVE  /\ Written(Script[m].id, n)
         /\ \E P \in Seq(ItemType(s)) :
              /\ MessageItems(s, n) = P \o View!AllItems(s, View!Latest(Script[m].id, n))
              /\ MessageItems(s, m) = P \o View!AllItems(s, Script[m])
<1>0. n \in 0..Length /\ m \in 0..Length /\ m \in Nat /\ m \in 1..m /\ m - 1 = n
  BY ScriptType
<1>a. /\ Script[m].role = "assistant"
      /\ \E j \in View!Before(m, Script[m].id) :
             /\ Script[j].type = "created"
             /\ \A k \in (j + 1)..(m - 1) :
                  Script[k].type = "created" => Script[k].role \notin {"user", "assistant"}
  BY ScriptType DEF View!IsWrite, Own
<1>b. PICK j \in 1..n :
        /\ Script[j].id = Script[m].id /\ Script[j].type = "created"
        /\ \A k \in (j + 1)..n : Script[k].type = "created" => ~Own(Script[k])
  BY <1>0, <1>a DEF View!Before, Own
<1>c. Written(Script[m].id, n)
  BY <1>b DEF Written
<1>1. PICK g : RunOf(g, s, n)
  BY <1>0, ItemsRuns, Zenon
<1>2. PICK h : RunOf(h, s, m)
  BY <1>0, ItemsRuns, Zenon
<1>3. /\ Len(Pieces(s, n)) = n /\ Len(Pieces(s, m)) = m
      /\ \A i \in 1..n : Pieces(s, n)[i] = Piece(s, i, n)
      /\ \A i \in 1..m : Pieces(s, m)[i] = Piece(s, i, m)
  BY <1>0, PiecesType
<1>4. PICK p \in Nat : p = j - 1 /\ p \in 0..n /\ p \in 0..m /\ p <= n /\ p <= m /\ j = p + 1
  BY <1>0
<1>5. AgreeTo(Pieces(s, n), Pieces(s, m), p)
  <2> SUFFICES ASSUME NEW i \in 1..p PROVE Piece(s, i, n) = Piece(s, i, m)
    BY <1>0, <1>3, <1>4 DEF AgreeTo
  <2>0. i \in 1..n /\ i \in 1..Length /\ j \in 1..Length /\ i < j
    BY <1>0, <1>4, ScriptType
  <2>1. CASE Script[i].id # Script[m].id
    BY <2>0, <2>1, PieceSame
  <2>2. CASE Script[i].id = Script[m].id
    <3>1. Script[j].role = Script[m].role
      BY <1>b, <2>0, OneRole
    <3>2. Own(Script[j]) /\ Script[i].id = Script[j].id
      BY <1>b, <2>2, <3>1 DEF Own
    <3>3. Script[j].type = "updated"
      BY <2>0, <3>2, OneCreated
    <3> QED
      BY <1>b, <3>3
  <2> QED
    BY <2>1, <2>2
<1>6. g[p] = h[p]
  <2>2. BeginAlike(g, Pieces(s, n), h, Pieces(s, m), p)
    BY <1>1, <1>2, <1>5, Zenon DEF BeginAlike, RunOf
  <2> QED
    BY <2>2, FlatsAgree
<1>7. g[j] = g[p] \o View!AllItems(s, View!Latest(Script[m].id, n))
  <2>1. j \in 1..Len(Pieces(s, n)) /\ j - 1 = p
    BY <1>3, <1>4
  <2>2. g[j] = g[p] \o Piece(s, j, n)
    BY <1>1, <1>3, <2>1 DEF Flattens, RunOf
  <2> QED
    BY <1>b, <2>2 DEF Piece
<1>8. h[j] = h[p] \o View!AllItems(s, Script[m])
  <2>1. j \in 1..Len(Pieces(s, m)) /\ j - 1 = p /\ j \in 1..m
    BY <1>0, <1>3, <1>4
  <2>2. h[j] = h[p] \o Piece(s, j, m)
    BY <1>2, <1>3, <2>1 DEF Flattens, RunOf
  <2>3. View!Latest(Script[j].id, m) = Script[m]
    BY <1>0, <1>b, LatestStep
  <2> QED
    BY <1>b, <2>2, <2>3 DEF Piece
<1>9. g[n] = g[j]
  <2>1. EmptyAfter(Pieces(s, n), j)
    <3> SUFFICES ASSUME NEW i \in (j + 1)..n PROVE Piece(s, i, n) = <<>>
      BY <1>0, <1>3 DEF EmptyAfter
    <3>1. i \in 1..n
      BY <1>0
    <3>2. CASE Script[i].type = "created"
      BY <1>0, <1>b, <3>1, <3>2, PieceType
    <3>3. CASE Script[i].type # "created"
      BY <3>3 DEF Piece
    <3> QED
      BY <3>2, <3>3
  <2>2. Pieces(s, n) \in Seq(Seq(ItemType(s))) /\ j \in 0..Len(Pieces(s, n))
    BY <1>0, <1>3, PiecesType
  <2>3. g \in [0..Len(Pieces(s, n)) -> Seq(ItemType(s))]
    BY <1>1, <1>3, Zenon DEF RunOf
  <2>4. g[Len(Pieces(s, n))] = g[j]
    BY <1>1, <2>1, <2>2, <2>3, FlatEnds, Zenon DEF RunOf
  <2> QED
    BY <1>3, <2>4, Zenon
<1>10. h[m] = h[j]
  <2>1. EmptyAfter(Pieces(s, m), j)
    <3> SUFFICES ASSUME NEW i \in (j + 1)..m PROVE Piece(s, i, m) = <<>>
      BY <1>0, <1>3 DEF EmptyAfter
    <3>1. i \in 1..m
      BY <1>0
    <3>2. CASE i = m
      BY <3>2 DEF Piece
    <3>3. CASE i # m /\ Script[i].type = "created"
      <4>1. i \in (j + 1)..n
        BY <1>0, <3>3
      <4>2. ~Own(Script[i])
        BY <1>b, <3>3, <4>1
      <4> QED
        BY <1>0, <3>1, <4>2, PieceType
    <3>4. CASE Script[i].type # "created"
      BY <3>4 DEF Piece
    <3> QED
      BY <3>2, <3>3, <3>4
  <2>2. Pieces(s, m) \in Seq(Seq(ItemType(s))) /\ j \in 0..Len(Pieces(s, m))
    BY <1>0, <1>3, PiecesType
  <2>3. h \in [0..Len(Pieces(s, m)) -> Seq(ItemType(s))]
    BY <1>2, <1>3, Zenon DEF RunOf
  <2>4. h[Len(Pieces(s, m))] = h[j]
    BY <1>2, <2>1, <2>2, <2>3, FlatEnds, Zenon DEF RunOf
  <2> QED
    BY <1>3, <2>4, Zenon
<1>11. g[p] \in Seq(ItemType(s))
  BY <1>1, <1>4 DEF RunOf
<1> QED
  BY <1>c, <1>1, <1>2, <1>6, <1>7, <1>8, <1>9, <1>10, <1>11, Zenon DEF RunOf

-----------------------------------------------------------------------------
(* What a message shows *)

\* x is one of Y; no item of Y is there twice; w has an item of a kind.
In(Y, x) == \E i \in DOMAIN Y : Y[i] = x

SameKey(x, y) == x.id = y.id /\ x.kind = y.kind

NoneTwice(Y) == \A i, j \in DOMAIN Y : SameKey(Y[i], Y[j]) => i = j

Shows(kind, w) ==
  \/ kind = "message" /\ View!ShouldRender(w)
  \/ kind = "call" /\ w.call # "none"
  \/ kind = "info" /\ View!IsInfo(w)

\* x is an item that the first n writes of a session have.
ItemOf(s, n, x) ==
  /\ Written(x.id, n) /\ Own(View!Latest(x.id, n)) /\ Shows(x.kind, View!Latest(x.id, n))
  /\ x = View!Item(s, x.id, x.kind, View!Latest(x.id, n))

\* What two sequences have, one after the other.
LEMMA ConcatFacts ==
  ASSUME NEW S, NEW P \in Seq(S), NEW A \in Seq(S)
  PROVE  /\ \A x : In(P \o A, x) <=> In(P, x) \/ In(A, x)
         /\ NoneTwice(P \o A) <=> /\ NoneTwice(P) /\ NoneTwice(A)
                                 /\ \A x, y : In(P, x) /\ In(A, y) => ~SameKey(x, y)
<1> DEFINE Q == P \o A
<1>1. /\ Q \in Seq(S) /\ Len(P) \in Nat /\ Len(A) \in Nat
      /\ Len(Q) = Len(P) + Len(A)
      /\ \A i \in 1..(Len(P) + Len(A)) : Q[i] = IF i <= Len(P) THEN P[i] ELSE A[i - Len(P)]
  BY ConcatProperties
<1> PICK p \in Nat, a \in Nat : p = Len(P) /\ a = Len(A)
  BY <1>1
<1>2. /\ DOMAIN P = 1..p /\ DOMAIN A = 1..a /\ DOMAIN Q = 1..(p + a)
      /\ \A i \in 1..p : i \in DOMAIN Q /\ Q[i] = P[i]
      /\ \A i \in 1..a : p + i \in DOMAIN Q /\ Q[p + i] = A[i]
      /\ \A i \in DOMAIN Q : i \in 1..p \/ \E k \in 1..a : i = p + k
  <2>1. DOMAIN P = 1..p /\ DOMAIN A = 1..a /\ DOMAIN Q = 1..(p + a)
    BY <1>1
  <2>2. ASSUME NEW i \in 1..p PROVE i \in DOMAIN Q /\ Q[i] = P[i]
    BY <1>1, <2>1
  <2>3. ASSUME NEW i \in 1..a PROVE p + i \in DOMAIN Q /\ Q[p + i] = A[i]
    <3>1. p + i \in 1..(p + a) /\ ~(p + i <= p) /\ (p + i) - p = i
      OBVIOUS
    <3> QED
      BY <1>1, <2>1, <3>1
  <2>4. ASSUME NEW i \in DOMAIN Q PROVE i \in 1..p \/ \E k \in 1..a : i = p + k
    <3>1. CASE i > p
      <4>1. i - p \in 1..a /\ i = p + (i - p)
        BY <2>1, <3>1
      <4> QED
        BY <4>1
    <3>2. CASE ~(i > p)
      BY <2>1, <3>2
    <3> QED
      BY <3>1, <3>2
  <2> QED
    BY <2>1, <2>2, <2>3, <2>4
<1> HIDE DEF Q
<1>3. ASSUME NEW x PROVE In(Q, x) <=> In(P, x) \/ In(A, x)
  <2>1. ASSUME In(Q, x) PROVE In(P, x) \/ In(A, x)
    <3>1. PICK i \in DOMAIN Q : Q[i] = x
      BY <2>1 DEF In
    <3>2. CASE i \in 1..p
      BY <1>2, <3>1, <3>2 DEF In
    <3>3. CASE \E k \in 1..a : i = p + k
      BY <1>2, <3>1, <3>3 DEF In
    <3> QED
      BY <1>2, <3>2, <3>3
  <2>2. ASSUME In(P, x) PROVE In(Q, x)
    BY <1>2, <2>2 DEF In
  <2>3. ASSUME In(A, x) PROVE In(Q, x)
    <3>1. PICK k \in 1..a : A[k] = x
      BY <1>2, <2>3 DEF In
    <3>2. p + k \in DOMAIN Q /\ Q[p + k] = x
      BY <1>2, <3>1
    <3> QED
      BY <3>2 DEF In
  <2> QED
    BY <2>1, <2>2, <2>3
<1>4. ASSUME NoneTwice(Q)
      PROVE  NoneTwice(P) /\ NoneTwice(A) /\ \A x, y : In(P, x) /\ In(A, y) => ~SameKey(x, y)
  <2>1. \A i, j \in DOMAIN Q : SameKey(Q[i], Q[j]) => i = j
    BY <1>4 DEF NoneTwice
  <2>2. NoneTwice(P)
    <3> SUFFICES ASSUME NEW i \in 1..p, NEW j \in 1..p, SameKey(P[i], P[j]) PROVE i = j
      BY <1>2 DEF NoneTwice
    <3>1. i \in DOMAIN Q /\ j \in DOMAIN Q /\ SameKey(Q[i], Q[j])
      BY <1>2
    <3> QED
      BY <2>1, <3>1
  <2>3. NoneTwice(A)
    <3> SUFFICES ASSUME NEW i \in 1..a, NEW j \in 1..a, SameKey(A[i], A[j]) PROVE i = j
      BY <1>2 DEF NoneTwice
    <3>1. p + i \in DOMAIN Q /\ p + j \in DOMAIN Q /\ SameKey(Q[p + i], Q[p + j])
      BY <1>2
    <3>2. p + i = p + j
      BY <2>1, <3>1
    <3> QED
      BY <3>2
  <2>4. ASSUME NEW x, NEW y, In(P, x), In(A, y), SameKey(x, y) PROVE FALSE
    <3>1. PICK i \in 1..p : P[i] = x
      BY <1>2, <2>4 DEF In
    <3>2. PICK k \in 1..a : A[k] = y
      BY <1>2, <2>4 DEF In
    <3>3. i \in DOMAIN Q /\ p + k \in DOMAIN Q /\ Q[i] = x /\ Q[p + k] = y
      BY <1>2, <3>1, <3>2
    <3>4. i = p + k
      BY <2>1, <2>4, <3>3
    <3> QED
      BY <3>4
  <2> QED
    BY <2>2, <2>3, <2>4
<1>5. ASSUME NoneTwice(P), NoneTwice(A), \A x, y : In(P, x) /\ In(A, y) => ~SameKey(x, y)
      PROVE  NoneTwice(Q)
  <2> SUFFICES ASSUME NEW i \in DOMAIN Q, NEW j \in DOMAIN Q, SameKey(Q[i], Q[j]) PROVE i = j
    BY DEF NoneTwice
  <2>0. \A x, y : SameKey(x, y) => SameKey(y, x)
    BY DEF SameKey
  <2>1. CASE i \in 1..p /\ j \in 1..p
    BY <1>2, <1>5, <2>1 DEF NoneTwice
  <2>2. ASSUME NEW k \in 1..a, NEW m \in 1..a, i = p + k, j = p + m PROVE i = j
    <3>1. SameKey(A[k], A[m])
      BY <1>2, <2>2
    <3>2. k = m
      BY <1>2, <1>5, <3>1 DEF NoneTwice
    <3> QED
      BY <2>2, <3>2
  <2>3. ASSUME NEW b \in 1..p, NEW k \in 1..a PROVE ~SameKey(Q[b], Q[p + k]) /\ ~SameKey(Q[p + k], Q[b])
    <3>1. Q[b] = P[b] /\ Q[p + k] = A[k] /\ In(P, P[b]) /\ In(A, A[k])
      BY <1>2 DEF In
    <3>2. ~SameKey(P[b], A[k])
      BY <1>5, <3>1
    <3> QED
      BY <2>0, <3>1, <3>2
  <2> QED
    BY <1>2, <2>1, <2>2, <2>3
<1> QED
  BY <1>3, <1>4, <1>5, Zenon DEF Q

\* Tuples are concatenations of shorter ones.
LEMMA Tuples ==
  ASSUME NEW a, NEW b, NEW c
  PROVE  <<a>> \o <<b>> = <<a, b>> /\ <<a, b>> \o <<c>> = <<a, b, c>>
<1> DEFINE S == {a, b, c}
<1>0. a \in S /\ b \in S /\ c \in S
  OBVIOUS
<1> HIDE DEF S
<1>1. <<a>> \o <<b>> = <<a, b>>
  <2>1. /\ <<a>> \in Seq(S) /\ <<b>> \in Seq(S) /\ <<a, b>> \in Seq(S)
        /\ Len(<<a>>) = 1 /\ Len(<<b>>) = 1 /\ Len(<<a, b>>) = 2
        /\ <<a>>[1] = a /\ <<b>>[1] = b /\ <<a, b>>[1] = a /\ <<a, b>>[2] = b
    BY <1>0
  <2>2. PICK q \in Seq(S) : q = <<a>> \o <<b>>
    BY <2>1, ConcatProperties
  <2>3. Len(q) = 2 /\ q[1] = a /\ q[2] = b
    BY <2>1, <2>2, ConcatProperties
  <2>4. q = <<a, b>>
    <3>1. PICK t \in Seq(S) : t = <<a, b>> /\ Len(t) = 2
      BY <2>1
    <3>2. Len(q) = Len(t) /\ \A i \in 1..Len(q) : q[i] = t[i]
      BY <2>1, <2>3, <3>1
    <3>3. q = t
      BY <2>2, <3>2, SeqEqual
    <3> QED
      BY <3>1, <3>3
  <2> QED
    BY <2>2, <2>4
<1>2. <<a, b>> \o <<c>> = <<a, b, c>>
  <2>1. /\ <<a, b>> \in Seq(S) /\ <<c>> \in Seq(S) /\ <<a, b, c>> \in Seq(S)
        /\ Len(<<a, b>>) = 2 /\ Len(<<c>>) = 1 /\ Len(<<a, b, c>>) = 3
        /\ <<c>>[1] = c /\ <<a, b>>[1] = a /\ <<a, b>>[2] = b
        /\ <<a, b, c>>[1] = a /\ <<a, b, c>>[2] = b /\ <<a, b, c>>[3] = c
    BY <1>0
  <2>2. PICK q \in Seq(S) : q = <<a, b>> \o <<c>>
    BY <2>1, ConcatProperties
  <2>3. Len(q) = 3 /\ q[1] = a /\ q[2] = b /\ q[3] = c
    BY <2>1, <2>2, ConcatProperties
  <2>4. q = <<a, b, c>>
    <3>1. PICK t \in Seq(S) : t = <<a, b, c>> /\ Len(t) = 3
      BY <2>1
    <3>2. Len(q) = Len(t) /\ \A i \in 1..Len(q) : q[i] = t[i]
      BY <2>1, <2>3, <3>1
    <3>3. q = t
      BY <2>2, <3>2, SeqEqual
    <3> QED
      BY <3>1, <3>3
  <2> QED
    BY <2>2, <2>4
<1> QED
  BY <1>1, <1>2

\* What a message shows, in the order in which it does.
LEMMA AllItemsAre ==
  ASSUME NEW s, NEW w, Own(w), w.role = "user" => w.call = "none" /\ ~w.end
  PROVE  LET m == View!Item(s, w.id, "message", w)
             c == View!Item(s, w.id, "call", w)
             f == View!Item(s, w.id, "info", w)
         IN  /\ Shows("message", w) /\ ~Shows("call", w) /\ ~Shows("info", w) =>
                  View!AllItems(s, w) = <<m>>
             /\ Shows("message", w) /\ ~Shows("call", w) /\ Shows("info", w) =>
                  View!AllItems(s, w) = <<m, f>>
             /\ Shows("message", w) /\ Shows("call", w) /\ ~Shows("info", w) =>
                  View!AllItems(s, w) = <<m, c>>
             /\ Shows("message", w) /\ Shows("call", w) /\ Shows("info", w) =>
                  View!AllItems(s, w) = <<m, c, f>>
             /\ ~Shows("message", w) /\ ~Shows("info", w) => View!AllItems(s, w) = <<c>>
             /\ ~Shows("message", w) /\ Shows("info", w) => View!AllItems(s, w) = <<c, f>>
             /\ Shows("message", w) \/ Shows("call", w)
<1> DEFINE m == View!Item(s, w.id, "message", w)
           c == View!Item(s, w.id, "call", w)
           f == View!Item(s, w.id, "info", w)
<1> HIDE DEF m, c, f
<1>1. /\ Shows("message", w) <=> View!ShouldRender(w)
      /\ Shows("call", w) <=> w.call # "none"
      /\ Shows("info", w) <=> View!IsInfo(w)
      /\ View!ShouldRender(w) \/ w.call # "none"
  BY DEF Shows, View!ShouldRender
<1>2. View!AllItems(s, w) =
        View!ExtractMessageItems(s, w) \o (IF View!IsInfo(w) THEN <<f>> ELSE <<>>)
  BY DEF View!AllItems, View!InfoItem, f
<1>3. CASE w.role = "user"
  <2>1. View!ExtractMessageItems(s, w) = <<m>> /\ View!ShouldRender(w) /\ ~View!IsInfo(w) /\ w.call = "none"
    BY <1>3 DEF View!ExtractMessageItems, View!ShouldRender, View!IsInfo, m
  <2>2. View!AllItems(s, w) = <<m>>
    BY <1>2, <2>1
  <2> QED
    BY <1>1, <2>1, <2>2 DEF m, c, f
<1>4. CASE w.role = "assistant"
  <2>1. View!ExtractMessageItems(s, w) =
          (IF View!ShouldRender(w) THEN <<m>> ELSE <<>>) \o (IF w.call # "none" THEN <<c>> ELSE <<>>)
    BY <1>4 DEF View!ExtractMessageItems, m, c
  <2>2. CASE View!ShouldRender(w) /\ w.call = "none"
    <3>1. View!ExtractMessageItems(s, w) = <<m>>
      BY <2>1, <2>2
    <3>2. CASE View!IsInfo(w)
      <4>1. View!AllItems(s, w) = <<m, f>>
        BY <1>2, <3>1, <3>2, Tuples, Zenon
      <4> QED
        BY <1>1, <2>2, <3>2, <4>1 DEF m, c, f
    <3>3. CASE ~View!IsInfo(w)
      <4>1. View!AllItems(s, w) = <<m>>
        BY <1>2, <3>1, <3>3
      <4> QED
        BY <1>1, <2>2, <3>3, <4>1 DEF m, c, f
    <3> QED
      BY <3>2, <3>3
  <2>3. CASE View!ShouldRender(w) /\ w.call # "none"
    <3>1. View!ExtractMessageItems(s, w) = <<m, c>>
      BY <2>1, <2>3, Tuples, Zenon
    <3>2. CASE View!IsInfo(w)
      <4>1. View!AllItems(s, w) = <<m, c, f>>
        BY <1>2, <3>1, <3>2, Tuples, Zenon
      <4> QED
        BY <1>1, <2>3, <3>2, <4>1 DEF m, c, f
    <3>3. CASE ~View!IsInfo(w)
      <4>1. View!AllItems(s, w) = <<m, c>>
        BY <1>2, <3>1, <3>3
      <4> QED
        BY <1>1, <2>3, <3>3, <4>1 DEF m, c, f
    <3> QED
      BY <3>2, <3>3
  <2>4. CASE ~View!ShouldRender(w) /\ w.call # "none"
    <3>1. View!ExtractMessageItems(s, w) = <<c>>
      BY <2>1, <2>4
    <3>2. CASE View!IsInfo(w)
      <4>1. View!AllItems(s, w) = <<c, f>>
        BY <1>2, <3>1, <3>2, Tuples, Zenon
      <4> QED
        BY <1>1, <2>4, <3>2, <4>1 DEF m, c, f
    <3>3. CASE ~View!IsInfo(w)
      <4>1. View!AllItems(s, w) = <<c>>
        BY <1>2, <3>1, <3>3
      <4> QED
        BY <1>1, <2>4, <3>3, <4>1 DEF m, c, f
    <3> QED
      BY <3>2, <3>3
  <2> QED
    BY <1>1, <2>2, <2>3, <2>4
<1> QED
  BY <1>3, <1>4 DEF Own

\* A message has each item that it shows once.
LEMMA AllItemsHave ==
  ASSUME NEW s, NEW w, Own(w), w.role = "user" => w.call = "none" /\ ~w.end
  PROVE  /\ NoneTwice(View!AllItems(s, w))
         /\ \A x : In(View!AllItems(s, w), x) <=>
                     Shows(x.kind, w) /\ x = View!Item(s, w.id, x.kind, w)
<1> DEFINE m == View!Item(s, w.id, "message", w)
           c == View!Item(s, w.id, "call", w)
           f == View!Item(s, w.id, "info", w)
           A == View!AllItems(s, w)
<1>1. m.kind = "message" /\ c.kind = "call" /\ f.kind = "info"
  BY DEF View!Item
<1>2. \A x : Shows(x.kind, w) /\ x = View!Item(s, w.id, x.kind, w) <=>
        \/ Shows("message", w) /\ x = m
        \/ Shows("call", w) /\ x = c
        \/ Shows("info", w) /\ x = f
  <2>1. \A k : Shows(k, w) => k \in {"message", "call", "info"}
    BY DEF Shows
  <2> HIDE DEF m, c, f
  <2>2. ASSUME NEW x, Shows(x.kind, w), x = View!Item(s, w.id, x.kind, w)
        PROVE  \/ Shows("message", w) /\ x = m
               \/ Shows("call", w) /\ x = c
               \/ Shows("info", w) /\ x = f
    <3>1. x.kind \in {"message", "call", "info"}
      BY <2>1, <2>2
    <3>2. CASE x.kind = "message"
      BY <2>2, <3>2, Zenon DEF m
    <3>3. CASE x.kind = "call"
      BY <2>2, <3>3, Zenon DEF c
    <3>4. CASE x.kind = "info"
      BY <2>2, <3>4, Zenon DEF f
    <3> QED
      BY <3>1, <3>2, <3>3, <3>4
  <2>3. ASSUME NEW x, \/ Shows("message", w) /\ x = m
                      \/ Shows("call", w) /\ x = c
                      \/ Shows("info", w) /\ x = f
        PROVE  Shows(x.kind, w) /\ x = View!Item(s, w.id, x.kind, w)
    <3>1. CASE Shows("message", w) /\ x = m
      BY <1>1, <3>1, Zenon DEF m
    <3>2. CASE Shows("call", w) /\ x = c
      BY <1>1, <3>2, Zenon DEF c
    <3>3. CASE Shows("info", w) /\ x = f
      BY <1>1, <3>3, Zenon DEF f
    <3> QED
      BY <2>3, <3>1, <3>2, <3>3
  <2> QED
    BY <2>2, <2>3, Zenon
<1>3. /\ Shows("message", w) /\ ~Shows("call", w) /\ ~Shows("info", w) => A = <<m>>
      /\ Shows("message", w) /\ ~Shows("call", w) /\ Shows("info", w) => A = <<m, f>>
      /\ Shows("message", w) /\ Shows("call", w) /\ ~Shows("info", w) => A = <<m, c>>
      /\ Shows("message", w) /\ Shows("call", w) /\ Shows("info", w) => A = <<m, c, f>>
      /\ ~Shows("message", w) /\ ~Shows("info", w) => A = <<c>>
      /\ ~Shows("message", w) /\ Shows("info", w) => A = <<c, f>>
      /\ Shows("message", w) \/ Shows("call", w)
  BY AllItemsAre, Zenon
<1> HIDE DEF m, c, f, A
<1>4. NoneTwice(A) /\ \A x : In(A, x) <=> \/ (Shows("message", w) /\ x = m)
                                         \/ (Shows("call", w) /\ x = c)
                                         \/ (Shows("info", w) /\ x = f)
  <2>1. CASE A = <<m>> /\ Shows("message", w) /\ ~Shows("call", w) /\ ~Shows("info", w)
    BY <1>1, <2>1 DEF NoneTwice, In, SameKey
  <2>2. CASE A = <<m, f>> /\ Shows("message", w) /\ ~Shows("call", w) /\ Shows("info", w)
    BY <1>1, <2>2 DEF NoneTwice, In, SameKey
  <2>3. CASE A = <<m, c>> /\ Shows("message", w) /\ Shows("call", w) /\ ~Shows("info", w)
    BY <1>1, <2>3 DEF NoneTwice, In, SameKey
  <2>4. CASE A = <<m, c, f>> /\ Shows("message", w) /\ Shows("call", w) /\ Shows("info", w)
    BY <1>1, <2>4 DEF NoneTwice, In, SameKey
  <2>5. CASE A = <<c>> /\ ~Shows("message", w) /\ Shows("call", w) /\ ~Shows("info", w)
    BY <1>1, <2>5 DEF NoneTwice, In, SameKey
  <2>6. CASE A = <<c, f>> /\ ~Shows("message", w) /\ Shows("call", w) /\ Shows("info", w)
    BY <1>1, <2>6 DEF NoneTwice, In, SameKey
  <2> QED
    BY <1>3, <2>1, <2>2, <2>3, <2>4, <2>5, <2>6
<1> QED
  BY <1>2, <1>4, Zenon DEF A

\* What is known of the writes of the messages of a session.
LEMMA LatestOwn ==
  ASSUME NEW n \in 0..Length, NEW id, Written(id, n), Own(View!Latest(id, n))
  PROVE  LET w == View!Latest(id, n)
         IN  w \in View!Write /\ w.id = id /\ (w.role = "user" => w.call = "none" /\ ~w.end)
<1>1. PICK i \in 1..n : View!Latest(id, n) = Script[i] /\ Script[i].id = id
  BY LatestIsWrite
<1>2. i \in 1..Length
  BY ScriptType
<1>3. Script[i] \in View!Write /\ View!IsWrite(i)
  BY <1>2, ScriptType
<1>4. Script[i].role = "user" => Script[i].call = "none" /\ ~Script[i].end
  BY <1>3 DEF View!IsWrite
<1> QED
  BY <1>1, <1>3, <1>4

\* The next write decides on the items of its message, and on no others.
LEMMA ItemOfStep ==
  ASSUME NEW s, NEW n \in Nat, NEW m \in 1..Length, m = n + 1, NEW x
  PROVE  /\ x.id # Script[m].id => (ItemOf(s, m, x) <=> ItemOf(s, n, x))
         /\ x.id = Script[m].id =>
              (ItemOf(s, m, x) <=> /\ Own(Script[m]) /\ Shows(x.kind, Script[m])
                                   /\ x = View!Item(s, Script[m].id, x.kind, Script[m]))
         /\ x.id = Script[m].id /\ ~Own(Script[m]) => ~ItemOf(s, n, x)
         /\ Own(Script[m]) /\ Script[m].type = "created" => ~Written(Script[m].id, n)
<1>0. n \in 0..Length /\ m \in 0..Length /\ m \in Nat
  BY ScriptType
<1>w. PICK w : w = Script[m]
  OBVIOUS
<1>1. ASSUME x.id # w.id PROVE ItemOf(s, m, x) <=> ItemOf(s, n, x)
  <2>1. Written(x.id, m) <=> Written(x.id, n)
    BY <1>0, <1>1, <1>w, LatestStep
  <2>2. CASE Written(x.id, n)
    <3>1. View!Latest(x.id, m) = View!Latest(x.id, n)
      BY <1>0, <1>1, <1>w, <2>2, LatestStep
    <3> QED
      BY <2>1, <3>1, Zenon DEF ItemOf
  <2>3. CASE ~Written(x.id, n)
    BY <2>1, <2>3, Zenon DEF ItemOf
  <2> QED
    BY <2>2, <2>3
<1>2. ASSUME x.id = w.id
      PROVE  ItemOf(s, m, x) <=> Own(w) /\ Shows(x.kind, w) /\ x = View!Item(s, w.id, x.kind, w)
  <2>1. Written(x.id, m) /\ View!Latest(x.id, m) = w
    BY <1>0, <1>2, <1>w, LatestStep
  <2> QED
    BY <1>2, <2>1, Zenon DEF ItemOf
<1>3. ASSUME x.id = w.id, ~Own(w), ItemOf(s, n, x) PROVE FALSE
  <2>1. Written(x.id, n) /\ Own(View!Latest(x.id, n))
    BY <1>3 DEF ItemOf
  <2>2. PICK i \in 1..n : View!Latest(x.id, n) = Script[i] /\ Script[i].id = x.id
    BY <1>0, <2>1, LatestIsWrite
  <2>3. i \in 1..Length
    BY <1>0, ScriptType
  <2>4. Script[i].role = Script[m].role
    BY <1>3, <1>w, <2>2, <2>3, OneRole
  <2> QED
    BY <1>3, <1>w, <2>1, <2>2, <2>4 DEF Own
<1>4. ASSUME Own(w), w.type = "created", Written(w.id, n) PROVE FALSE
  <2>1. PICK i \in 1..n : Script[i].id = w.id
    BY <1>4 DEF Written
  <2>2. i \in 1..Length /\ i < m
    BY <1>0, ScriptType
  <2>3. Script[m].type = "updated"
    BY <1>4, <1>w, <2>1, <2>2, OneCreated
  <2> QED
    BY <1>4, <1>w, <2>3
<1> QED
  BY <1>1, <1>2, <1>3, <1>4, <1>w

\* The items are those that the latest writes have.
ItemsFit(s, n) ==
  NoneTwice(MessageItems(s, n)) /\ \A x : In(MessageItems(s, n), x) <=> ItemOf(s, n, x)

\* They stay so with the next write.
LEMMA ItemsFitStep ==
  ASSUME NEW s, NEW n \in Nat, NEW m \in 1..Length, m = n + 1, ItemsFit(s, n)
  PROVE  ItemsFit(s, m)
<1>0. n \in 0..Length /\ m \in 0..Length /\ m \in Nat
  BY ScriptType
<1>w. PICK w : w = Script[m]
  OBVIOUS
<1>u. w \in View!Write /\ (w.role = "user" => w.call = "none" /\ ~w.end)
  BY <1>w, ScriptType DEF View!IsWrite
<1>S. PICK S : S = Seq(ItemType(s)) /\ MessageItems(s, n) \in S
  BY <1>0, ItemsType
<1>1. \A x : /\ x.id # w.id => (ItemOf(s, m, x) <=> ItemOf(s, n, x))
             /\ x.id = w.id => (ItemOf(s, m, x) <=> /\ Own(w) /\ Shows(x.kind, w)
                                                    /\ x = View!Item(s, w.id, x.kind, w))
             /\ x.id = w.id /\ ~Own(w) => ~ItemOf(s, n, x)
  BY <1>0, <1>w, ItemOfStep
<1>2. Own(w) /\ w.type = "created" => \A x : x.id = w.id => ~ItemOf(s, n, x)
  <2>1. Own(w) /\ w.type = "created" => ~Written(w.id, n)
    BY <1>w, ItemOfStep
  <2> QED
    BY <2>1, Zenon DEF ItemOf
<1>3. \A x, kind : x = View!Item(s, w.id, kind, w) => x.id = w.id
  BY DEF View!Item
<1>4. CASE ~Own(w)
  <2>1. MessageItems(s, m) = MessageItems(s, n) \o <<>>
    BY <1>4, <1>w, ItemsGrow
  <2>2. MessageItems(s, m) = MessageItems(s, n)
    BY <1>S, <2>1, ConcatEmptySeq
  <2>3. \A x : ItemOf(s, m, x) <=> ItemOf(s, n, x)
    BY <1>1, <1>4, Zenon
  <2> QED
    BY <2>2, <2>3, Zenon DEF ItemsFit
<1>5. CASE Own(w) /\ w.type = "created"
  <2>1. PICK A \in Seq(ItemType(s)) : A = View!AllItems(s, w)
    BY <1>u, AllItemsType
  <2>2. MessageItems(s, m) = MessageItems(s, n) \o A
    BY <1>5, <1>w, <2>1, ItemsGrow
  <2>3. NoneTwice(A) /\ \A x : In(A, x) <=> Shows(x.kind, w) /\ x = View!Item(s, w.id, x.kind, w)
    BY <1>5, <1>u, <2>1, AllItemsHave
  <2>4. \A x, y : In(MessageItems(s, n), x) /\ In(A, y) => ~SameKey(x, y)
    <3> SUFFICES ASSUME NEW x, NEW y, ItemOf(s, n, x), In(A, y), SameKey(x, y) PROVE FALSE
      BY Zenon DEF ItemsFit
    <3>1. y.id = w.id
      BY <1>3, <2>3, Zenon
    <3>2. x.id = w.id
      BY <3>1, Zenon DEF SameKey
    <3> QED
      BY <1>2, <1>5, <3>2, Zenon
  <2>5. /\ \A x : In(MessageItems(s, m), x) <=> In(MessageItems(s, n), x) \/ In(A, x)
        /\ NoneTwice(MessageItems(s, m))
    <3>1. /\ \A x : In(MessageItems(s, n) \o A, x) <=> In(MessageItems(s, n), x) \/ In(A, x)
          /\ NoneTwice(MessageItems(s, n) \o A) <=>
               /\ NoneTwice(MessageItems(s, n)) /\ NoneTwice(A)
               /\ \A x, y : In(MessageItems(s, n), x) /\ In(A, y) => ~SameKey(x, y)
      BY <1>S, ConcatFacts
    <3>2. NoneTwice(MessageItems(s, n))
      BY DEF ItemsFit
    <3> QED
      BY <2>2, <2>3, <2>4, <3>1, <3>2, Zenon
  <2>6. ASSUME NEW x PROVE In(MessageItems(s, m), x) <=> ItemOf(s, m, x)
    <3>1. In(MessageItems(s, n), x) <=> ItemOf(s, n, x)
      BY DEF ItemsFit
    <3>2. In(A, x) => x.id = w.id
      BY <1>3, <2>3, Zenon
    <3> QED
      BY <1>1, <1>2, <1>5, <2>3, <2>5, <3>1, <3>2, Zenon
  <2> QED
    BY <2>5, <2>6, Zenon DEF ItemsFit
<1>6. CASE Own(w) /\ w.type = "updated"
  <2>o. PICK o : o = View!Latest(w.id, n)
    OBVIOUS
  <2>w. Written(w.id, n)
    BY <1>6, <1>w, ItemsChange
  <2>1. PICK P \in Seq(ItemType(s)) :
          MessageItems(s, n) = P \o View!AllItems(s, o) /\ MessageItems(s, m) = P \o View!AllItems(s, w)
    BY <1>6, <1>w, <2>o, ItemsChange
  <2>2. Own(o)
    <3>1. PICK i \in 1..n : o = Script[i] /\ Script[i].id = w.id
      BY <1>0, <2>o, <2>w, LatestIsWrite
    <3>2. i \in 1..Length
      BY <1>0, ScriptType
    <3>3. Script[i].role = Script[m].role
      BY <1>w, <3>1, <3>2, OneRole
    <3> QED
      BY <1>6, <1>w, <3>1, <3>3 DEF Own
  <2>3. o \in View!Write /\ o.id = w.id /\ (o.role = "user" => o.call = "none" /\ ~o.end)
    BY <1>0, <2>o, <2>w, <2>2, LatestOwn
  <2>4. PICK A \in Seq(ItemType(s)) : A = View!AllItems(s, o)
    BY <2>3, AllItemsType
  <2>5. PICK B \in Seq(ItemType(s)) : B = View!AllItems(s, w)
    BY <1>u, AllItemsType
  <2>6. NoneTwice(A) /\ \A x : In(A, x) <=> Shows(x.kind, o) /\ x = View!Item(s, o.id, x.kind, o)
    BY <2>2, <2>3, <2>4, AllItemsHave
  <2>7. NoneTwice(B) /\ \A x : In(B, x) <=> Shows(x.kind, w) /\ x = View!Item(s, w.id, x.kind, w)
    BY <1>6, <1>u, <2>5, AllItemsHave
  <2>8. /\ \A x : In(MessageItems(s, n), x) <=> In(P, x) \/ In(A, x)
        /\ NoneTwice(MessageItems(s, n)) <=>
             NoneTwice(P) /\ NoneTwice(A) /\ \A x, y : In(P, x) /\ In(A, y) => ~SameKey(x, y)
    BY <2>1, <2>4, ConcatFacts
  <2>9. /\ \A x : In(MessageItems(s, m), x) <=> In(P, x) \/ In(B, x)
        /\ NoneTwice(MessageItems(s, m)) <=>
             NoneTwice(P) /\ NoneTwice(B) /\ \A x, y : In(P, x) /\ In(B, y) => ~SameKey(x, y)
    <3>1. PICK Q : Q = P \o B
      OBVIOUS
    <3>2. /\ \A x : In(Q, x) <=> In(P, x) \/ In(B, x)
          /\ NoneTwice(Q) <=>
               NoneTwice(P) /\ NoneTwice(B) /\ \A x, y : In(P, x) /\ In(B, y) => ~SameKey(x, y)
      BY <3>1, ConcatFacts
    <3>3. Q = MessageItems(s, m)
      BY <2>1, <2>5, <3>1, Zenon
    <3> QED
      BY <3>2, <3>3, Zenon
  <2>10. ASSUME NEW x, In(P, x) PROVE x.id # w.id
    <3> SUFFICES ASSUME x.id = w.id PROVE FALSE
      OBVIOUS
    <3>1. ItemOf(s, n, x)
      BY <2>8, <2>10, Zenon DEF ItemsFit
    <3>2. Shows(x.kind, o) /\ x = View!Item(s, o.id, x.kind, o)
      BY <2>3, <2>o, <3>1, Zenon DEF ItemOf
    <3>3. In(A, x)
      BY <2>6, <3>2, Zenon
    <3>4. SameKey(x, x)
      BY DEF SameKey
    <3> QED
      BY <2>8, <2>10, <3>3, <3>4, Zenon DEF ItemsFit
  <2>11. NoneTwice(MessageItems(s, m))
    <3>1. ASSUME NEW x, NEW y, In(P, x), In(B, y), SameKey(x, y) PROVE FALSE
      <4>1. y.id = w.id
        BY <1>3, <2>7, <3>1, Zenon
      <4>2. x.id = w.id
        BY <3>1, <4>1, Zenon DEF SameKey
      <4> QED
        BY <2>10, <3>1, <4>2, Zenon
    <3>2. NoneTwice(P)
      BY <2>8 DEF ItemsFit
    <3> QED
      BY <2>7, <2>9, <3>1, <3>2, Zenon
  <2>12. ASSUME NEW x PROVE In(MessageItems(s, m), x) <=> ItemOf(s, m, x)
    <3>1. In(P, x) \/ In(A, x) <=> ItemOf(s, n, x)
      BY <2>8, Zenon DEF ItemsFit
    <3>2. In(A, x) => x.id = w.id
      <4>1. \A kind : x = View!Item(s, o.id, kind, o) => x.id = w.id
        BY <2>3 DEF View!Item
      <4> QED
        BY <2>6, <4>1, Zenon
    <3>3. In(B, x) => x.id = w.id
      BY <1>3, <2>7, Zenon
    <3>4. CASE x.id = w.id
      BY <1>1, <1>6, <2>7, <2>9, <2>10, <3>4, Zenon
    <3>5. CASE x.id # w.id
      BY <1>1, <2>9, <3>1, <3>2, <3>3, <3>5, Zenon
    <3> QED
      BY <3>4, <3>5
  <2> QED
    BY <2>11, <2>12, Zenon DEF ItemsFit
<1> QED
  BY <1>4, <1>5, <1>6, <1>u DEF View!Write

\* So they are after any number of writes.
LEMMA ItemsFitAlways ==
  ASSUME NEW s, NEW n \in 0..Length
  PROVE  ItemsFit(s, n)
<1> DEFINE T == {k \in Nat : k <= Length => ItemsFit(s, k)}
<1>0. Length \in Nat
  BY ScriptType
<1>1. 0 \in T
  <2>0. 0 \in 0..Length
    BY <1>0
  <2>1. PICK g : RunOf(g, s, 0)
    BY <2>0, ItemsRuns
  <2>2. MessageItems(s, 0) = <<>>
    BY <2>1 DEF RunOf, Flattens
  <2>3. \A x : ~In(<<>>, x)
    BY DEF In
  <2>4. NoneTwice(<<>>)
    BY DEF NoneTwice
  <2>5. \A x : ~ItemOf(s, 0, x)
    BY DEF ItemOf, Written
  <2> QED
    BY <2>2, <2>3, <2>4, <2>5 DEF ItemsFit
<1>2. ASSUME NEW k \in T PROVE k + 1 \in T
  <2> SUFFICES ASSUME k + 1 <= Length PROVE ItemsFit(s, k + 1)
    OBVIOUS
  <2>1. PICK m : m = k + 1 /\ m \in 1..Length /\ k \in Nat /\ ItemsFit(s, k)
    BY <1>0
  <2> QED
    BY <2>1, ItemsFitStep
<1>3. T = Nat
  <2>1. T \in SUBSET Nat
    OBVIOUS
  <2> HIDE DEF T
  <2> QED
    BY <1>1, <1>2, <2>1, Induction
<1> QED
  BY <1>0, <1>3

-----------------------------------------------------------------------------
(* Nested calls *)

\* The nested calls of the call of message id, and whether one has its result.
Calls(id, n) ==
  {i \in 1..n : Script[i].role = "child" /\ Script[i].of = id /\ Script[i].call # "none"}

Answered(id, n) == View!Has("childTool", id, n)

\* A set of writes has a last one.
LEMMA HasLast ==
  ASSUME NEW n \in Nat, NEW T \in SUBSET (1..n), T # {}
  PROVE  \E i \in T : \A j \in T : j <= i
<1> DEFINE U == {n - i : i \in T}
<1>1. U \in SUBSET Nat /\ U # {}
  <2>1. PICK e \in T : TRUE
    OBVIOUS
  <2>2. n - e \in U
    BY <2>1
  <2>3. \A i \in T : n - i \in Nat
    OBVIOUS
  <2> QED
    BY <2>2, <2>3
<1>2. PICK m \in U : \A k \in U : m <= k
  <2> HIDE DEF U
  <2> QED
    BY <1>1, Least
<1>3. PICK i \in T : m = n - i
  OBVIOUS
<1>4. ASSUME NEW j \in T PROVE j <= i
  <2>1. n - j \in U
    OBVIOUS
  <2>2. n - i <= n - j
    BY <1>2, <1>3, <2>1
  <2> QED
    BY <2>2
<1> QED
  BY <1>3, <1>4, Zenon

\* The nested call is answered, or it is the last that was written.
LEMMA NestedIs ==
  ASSUME NEW n \in 0..Length, NEW id
  PROVE  /\ Calls(id, n) = {} => View!Nested(id, n) = "none"
         /\ Calls(id, n) # {} /\ Answered(id, n) => View!Nested(id, n) = "answered"
         /\ Calls(id, n) # {} /\ ~Answered(id, n) =>
              /\ View!Nested(id, n) = Script[CHOOSE i \in Calls(id, n) : \A j \in Calls(id, n) : j <= i].call
              /\ View!Nested(id, n) \in {"open", "done"}
<1>0. n \in Nat
  BY ScriptType
<1>1. Calls(id, n) = {i \in 1..n : Script[i].role = "child" /\ Script[i].of = id /\ Script[i].call # "none"}
  BY DEF Calls
<1>2. View!Nested(id, n) =
        IF Calls(id, n) = {} THEN "none"
        ELSE IF View!Has("childTool", id, n) THEN "answered"
        ELSE Script[CHOOSE i \in Calls(id, n) : \A j \in Calls(id, n) : j <= i].call
  BY Zenon DEF View!Nested, Calls
<1>3. ASSUME Calls(id, n) # {}
      PROVE  Script[CHOOSE i \in Calls(id, n) : \A j \in Calls(id, n) : j <= i].call \in {"open", "done"}
  <2>1. Calls(id, n) \in SUBSET (1..n)
    BY DEF Calls
  <2>2. \E i \in Calls(id, n) : \A j \in Calls(id, n) : j <= i
    BY <1>0, <1>3, <2>1, HasLast
  <2>3. PICK i : i = CHOOSE e \in Calls(id, n) : \A j \in Calls(id, n) : j <= e
    OBVIOUS
  <2>4. i \in Calls(id, n)
    BY <2>2, <2>3, Zenon
  <2>5. i \in 1..Length /\ Script[i].call # "none"
    BY <2>4, ScriptType DEF Calls
  <2>6. Script[i].call \in {"open", "done"}
    BY <2>5, ScriptType DEF View!Write
  <2> QED
    BY <2>3, <2>6, Zenon
<1> QED
  BY <1>2, <1>3, Zenon DEF Answered

\* A nested call is in one of four states.
LEMMA NestedType ==
  ASSUME NEW n \in 0..Length, NEW id
  PROVE  View!Nested(id, n) \in {"none", "open", "done", "answered"}
BY NestedIs

\* What the next write adds to the results.
LEMMA HasStep ==
  ASSUME NEW n \in Nat, NEW m \in Nat, m = n + 1, NEW role, NEW id
  PROVE  View!Has(role, id, m) <=>
           View!Has(role, id, n) \/ (Script[m].role = role /\ Script[m].of = id)
<1>1. \A i : i \in 1..m <=> i \in 1..n \/ i = m
  OBVIOUS
<1> QED
  BY <1>1, Zenon DEF View!Has

\* What a write changes in the nested calls.
LEMMA NestedStep ==
  ASSUME NEW n \in Nat, NEW m \in 1..Length, m = n + 1, NEW id
  PROVE  LET w == Script[m]
         IN  /\ w.role \notin {"child", "childTool"} \/ w.of # id => View!Nested(id, m) = View!Nested(id, n)
             /\ w.role = "child" /\ w.call = "none" => View!Nested(id, m) = View!Nested(id, n)
             /\ w.role = "child" /\ w.call # "none" /\ w.of = id =>
                  View!Nested(id, m) = IF View!Nested(id, n) = "answered" THEN "answered" ELSE w.call
             /\ w.role = "childTool" /\ w.of = id =>
                  View!Nested(id, n) # "none" /\ View!Nested(id, m) = "answered"
<1>0. n \in 0..Length /\ m \in 0..Length /\ m \in Nat /\ m - 1 = n
  BY ScriptType
<1>w. PICK w : w = Script[m]
  OBVIOUS
<1>u. w \in View!Write /\ View!IsWrite(m)
  BY <1>w, ScriptType
<1>1. Calls(id, m) = Calls(id, n) \cup
        (IF w.role = "child" /\ w.of = id /\ w.call # "none" THEN {m} ELSE {})
  BY <1>0, <1>w DEF Calls
<1>2. Answered(id, m) <=> Answered(id, n) \/ (w.role = "childTool" /\ w.of = id)
  BY <1>0, <1>w, HasStep DEF Answered
<1>3. ASSUME ~(w.role = "child" /\ w.of = id /\ w.call # "none"),
             ~(w.role = "childTool" /\ w.of = id)
      PROVE  View!Nested(id, m) = View!Nested(id, n)
  <2>1. Calls(id, m) = Calls(id, n) /\ (Answered(id, m) <=> Answered(id, n))
    <3>1. Calls(id, m) = Calls(id, n)
      BY <1>1, <1>3
    <3> QED
      BY <1>2, <1>3, <3>1, Zenon
  <2>2. CASE Calls(id, n) = {}
    BY <1>0, <2>1, <2>2, NestedIs
  <2>3. CASE Calls(id, n) # {} /\ Answered(id, n)
    BY <1>0, <2>1, <2>3, NestedIs
  <2>4. CASE Calls(id, n) # {} /\ ~Answered(id, n)
    <3>1. PICK a : a = Calls(id, n) /\ a = Calls(id, m)
      BY <2>1
    <3>2. /\ View!Nested(id, n) = Script[CHOOSE i \in a : \A j \in a : j <= i].call
          /\ View!Nested(id, m) = Script[CHOOSE i \in a : \A j \in a : j <= i].call
      BY <1>0, <2>1, <2>4, <3>1, NestedIs, Zenon
    <3> QED
      BY <3>2
  <2> QED
    BY <2>2, <2>3, <2>4
<1>4. ASSUME w.role = "child", w.of = id, w.call # "none"
      PROVE  View!Nested(id, m) = IF View!Nested(id, n) = "answered" THEN "answered" ELSE w.call
  <2>1. m \in Calls(id, m)
    BY <1>1, <1>4
  <2>2. CASE Answered(id, n)
    <3>1. View!Nested(id, m) = "answered"
      <4>1. Answered(id, m) /\ Calls(id, m) # {}
        BY <1>2, <2>1, <2>2
      <4> QED
        BY <1>0, <4>1, NestedIs
    <3>2. Calls(id, n) # {}
      <4>1. PICK i \in 1..n : Script[i].role = "childTool" /\ Script[i].of = id
        BY <2>2 DEF Answered, View!Has
      <4>2. i \in 1..Length /\ View!IsWrite(i)
        BY <1>0, ScriptType
      <4>3. PICK j \in 1..(i - 1) : Script[j].role = "child" /\ Script[j].of = id /\ Script[j].call # "none"
        BY <4>1, <4>2 DEF View!IsWrite
      <4>4. j \in Calls(id, n)
        BY <1>0, <4>3 DEF Calls
      <4> QED
        BY <4>4
    <3>3. View!Nested(id, n) = "answered"
      BY <1>0, <2>2, <3>2, NestedIs
    <3> QED
      BY <3>1, <3>3
  <2>3. CASE ~Answered(id, n)
    <3>1. ~Answered(id, m)
      BY <1>2, <1>4, <2>3
    <3>2. \A j \in Calls(id, m) : j <= m /\ j \in Nat
      BY DEF Calls
    <3>3. (CHOOSE i \in Calls(id, m) : \A j \in Calls(id, m) : j <= i) = m
      <4>1. ASSUME NEW i \in Calls(id, m), \A j \in Calls(id, m) : j <= i PROVE i = m
        BY <2>1, <3>2, <4>1, <1>0
      <4>2. \A j \in Calls(id, m) : j <= m
        BY <3>2
      <4> QED
        BY <2>1, <4>1, <4>2
    <3>4. View!Nested(id, m) = Script[m].call
      BY <1>0, <2>1, <3>1, <3>3, NestedIs, Zenon
    <3>5. View!Nested(id, n) # "answered"
      BY <1>0, <2>3, NestedIs
    <3> QED
      BY <1>w, <3>4, <3>5
  <2> QED
    BY <2>2, <2>3
<1>5. ASSUME w.role = "childTool", w.of = id
      PROVE  View!Nested(id, n) # "none" /\ View!Nested(id, m) = "answered"
  <2>1. PICK j \in 1..(m - 1) : Script[j].role = "child" /\ Script[j].of = id /\ Script[j].call # "none"
    BY <1>5, <1>u, <1>w DEF View!IsWrite
  <2>2. j \in Calls(id, n) /\ j \in Calls(id, m)
    BY <1>0, <2>1 DEF Calls
  <2>3. Answered(id, m)
    BY <1>2, <1>5
  <2>4. View!Nested(id, n) # "none"
    BY <1>0, <2>2, NestedIs
  <2>5. View!Nested(id, m) = "answered"
    BY <1>0, <2>2, <2>3, NestedIs
  <2> QED
    BY <2>4, <2>5
<1> QED
  BY <1>3, <1>4, <1>5, <1>w

-----------------------------------------------------------------------------
(* The operators on items *)

\* x is the item of a kind of message id.
IsKey(x, id, kind) == x.id = id /\ x.kind = kind

\* The item x as write w has it.
Fresh(x, w) == [x EXCEPT !.text = w.text, !.call = w.call]

\* The items with the one of write w as w has it.
Changed(Y, w, kind) ==
  [i \in DOMAIN Y |-> IF IsKey(Y[i], w.id, kind) THEN Fresh(Y[i], w) ELSE Y[i]]

\* The calls with their results and nested calls after n writes.
Links(Y, n) == [i \in DOMAIN Y |-> View!Linked(Y[i], n)]

\* None of the items is of message id.
Strange(Y, id) == \A i \in DOMAIN Y : Y[i].id # id

\* What an update leaves of the items before it sees to the call.
Ended(Y, s, w) ==
  LET kept == IF View!ShouldRender(w) \/ ~View!Known(Y, w.id, "message")
              THEN Changed(Y, w, "message")
              ELSE View!RemoveMessage(
                     View!RemoveMessage(Changed(Y, w, "message"), w.id, "message"), w.id, "info")
  IN  IF View!ShouldRender(w) /\ View!IsInfo(w) /\ ~View!Known(Y, w.id, "info")
      THEN Append(kept, View!InfoItem(s, w)) ELSE kept

\* An update, by these operators.
LEMMA UpdateIs ==
  ASSUME NEW Y, NEW s, NEW w
  PROVE  View!updateSessionMessage(Y, s, w) =
           IF w.call = "none" THEN Ended(Y, s, w)
           ELSE IF View!Known(Y, w.id, "call") THEN Changed(Ended(Y, s, w), w, "call")
           ELSE Append(Ended(Y, s, w), View!Item(s, w.id, "call", w))
BY Zenon DEF View!updateSessionMessage, View!OnCall, Ended, Changed, Fresh, IsKey

\* What Append adds.
LEMMA Appended ==
  ASSUME NEW S, NEW Y \in Seq(S), NEW x \in S
  PROVE  /\ Append(Y, x) \in Seq(S) /\ Len(Y) \in Nat /\ Len(Append(Y, x)) = Len(Y) + 1
         /\ DOMAIN Y = 1..Len(Y) /\ DOMAIN Append(Y, x) = 1..(Len(Y) + 1)
         /\ Append(Y, x)[Len(Y) + 1] = x
         /\ \A i \in DOMAIN Y : Append(Y, x)[i] = Y[i]
         /\ \A i \in DOMAIN Append(Y, x) : i \in DOMAIN Y \/ i = Len(Y) + 1
  BY AppendProperties

\* A sequence is an Append when it is one place by place.
LEMMA IsAppend ==
  ASSUME NEW S, NEW Y \in Seq(S), NEW x \in S, NEW Z \in Seq(S),
         DOMAIN Z = 1..(Len(Y) + 1), Z[Len(Y) + 1] = x, \A i \in DOMAIN Y : Z[i] = Y[i]
  PROVE  Z = Append(Y, x)
<1>1. PICK A \in Seq(S) : A = Append(Y, x)
  BY Appended
<1>2. /\ Len(Y) \in Nat /\ Len(A) = Len(Y) + 1 /\ A[Len(Y) + 1] = x
      /\ \A i \in DOMAIN Y : A[i] = Y[i]
      /\ \A i \in DOMAIN A : i \in DOMAIN Y \/ i = Len(Y) + 1
      /\ DOMAIN A = 1..(Len(Y) + 1)
  BY <1>1, Appended
<1>3. Len(Z) = Len(Y) + 1
  BY <1>2
<1>4. ASSUME NEW i \in 1..Len(Z) PROVE Z[i] = A[i]
  <2>1. i \in DOMAIN A
    BY <1>2, <1>3
  <2>2. CASE i \in DOMAIN Y
    BY <1>2, <2>2
  <2>3. CASE i = Len(Y) + 1
    BY <1>2, <2>3
  <2> QED
    BY <1>2, <2>1, <2>2, <2>3
<1>5. Z = A
  BY <1>2, <1>3, <1>4, SeqEqual
<1> QED
  BY <1>1, <1>5

\* It knows one item more.
LEMMA KnownAppend ==
  ASSUME NEW S, NEW Y \in Seq(S), NEW x \in S, NEW id, NEW kind
  PROVE  View!Known(Append(Y, x), id, kind) <=> View!Known(Y, id, kind) \/ IsKey(x, id, kind)
<1>1. PICK A, n : A = Append(Y, x) /\ n = Len(Y) + 1
  OBVIOUS
<1>2. /\ \A i \in DOMAIN Y : i \in DOMAIN A /\ A[i] = Y[i]
      /\ \A i \in DOMAIN A : i \in DOMAIN Y \/ i = n
      /\ n \in DOMAIN A /\ A[n] = x
  BY <1>1, Appended
<1>3. View!Known(A, id, kind) <=> View!Known(Y, id, kind) \/ IsKey(x, id, kind)
  BY <1>2, Zenon DEF View!Known, IsKey
<1> QED
  BY <1>1, <1>3

\* A fresh item is the same but for its text and call.
LEMMA FreshFacts ==
  ASSUME NEW s, NEW x \in ItemType(s), NEW w \in View!Write
  PROVE  /\ Fresh(x, w) \in ItemType(s)
         /\ Fresh(x, w).id = x.id /\ Fresh(x, w).kind = x.kind /\ Fresh(x, w).s = x.s
         /\ Fresh(x, w).result = x.result /\ Fresh(x, w).nested = x.nested
         /\ Fresh(x, w).text = w.text /\ Fresh(x, w).call = w.call
  BY DEF Fresh, ItemType, View!Write

\* A changed sequence has the same items in the same places.
LEMMA ChangedFacts ==
  ASSUME NEW s, NEW Y \in Seq(ItemType(s)), NEW w \in View!Write, NEW kind
  PROVE  /\ Changed(Y, w, kind) \in Seq(ItemType(s))
         /\ DOMAIN Changed(Y, w, kind) = DOMAIN Y /\ Len(Changed(Y, w, kind)) = Len(Y)
         /\ \A i \in DOMAIN Y :
              Changed(Y, w, kind)[i] = IF IsKey(Y[i], w.id, kind) THEN Fresh(Y[i], w) ELSE Y[i]
         /\ \A i \in DOMAIN Y :
              Changed(Y, w, kind)[i].id = Y[i].id /\ Changed(Y, w, kind)[i].kind = Y[i].kind
         /\ Strange(Y, w.id) => Changed(Y, w, kind) = Y
<1>1. PICK n \in Nat : n = Len(Y) /\ DOMAIN Y = 1..n /\ \A i \in 1..n : Y[i] \in ItemType(s)
  OBVIOUS
<1>2. \A i \in 1..n : /\ Fresh(Y[i], w) \in ItemType(s)
                      /\ Fresh(Y[i], w).id = Y[i].id /\ Fresh(Y[i], w).kind = Y[i].kind
  BY <1>1, FreshFacts
<1>3. PICK Z : Z = Changed(Y, w, kind)
  OBVIOUS
<1>4. /\ Z = [i \in 1..n |-> Z[i]]
      /\ \A i \in 1..n : Z[i] = IF IsKey(Y[i], w.id, kind) THEN Fresh(Y[i], w) ELSE Y[i]
  BY <1>1, <1>3 DEF Changed
<1> HIDE DEF ItemType
<1>5. \A i \in 1..n : Z[i] \in ItemType(s) /\ Z[i].id = Y[i].id /\ Z[i].kind = Y[i].kind
  BY <1>1, <1>2, <1>4
<1>6. Z \in Seq(ItemType(s)) /\ DOMAIN Z = 1..n /\ Len(Z) = n
  BY <1>4, <1>5
<1>7. ASSUME Strange(Y, w.id) PROVE Z = Y
  <2>1. \A i \in 1..n : Z[i] = Y[i]
    BY <1>1, <1>4, <1>7 DEF Strange, IsKey
  <2> QED
    BY <1>1, <1>6, <2>1, SeqEqual
<1> QED
  BY <1>1, <1>3, <1>4, <1>5, <1>6, <1>7

\* An appended item is changed in its place.
LEMMA ChangedAppend ==
  ASSUME NEW s, NEW Y \in Seq(ItemType(s)), NEW x \in ItemType(s), NEW w \in View!Write, NEW kind
  PROVE  Changed(Append(Y, x), w, kind) =
           Append(Changed(Y, w, kind), IF IsKey(x, w.id, kind) THEN Fresh(x, w) ELSE x)
<1> HIDE DEF ItemType
<1>1. PICK A, n : A = Append(Y, x) /\ n = Len(Y) + 1
  OBVIOUS
<1>2. /\ A \in Seq(ItemType(s)) /\ DOMAIN A = 1..n /\ n \in DOMAIN A /\ A[n] = x
      /\ \A i \in DOMAIN Y : i \in DOMAIN A /\ A[i] = Y[i]
  BY <1>1, Appended
<1>3. PICK Z : Z = Changed(A, w, kind)
  OBVIOUS
<1>4. PICK V : V = Changed(Y, w, kind)
  OBVIOUS
<1>5. PICK y \in ItemType(s) : y = IF IsKey(x, w.id, kind) THEN Fresh(x, w) ELSE x
  BY FreshFacts
<1>6. /\ Z \in Seq(ItemType(s)) /\ DOMAIN Z = DOMAIN A
      /\ \A i \in DOMAIN A : Z[i] = IF IsKey(A[i], w.id, kind) THEN Fresh(A[i], w) ELSE A[i]
  BY <1>2, <1>3, ChangedFacts
<1>7. /\ V \in Seq(ItemType(s)) /\ DOMAIN V = DOMAIN Y /\ Len(V) = Len(Y)
      /\ \A i \in DOMAIN Y : V[i] = IF IsKey(Y[i], w.id, kind) THEN Fresh(Y[i], w) ELSE Y[i]
  BY <1>4, ChangedFacts
<1>8. Z[n] = y
  BY <1>2, <1>5, <1>6
<1>9. \A i \in DOMAIN V : Z[i] = V[i]
  BY <1>2, <1>6, <1>7
<1>10. DOMAIN Z = 1..(Len(V) + 1) /\ Z[Len(V) + 1] = y
  BY <1>1, <1>2, <1>6, <1>7, <1>8
<1>11. Z = Append(V, y)
  BY <1>5, <1>6, <1>7, <1>9, <1>10, IsAppend
<1> QED
  BY <1>1, <1>3, <1>4, <1>5, <1>11

\* RemoveMessage takes out the last item, leaves a chat alone that does not have
\* it, and takes out the one before the last.
LEMMA RemoveLast ==
  ASSUME NEW S, NEW Y \in Seq(S), NEW x \in S, NEW id, NEW kind,
         ~View!Known(Y, id, kind), IsKey(x, id, kind)
  PROVE  View!RemoveMessage(Append(Y, x), id, kind) = Y
<1>1. PICK A, n : A = Append(Y, x) /\ n = Len(Y) + 1
  OBVIOUS
<1>2. /\ A \in Seq(S) /\ Len(A) = n /\ n \in DOMAIN A /\ A[n] = x /\ Len(Y) \in Nat
      /\ \A i \in DOMAIN Y : i \in DOMAIN A /\ A[i] = Y[i]
      /\ \A i \in DOMAIN A : i \in DOMAIN Y \/ i = n
      /\ DOMAIN Y = 1..Len(Y)
  BY <1>1, Appended
<1>3. \A i \in DOMAIN A : A[i].id = id /\ A[i].kind = kind => i = n
  BY <1>2 DEF View!Known
<1>4. A[n].id = id /\ A[n].kind = kind
  BY <1>2 DEF IsKey
<1>5. (CHOOSE i \in DOMAIN A : A[i].id = id /\ A[i].kind = kind) = n
  BY <1>2, <1>3, <1>4
<1>6. View!Known(A, id, kind)
  BY <1>2, <1>4 DEF View!Known
<1>7. View!RemoveMessage(A, id, kind) = View!RemoveAt(A, n)
  BY <1>5, <1>6, Zenon DEF View!RemoveMessage
<1>8. View!RemoveAt(A, n) = Y
  <2>1. View!RemoveAt(A, n) = SubSeq(A, 1, n - 1) \o SubSeq(A, n + 1, Len(A))
    BY DEF View!RemoveAt
  <2>2. SubSeq(A, n + 1, Len(A)) = <<>>
    BY <1>1, <1>2
  <2>3. PICK B : B = SubSeq(A, 1, n - 1)
    OBVIOUS
  <2>4. B \in Seq(S) /\ Len(B) = Len(Y) /\ \A i \in 1..Len(B) : B[i] = Y[i]
    BY <1>1, <1>2, <2>3
  <2>5. B = Y
    BY <2>4, SeqEqual
  <2>6. B \o <<>> = B
    BY <2>4, ConcatEmptySeq
  <2> QED
    BY <2>1, <2>2, <2>3, <2>5, <2>6, Zenon
<1> QED
  BY <1>1, <1>7, <1>8

LEMMA RemoveUnknown ==
  ASSUME NEW Y, NEW id, NEW kind, ~View!Known(Y, id, kind)
  PROVE  View!RemoveMessage(Y, id, kind) = Y
  BY DEF View!RemoveMessage

\* With one item after it.
LEMMA RemoveSecondLast ==
  ASSUME NEW S, NEW Y \in Seq(S), NEW x \in S, NEW y \in S, NEW id, NEW kind,
         ~View!Known(Y, id, kind), IsKey(x, id, kind), ~IsKey(y, id, kind)
  PROVE  View!RemoveMessage(Append(Append(Y, x), y), id, kind) = Append(Y, y)
<1>1. PICK A, n : A \in Seq(S) /\ A = Append(Y, x) /\ n = Len(Y) + 1
  BY Appended
<1>2. /\ A \in Seq(S) /\ Len(A) = n /\ n \in DOMAIN A /\ A[n] = x /\ Len(Y) \in Nat
      /\ \A i \in DOMAIN Y : i \in DOMAIN A /\ A[i] = Y[i]
      /\ \A i \in DOMAIN A : i \in DOMAIN Y \/ i = n
      /\ DOMAIN Y = 1..Len(Y)
  BY <1>1, Appended
<1>3. PICK C \in Seq(S) : C = Append(A, y)
  BY <1>2, Appended
<1>4. /\ Len(C) = n + 1 /\ C[n + 1] = y
      /\ \A i \in DOMAIN A : i \in DOMAIN C /\ C[i] = A[i]
      /\ \A i \in DOMAIN C : i \in DOMAIN A \/ i = n + 1
  BY <1>2, <1>3, Appended
<1>5. \A i \in DOMAIN C : C[i].id = id /\ C[i].kind = kind => i = n
  BY <1>2, <1>4 DEF View!Known, IsKey
<1>6. n \in DOMAIN C /\ C[n].id = id /\ C[n].kind = kind
  BY <1>2, <1>4 DEF IsKey
<1>7. (CHOOSE i \in DOMAIN C : C[i].id = id /\ C[i].kind = kind) = n
  BY <1>5, <1>6
<1>8. View!Known(C, id, kind)
  BY <1>6 DEF View!Known
<1>9. View!RemoveMessage(C, id, kind) = View!RemoveAt(C, n)
  BY <1>7, <1>8, Zenon DEF View!RemoveMessage
<1>10. View!RemoveAt(C, n) = Append(Y, y)
  <2>1. View!RemoveAt(C, n) = SubSeq(C, 1, n - 1) \o SubSeq(C, n + 1, Len(C))
    BY DEF View!RemoveAt
  <2>2. PICK D : D = SubSeq(C, n + 1, Len(C))
    OBVIOUS
  <2>3. D \in Seq(S) /\ Len(D) = 1 /\ D[1] = y
    BY <1>1, <1>2, <1>4, <2>2
  <2>4. PICK B : B = SubSeq(C, 1, n - 1)
    OBVIOUS
  <2>5. B \in Seq(S) /\ Len(B) = Len(Y) /\ \A i \in 1..Len(B) : B[i] = Y[i]
    BY <1>1, <1>2, <1>4, <2>4
  <2>6. B = Y
    BY <2>5, SeqEqual
  <2>7. /\ B \o D \in Seq(S) /\ Len(B \o D) = Len(Y) + 1 /\ (B \o D)[Len(Y) + 1] = y
        /\ \A i \in DOMAIN Y : (B \o D)[i] = Y[i]
    <3>1. PICK k \in Nat : k = Len(Y) /\ k = Len(B) /\ DOMAIN Y = 1..k
      BY <1>2, <2>5, Zenon
    <3>a. /\ B \o D \in Seq(S) /\ Len(B \o D) = Len(B) + Len(D)
          /\ \A i \in 1..(Len(B) + Len(D)) : (B \o D)[i] = IF i <= Len(B) THEN B[i] ELSE D[i - Len(B)]
      <4>1. B \in Seq(S) /\ D \in Seq(S)
        BY <2>3, <2>5
      <4> QED
        BY <4>1, ConcatProperties
    <3>2. /\ B \o D \in Seq(S) /\ Len(B \o D) = k + 1
          /\ \A i \in 1..(k + 1) : (B \o D)[i] = IF i <= k THEN B[i] ELSE D[i - k]
      BY <2>3, <3>1, <3>a, Zenon
    <3>3. (B \o D)[k + 1] = D[(k + 1) - k] /\ (k + 1) - k = 1
      BY <3>2
    <3>4. \A i \in 1..k : (B \o D)[i] = Y[i]
      <4>1. \A i \in 1..k : i \in 1..(k + 1) /\ i <= k
        OBVIOUS
      <4> QED
        BY <2>6, <3>2, <4>1, Zenon
    <3> QED
      BY <2>3, <3>1, <3>2, <3>3, <3>4
  <2>8. PICK Z \in Seq(S) : Z = B \o D
    BY <2>7
  <2>9. DOMAIN Z = 1..(Len(Y) + 1)
    BY <2>7, <2>8
  <2>10. Z = Append(Y, y)
    BY <2>7, <2>8, <2>9, IsAppend
  <2> QED
    BY <2>1, <2>2, <2>4, <2>8, <2>10, Zenon
<1> QED
  BY <1>1, <1>3, <1>9, <1>10

\* Y with x after it, if b.
Opt(Y, b, x) == IF b THEN Append(Y, x) ELSE Y

\* What an optional item adds.
LEMMA OptFacts ==
  ASSUME NEW s, NEW Y \in Seq(ItemType(s)), NEW x \in ItemType(s), NEW b \in BOOLEAN
  PROVE  /\ Opt(Y, b, x) \in Seq(ItemType(s))
         /\ \A id, kind : View!Known(Opt(Y, b, x), id, kind) <=>
                            View!Known(Y, id, kind) \/ (b /\ IsKey(x, id, kind))
         /\ \A w \in View!Write : \A kind :
              Changed(Opt(Y, b, x), w, kind) =
                Opt(Changed(Y, w, kind), b, IF IsKey(x, w.id, kind) THEN Fresh(x, w) ELSE x)
<1> HIDE DEF ItemType
<1>1. CASE b
  <2>1. Opt(Y, b, x) = Append(Y, x)
    BY <1>1 DEF Opt
  <2>2. Append(Y, x) \in Seq(ItemType(s))
    BY Appended
  <2>3. \A id, kind : View!Known(Append(Y, x), id, kind) <=>
                        View!Known(Y, id, kind) \/ IsKey(x, id, kind)
    BY KnownAppend
  <2>4. ASSUME NEW w \in View!Write, NEW kind
        PROVE  Changed(Append(Y, x), w, kind) =
                 Opt(Changed(Y, w, kind), b, IF IsKey(x, w.id, kind) THEN Fresh(x, w) ELSE x)
    BY <1>1, ChangedAppend, Zenon DEF Opt
  <2> QED
    BY <1>1, <2>1, <2>2, <2>3, <2>4, Zenon
<1>2. CASE ~b
  <2>1. Opt(Y, b, x) = Y
    BY <1>2 DEF Opt
  <2>2. \A w, kind, y : Opt(Changed(Y, w, kind), b, y) = Changed(Y, w, kind)
    BY <1>2 DEF Opt
  <2> QED
    BY <1>2, <2>1, <2>2, Zenon
<1> QED
  BY <1>1, <1>2

\* A linked item is the same but for its result and nested call.
LEMMA LinkedFacts ==
  ASSUME NEW s, NEW x \in ItemType(s), NEW n \in 0..Length
  PROVE  LET y == View!Linked(x, n)
         IN  /\ y \in ItemType(s) /\ y.id = x.id /\ y.kind = x.kind /\ y.s = x.s
             /\ y.text = x.text /\ y.call = x.call
             /\ x.kind # "call" => y = x
             /\ x.kind = "call" => /\ y.result = View!Has("tool", x.id, n)
                                   /\ y.nested = View!Nested(x.id, n)
<1>1. View!Nested(x.id, n) \in {"none", "open", "done", "answered"}
  BY NestedType
<1>2. View!Has("tool", x.id, n) \in BOOLEAN
  BY DEF View!Has
<1>3. PICK r \in BOOLEAN, d \in {"none", "open", "done", "answered"} :
        r = View!Has("tool", x.id, n) /\ d = View!Nested(x.id, n)
  BY <1>1, <1>2, Zenon
<1>4. View!Linked(x, n) = IF x.kind # "call" THEN x ELSE [x EXCEPT !.result = r, !.nested = d]
  BY <1>3, Zenon DEF View!Linked
<1>5. PICK y : y = View!Linked(x, n)
  OBVIOUS
<1>6. /\ y \in ItemType(s) /\ y.id = x.id /\ y.kind = x.kind /\ y.s = x.s
      /\ y.text = x.text /\ y.call = x.call
      /\ x.kind # "call" => y = x
      /\ x.kind = "call" => y.result = r /\ y.nested = d
  <2>1. CASE x.kind # "call"
    BY <1>4, <1>5, <2>1
  <2>2. CASE x.kind = "call"
    <3>1. y = [x EXCEPT !.result = r, !.nested = d]
      BY <1>4, <1>5, <2>2
    <3> QED
      BY <2>2, <3>1 DEF ItemType
  <2> QED
    BY <2>1, <2>2
<1> QED
  BY <1>3, <1>5, <1>6, Zenon

\* Two items are the same when their fields are.
LEMMA SameItem ==
  ASSUME NEW s, NEW x \in ItemType(s), NEW y \in ItemType(s),
         x.id = y.id, x.kind = y.kind, x.text = y.text, x.call = y.call,
         x.result = y.result, x.nested = y.nested
  PROVE  x = y
BY DEF ItemType

\* So are linked items.
LEMMA LinksFacts ==
  ASSUME NEW s, NEW Y \in Seq(ItemType(s)), NEW n \in 0..Length
  PROVE  /\ Links(Y, n) \in Seq(ItemType(s))
         /\ DOMAIN Links(Y, n) = DOMAIN Y /\ Len(Links(Y, n)) = Len(Y)
         /\ \A i \in DOMAIN Y : Links(Y, n)[i] = View!Linked(Y[i], n)
         /\ \A i \in DOMAIN Y : Links(Y, n)[i].id = Y[i].id /\ Links(Y, n)[i].kind = Y[i].kind
         /\ \A id, kind : View!Known(Links(Y, n), id, kind) <=> View!Known(Y, id, kind)
<1>1. PICK k \in Nat : k = Len(Y) /\ DOMAIN Y = 1..k /\ \A i \in 1..k : Y[i] \in ItemType(s)
  OBVIOUS
<1> HIDE DEF ItemType
<1>2. \A i \in 1..k : LET y == View!Linked(Y[i], n)
                      IN  y \in ItemType(s) /\ y.id = Y[i].id /\ y.kind = Y[i].kind
  BY <1>1, LinkedFacts
<1>3. PICK Z : Z = Links(Y, n)
  OBVIOUS
<1>4. Z = [i \in 1..k |-> Z[i]] /\ \A i \in 1..k : Z[i] = View!Linked(Y[i], n)
  BY <1>1, <1>3 DEF Links
<1>5. \A i \in 1..k : Z[i] \in ItemType(s) /\ Z[i].id = Y[i].id /\ Z[i].kind = Y[i].kind
  BY <1>2, <1>4
<1>6. Z \in Seq(ItemType(s)) /\ DOMAIN Z = 1..k /\ Len(Z) = k
  BY <1>4, <1>5
<1>7. \A id, kind : View!Known(Z, id, kind) <=> View!Known(Y, id, kind)
  BY <1>1, <1>5, <1>6, Zenon DEF View!Known
<1> QED
  BY <1>1, <1>3, <1>4, <1>5, <1>6, <1>7

\* An optional item is linked in its place.
LEMMA LinksOpt ==
  ASSUME NEW s, NEW Y \in Seq(ItemType(s)), NEW x \in ItemType(s), NEW b \in BOOLEAN,
         NEW n \in 0..Length
  PROVE  Links(Opt(Y, b, x), n) = Opt(Links(Y, n), b, View!Linked(x, n))
<1> HIDE DEF ItemType
<1>1. CASE ~b
  BY <1>1 DEF Opt
<1>2. CASE b
  <2>1. PICK A, k : A = Append(Y, x) /\ k = Len(Y) + 1
    OBVIOUS
  <2>2. /\ A \in Seq(ItemType(s)) /\ DOMAIN A = 1..k /\ k \in DOMAIN A /\ A[k] = x
        /\ \A i \in DOMAIN Y : i \in DOMAIN A /\ A[i] = Y[i]
    BY <2>1, Appended
  <2>3. PICK Z : Z = Links(A, n)
    OBVIOUS
  <2>4. PICK V : V = Links(Y, n)
    OBVIOUS
  <2>5. PICK y : y \in ItemType(s) /\ y = View!Linked(x, n)
    BY LinkedFacts
  <2>6. /\ Z \in Seq(ItemType(s)) /\ DOMAIN Z = DOMAIN A
        /\ \A i \in DOMAIN A : Z[i] = View!Linked(A[i], n)
    BY <2>2, <2>3, LinksFacts
  <2>7. /\ V \in Seq(ItemType(s)) /\ DOMAIN V = DOMAIN Y /\ Len(V) = Len(Y)
        /\ \A i \in DOMAIN Y : V[i] = View!Linked(Y[i], n)
    BY <2>4, LinksFacts
  <2>8. Z[k] = y
    BY <2>2, <2>5, <2>6
  <2>9. \A i \in DOMAIN V : Z[i] = V[i]
    BY <2>2, <2>6, <2>7
  <2>10. DOMAIN Z = 1..(Len(V) + 1) /\ Z[Len(V) + 1] = y
    BY <2>1, <2>2, <2>6, <2>7, <2>8
  <2>11. Z = Append(V, y)
    BY <2>5, <2>6, <2>7, <2>9, <2>10, IsAppend
  <2> QED
    BY <1>2, <2>1, <2>3, <2>4, <2>5, <2>11 DEF Opt
<1> QED
  BY <1>1, <1>2

\* The chat of a session after n writes.
LEMMA SetIs ==
  ASSUME NEW s, NEW n \in 0..Length
  PROVE  View!setSessionMessages(s, n) = Links(MessageItems(s, n), n)
BY Zenon DEF View!setSessionMessages, Links, MessageItems, Piece

\* Concatenating a short tuple is appending its elements.
LEMMA ConcatOpts ==
  ASSUME NEW S, NEW P \in Seq(S), NEW a \in S, NEW b \in S, NEW c \in S
  PROVE  /\ P \o <<a>> = Append(P, a)
         /\ P \o <<a, b>> = Append(Append(P, a), b)
         /\ P \o <<a, b, c>> = Append(Append(Append(P, a), b), c)
<1>1. <<a>> \in Seq(S) /\ <<b>> \in Seq(S) /\ <<c>> \in Seq(S) /\ <<a, b>> \in Seq(S)
  OBVIOUS
<1>2. \A Q \in Seq(S) : \A x \in S : Q \o <<x>> = Append(Q, x) /\ Append(Q, x) \in Seq(S)
  BY AppendIsConcat, Appended
<1>3. P \o <<a, b>> = Append(Append(P, a), b)
  <2>1. P \o (<<a>> \o <<b>>) = (P \o <<a>>) \o <<b>>
    BY <1>1, ConcatAssociative
  <2>2. <<a>> \o <<b>> = <<a, b>>
    BY Tuples
  <2> QED
    BY <1>2, <2>1, <2>2, Zenon
<1>4. P \o <<a, b, c>> = Append(Append(Append(P, a), b), c)
  <2>1. P \o (<<a, b>> \o <<c>>) = (P \o <<a, b>>) \o <<c>>
    BY <1>1, ConcatAssociative
  <2>2. <<a, b>> \o <<c>> = <<a, b, c>>
    BY Tuples
  <2> QED
    BY <1>2, <1>3, <2>1, <2>2, Zenon
<1> QED
  BY <1>2, <1>3, <1>4, Zenon

\* An optional item is changed in its place.
LEMMA ChangedOpt ==
  ASSUME NEW s, NEW Y \in Seq(ItemType(s)), NEW x \in ItemType(s), NEW b \in BOOLEAN,
         NEW w \in View!Write, NEW kind
  PROVE  Changed(Opt(Y, b, x), w, kind) =
           Opt(Changed(Y, w, kind), b, IF IsKey(x, w.id, kind) THEN Fresh(x, w) ELSE x)
BY OptFacts

\* x is the item of a kind that write w has.
IsItem(x, s, w, kind) ==
  /\ x \in ItemType(s) /\ IsKey(x, w.id, kind) /\ x.id = w.id /\ x.kind = kind /\ x.s = s
  /\ x.text = w.text /\ x.call = w.call /\ x.result = FALSE /\ x.nested = "none"

\* An item has the message and the kind it is made of.
LEMMA ItemKeys ==
  ASSUME NEW s, NEW w \in View!Write
  PROVE  /\ IsItem(View!Item(s, w.id, "message", w), s, w, "message")
         /\ IsItem(View!Item(s, w.id, "call", w), s, w, "call")
         /\ IsItem(View!Item(s, w.id, "info", w), s, w, "info")
BY DEF IsItem, IsKey, View!Item, View!Write, ItemType

\* The items of a message are up to three, in this order.
LEMMA AllOpts ==
  ASSUME NEW s, NEW P \in Seq(ItemType(s)), NEW w \in View!Write, Own(w),
         w.role = "user" => w.call = "none" /\ ~w.end, NEW n \in 0..Length
  PROVE  Links(P \o View!AllItems(s, w), n) =
           Opt(Opt(Opt(Links(P, n), View!ShouldRender(w), View!Item(s, w.id, "message", w)),
                   w.call # "none", View!Linked(View!Item(s, w.id, "call", w), n)),
               View!IsInfo(w), View!Item(s, w.id, "info", w))
<1>1. PICK m, c, f : /\ m = View!Item(s, w.id, "message", w) /\ c = View!Item(s, w.id, "call", w)
                     /\ f = View!Item(s, w.id, "info", w)
  OBVIOUS
<1>2. m \in ItemType(s) /\ c \in ItemType(s) /\ f \in ItemType(s) /\ m.kind = "message" /\ f.kind = "info"
  <2>1. IsItem(m, s, w, "message") /\ IsItem(c, s, w, "call") /\ IsItem(f, s, w, "info")
    BY <1>1, ItemKeys, Zenon
  <2> QED
    BY <2>1 DEF IsItem
<1> HIDE DEF ItemType
<1>3. /\ Shows("message", w) <=> View!ShouldRender(w)
      /\ Shows("call", w) <=> w.call # "none"
      /\ Shows("info", w) <=> View!IsInfo(w)
  BY DEF Shows
<1>4. PICK Q \in Seq(ItemType(s)) :
        Q = Opt(Opt(Opt(P, View!ShouldRender(w), m), w.call # "none", c), View!IsInfo(w), f)
  <2>0. /\ View!ShouldRender(w) \in BOOLEAN /\ View!IsInfo(w) \in BOOLEAN /\ (w.call # "none") \in BOOLEAN
    BY DEF View!ShouldRender, View!IsInfo
  <2>1. Opt(P, View!ShouldRender(w), m) \in Seq(ItemType(s))
    BY <1>2, <2>0, OptFacts
  <2>2. Opt(Opt(P, View!ShouldRender(w), m), w.call # "none", c) \in Seq(ItemType(s))
    BY <1>2, <2>0, <2>1, OptFacts
  <2>3. Opt(Opt(Opt(P, View!ShouldRender(w), m), w.call # "none", c), View!IsInfo(w), f) \in Seq(ItemType(s))
    BY <1>2, <2>0, <2>2, OptFacts
  <2> QED
    BY <2>3
<1>5. P \o View!AllItems(s, w) = Q
  <2>1. /\ P \o <<m>> = Append(P, m)
        /\ P \o <<c>> = Append(P, c)
        /\ P \o <<m, c>> = Append(Append(P, m), c)
        /\ P \o <<m, f>> = Append(Append(P, m), f)
        /\ P \o <<c, f>> = Append(Append(P, c), f)
        /\ P \o <<m, c, f>> = Append(Append(Append(P, m), c), f)
    <3>1. P \o <<m>> = Append(P, m)
      BY <1>2, ConcatOpts
    <3>5. P \o <<m, c>> = Append(Append(P, m), c)
      BY <1>2, ConcatOpts
    <3>6. P \o <<c>> = Append(P, c)
      BY <1>2, ConcatOpts
    <3>2. P \o <<c, f>> = Append(Append(P, c), f)
      BY <1>2, ConcatOpts
    <3>3. P \o <<m, f>> = Append(Append(P, m), f)
      BY <1>2, ConcatOpts
    <3>4. P \o <<m, c, f>> = Append(Append(Append(P, m), c), f)
      BY <1>2, ConcatOpts
    <3> QED
      BY <3>1, <3>2, <3>3, <3>4, <3>5, <3>6
  <2>2. /\ Shows("message", w) /\ ~Shows("call", w) /\ ~Shows("info", w) => View!AllItems(s, w) = <<m>>
        /\ Shows("message", w) /\ ~Shows("call", w) /\ Shows("info", w) => View!AllItems(s, w) = <<m, f>>
        /\ Shows("message", w) /\ Shows("call", w) /\ ~Shows("info", w) => View!AllItems(s, w) = <<m, c>>
        /\ Shows("message", w) /\ Shows("call", w) /\ Shows("info", w) => View!AllItems(s, w) = <<m, c, f>>
        /\ ~Shows("message", w) /\ ~Shows("info", w) => View!AllItems(s, w) = <<c>>
        /\ ~Shows("message", w) /\ Shows("info", w) => View!AllItems(s, w) = <<c, f>>
        /\ Shows("message", w) \/ Shows("call", w)
    BY <1>1, AllItemsAre, Zenon
  <2>3. CASE Shows("message", w)
    <3>1. CASE Shows("call", w) /\ Shows("info", w)
      <4>1. View!AllItems(s, w) = <<m, c, f>> /\ Q = Append(Append(Append(P, m), c), f)
        BY <1>3, <1>4, <2>2, <2>3, <3>1 DEF Opt
      <4> QED
        BY <2>1, <4>1, Zenon
    <3>2. CASE Shows("call", w) /\ ~Shows("info", w)
      <4>1. View!AllItems(s, w) = <<m, c>> /\ Q = Append(Append(P, m), c)
        BY <1>3, <1>4, <2>2, <2>3, <3>2 DEF Opt
      <4> QED
        BY <2>1, <4>1, Zenon
    <3>3. CASE ~Shows("call", w) /\ Shows("info", w)
      <4>1. View!AllItems(s, w) = <<m, f>> /\ Q = Append(Append(P, m), f)
        BY <1>3, <1>4, <2>2, <2>3, <3>3 DEF Opt
      <4> QED
        BY <2>1, <4>1, Zenon
    <3>4. CASE ~Shows("call", w) /\ ~Shows("info", w)
      <4>1. View!AllItems(s, w) = <<m>> /\ Q = Append(P, m)
        BY <1>3, <1>4, <2>2, <2>3, <3>4 DEF Opt
      <4> QED
        BY <2>1, <4>1, Zenon
    <3> QED
      BY <3>1, <3>2, <3>3, <3>4
  <2>4. CASE ~Shows("message", w) /\ Shows("info", w)
    <3>1. View!AllItems(s, w) = <<c, f>> /\ Q = Append(Append(P, c), f)
      BY <1>3, <1>4, <2>2, <2>4 DEF Opt
    <3> QED
      BY <2>1, <3>1, Zenon
  <2>5. CASE ~Shows("message", w) /\ ~Shows("info", w)
    <3>1. View!AllItems(s, w) = <<c>> /\ Q = Append(P, c)
      BY <1>3, <1>4, <2>2, <2>5 DEF Opt
    <3> QED
      BY <2>1, <3>1, Zenon
  <2> QED
    BY <2>3, <2>4, <2>5
<1>6. PICK b1 \in BOOLEAN, b2 \in BOOLEAN, b3 \in BOOLEAN :
        b1 = View!ShouldRender(w) /\ b2 = (w.call # "none") /\ b3 = View!IsInfo(w)
  BY DEF View!ShouldRender, View!IsInfo
<1>7. PICK Q1 \in Seq(ItemType(s)), Q2 \in Seq(ItemType(s)) : Q1 = Opt(P, b1, m) /\ Q2 = Opt(Q1, b2, c)
  <2>1. PICK Q1 \in Seq(ItemType(s)) : Q1 = Opt(P, b1, m)
    BY <1>2, OptFacts
  <2>2. PICK Q2 \in Seq(ItemType(s)) : Q2 = Opt(Q1, b2, c)
    BY <1>2, OptFacts
  <2> QED
    BY <2>1, <2>2
<1>8. Links(Q1, n) = Opt(Links(P, n), b1, View!Linked(m, n))
  BY <1>2, <1>7, LinksOpt
<1>9. Links(Q2, n) = Opt(Links(Q1, n), b2, View!Linked(c, n))
  BY <1>2, <1>7, LinksOpt
<1>10. Links(Opt(Q2, b3, f), n) = Opt(Links(Q2, n), b3, View!Linked(f, n))
  BY <1>2, <1>7, LinksOpt
<1>11. View!Linked(m, n) = m /\ View!Linked(f, n) = f
  BY <1>2, LinkedFacts
<1> QED
  BY <1>1, <1>4, <1>5, <1>6, <1>7, <1>8, <1>9, <1>10, <1>11, Zenon

\* No link makes an item one of the message.
LEMMA StrangeFacts ==
  ASSUME NEW s, NEW P \in Seq(ItemType(s)), NEW n \in 0..Length, NEW id, Strange(P, id)
  PROVE  /\ Strange(Links(P, n), id)
         /\ \A kind : ~View!Known(P, id, kind)
<1>1. \A i \in DOMAIN P : i \in DOMAIN Links(P, n) /\ Links(P, n)[i].id = P[i].id
  BY LinksFacts
<1>2. DOMAIN Links(P, n) = DOMAIN P
  BY LinksFacts
<1> QED
  BY <1>1, <1>2, Zenon DEF Strange, View!Known

\* The items that come in, and go, with the versions o and w of one answer.
Steady(o, w) ==
  /\ ~View!ShouldRender(o) => ~View!ShouldRender(w) /\ ~w.end
  /\ ~View!ShouldRender(w) => ~w.end
  /\ o.end => w.end /\ w.text = o.text /\ w.call = o.call
  /\ w.call = "none" => o.call = "none"
  /\ w.call # "none" /\ w.end => o.call # "none"

\* Between two steady versions, an update of the items of the older one, which
\* are the last of the chat, makes them those of the newer one.
LEMMA UpdateStep ==
  ASSUME NEW s, NEW p \in Seq(ItemType(s)), NEW o \in View!Write, NEW w \in View!Write,
         o.id = w.id, o.role = "assistant", w.role = "assistant", Strange(p, w.id), Steady(o, w),
         NEW n \in 0..Length,
         NEW c \in ItemType(s), NEW d \in ItemType(s),
         IsKey(c, w.id, "call"), d = Fresh(c, w),
         o.call = "none" => d = View!Item(s, w.id, "call", w)
  PROVE  View!updateSessionMessage(
           Opt(Opt(Opt(p, View!ShouldRender(o), View!Item(s, o.id, "message", o)),
                   o.call # "none", c),
               View!IsInfo(o), View!Item(s, o.id, "info", o)), s, w) =
           Opt(Opt(Opt(p, View!ShouldRender(w), View!Item(s, w.id, "message", w)),
                   w.call # "none", d),
               View!IsInfo(w), View!Item(s, w.id, "info", w))
<1>1. PICK m, f, x, g :
        /\ m = View!Item(s, o.id, "message", o) /\ f = View!Item(s, o.id, "info", o)
        /\ x = View!Item(s, w.id, "message", w) /\ g = View!Item(s, w.id, "info", w)
  OBVIOUS
<1>a. /\ IsItem(m, s, o, "message") /\ IsItem(f, s, o, "info")
      /\ IsItem(x, s, w, "message") /\ IsItem(g, s, w, "info")
  BY <1>1, ItemKeys, Zenon
<1>2. /\ m \in ItemType(s) /\ IsKey(m, w.id, "message")
      /\ f \in ItemType(s) /\ IsKey(f, w.id, "info")
      /\ x \in ItemType(s) /\ IsKey(x, w.id, "message")
      /\ g \in ItemType(s) /\ IsKey(g, w.id, "info")
  BY <1>a DEF IsItem
<1>3. Fresh(m, w) = x
  <2>1. m.id = w.id /\ m.kind = "message" /\ m.result = FALSE /\ m.nested = "none"
    BY <1>a DEF IsItem
  <2>2. /\ x.id = w.id /\ x.kind = "message" /\ x.text = w.text /\ x.call = w.call
        /\ x.result = FALSE /\ x.nested = "none"
    BY <1>a DEF IsItem
  <2>3. /\ Fresh(m, w) \in ItemType(s)
        /\ Fresh(m, w).id = m.id /\ Fresh(m, w).kind = m.kind /\ Fresh(m, w).text = w.text
        /\ Fresh(m, w).call = w.call /\ Fresh(m, w).result = m.result /\ Fresh(m, w).nested = m.nested
    BY <1>2, FreshFacts
  <2> HIDE DEF ItemType
  <2>4. PICK y \in ItemType(s) : y = Fresh(m, w)
    BY <2>3
  <2>5. /\ y.id = x.id /\ y.kind = x.kind /\ y.text = x.text /\ y.call = x.call
        /\ y.result = x.result /\ y.nested = x.nested
    BY <2>1, <2>2, <2>3, <2>4, Zenon
  <2>6. y = x
    BY <1>2, <2>5, SameItem
  <2> QED
    BY <2>4, <2>6
<1>4. o.end => f = g
  BY <1>1 DEF View!Item, Steady
<1>5. PICK a1 \in BOOLEAN, a2 \in BOOLEAN, a3 \in BOOLEAN :
        a1 = View!ShouldRender(o) /\ a2 = (o.call # "none") /\ a3 = View!IsInfo(o)
  BY DEF View!ShouldRender, View!IsInfo
<1>6. PICK b1 \in BOOLEAN, b2 \in BOOLEAN, b3 \in BOOLEAN :
        b1 = View!ShouldRender(w) /\ b2 = (w.call # "none") /\ b3 = View!IsInfo(w)
  BY DEF View!ShouldRender, View!IsInfo
<1>7. /\ (a3 <=> o.end) /\ (b3 <=> w.end)
      /\ ~a1 => ~b1 /\ ~b3 /\ a2
      /\ ~b1 => ~b3 /\ b2
      /\ a3 => b3 /\ (a2 <=> b2)
      /\ ~b2 => ~a2
      /\ b2 /\ b3 => a2
  BY <1>5, <1>6 DEF Steady, View!ShouldRender, View!IsInfo, View!Write
<1> HIDE DEF ItemType
<1>8. PICK Y1 \in Seq(ItemType(s)) : Y1 = Opt(p, a1, m)
  BY <1>2, OptFacts
<1>9. PICK Y2 \in Seq(ItemType(s)) : Y2 = Opt(Y1, a2, c)
  BY OptFacts
<1>10. PICK Y \in Seq(ItemType(s)) : Y = Opt(Y2, a3, f)
  BY <1>2, OptFacts
<1>11. \A kind : ~View!Known(p, w.id, kind)
  BY StrangeFacts
<1>12. /\ View!Known(Y, w.id, "message") <=> a1
       /\ View!Known(Y, w.id, "call") <=> a2
       /\ View!Known(Y, w.id, "info") <=> a3
  <2>1. \A kind : View!Known(Y1, w.id, kind) <=> a1 /\ kind = "message"
    <3>1. \A id, kind : View!Known(Y1, id, kind) <=> View!Known(p, id, kind) \/ (a1 /\ IsKey(m, id, kind))
      BY <1>2, <1>8, OptFacts
    <3> QED
      BY <1>2, <1>11, <3>1 DEF IsKey
  <2>2. \A kind : View!Known(Y2, w.id, kind) <=> (a1 /\ kind = "message") \/ (a2 /\ kind = "call")
    <3>1. \A id, kind : View!Known(Y2, id, kind) <=> View!Known(Y1, id, kind) \/ (a2 /\ IsKey(c, id, kind))
      BY <1>9, OptFacts
    <3> QED
      BY <2>1, <3>1 DEF IsKey
  <2>3. \A id, kind : View!Known(Y, id, kind) <=> View!Known(Y2, id, kind) \/ (a3 /\ IsKey(f, id, kind))
    BY <1>2, <1>10, OptFacts
  <2> QED
    BY <1>2, <2>2, <2>3 DEF IsKey
<1>13. \A kind : Changed(p, w, kind) = p
  BY ChangedFacts
<1>14. Changed(Y, w, "message") = Opt(Opt(Opt(p, a1, x), a2, c), a3, f)
  <2>1. Changed(Y1, w, "message") = Opt(p, a1, x)
    <3>1. Changed(Y1, w, "message") =
            Opt(Changed(p, w, "message"), a1, IF IsKey(m, w.id, "message") THEN Fresh(m, w) ELSE m)
      <4>1. Changed(Opt(p, a1, m), w, "message") =
              Opt(Changed(p, w, "message"), a1, IF IsKey(m, w.id, "message") THEN Fresh(m, w) ELSE m)
        BY <1>2, ChangedOpt
      <4> QED
        BY <1>2, <1>8, <4>1, Zenon
    <3> QED
      BY <1>2, <1>3, <1>13, <3>1, Zenon
  <2>2. Changed(Y2, w, "message") = Opt(Opt(p, a1, x), a2, c)
    <3>1. Changed(Y2, w, "message") =
            Opt(Changed(Y1, w, "message"), a2, IF IsKey(c, w.id, "message") THEN Fresh(c, w) ELSE c)
      <4>1. Changed(Opt(Y1, a2, c), w, "message") =
              Opt(Changed(Y1, w, "message"), a2, IF IsKey(c, w.id, "message") THEN Fresh(c, w) ELSE c)
        BY <1>2, ChangedOpt
      <4> QED
        BY <1>9, <4>1, Zenon
    <3>2. ~IsKey(c, w.id, "message")
      BY DEF IsKey
    <3> QED
      BY <2>1, <3>1, <3>2, Zenon
  <2>3. Changed(Y, w, "message") =
          Opt(Changed(Y2, w, "message"), a3, IF IsKey(f, w.id, "message") THEN Fresh(f, w) ELSE f)
    <3>1. Changed(Opt(Y2, a3, f), w, "message") =
            Opt(Changed(Y2, w, "message"), a3, IF IsKey(f, w.id, "message") THEN Fresh(f, w) ELSE f)
      BY <1>2, ChangedOpt
    <3> QED
      BY <1>2, <1>10, <3>1, Zenon
  <2>4. ~IsKey(f, w.id, "message")
    BY <1>2 DEF IsKey
  <2> QED
    BY <2>2, <2>3, <2>4, Zenon
<1>15. Ended(Y, s, w) = Opt(Opt(Opt(p, b1, x), a2, c), b3, g)
  <2>1. View!InfoItem(s, w) = g
    BY <1>1 DEF View!InfoItem
  <2>2. CASE b1
    <3>1. a1
      BY <1>7, <2>2
    <3>2. Ended(Y, s, w) = IF b3 /\ ~a3 THEN Append(Changed(Y, w, "message"), g) ELSE Changed(Y, w, "message")
      BY <1>6, <1>12, <2>1, <2>2, Zenon DEF Ended
    <3>3. CASE a3
      <4>1. b3 /\ f = g
        BY <1>4, <1>7, <3>3
      <4> QED
        BY <1>14, <2>2, <3>1, <3>2, <3>3, <4>1
    <3>4. CASE ~a3
      <4>1. Changed(Y, w, "message") = Opt(Opt(p, b1, x), a2, c)
        BY <1>14, <2>2, <3>1, <3>4 DEF Opt
      <4> QED
        BY <3>2, <3>4, <4>1 DEF Opt
    <3> QED
      BY <3>3, <3>4
  <2>3. CASE ~b1
    <3>1. ~b3 /\ ~a3
      BY <1>7, <2>3
    <3>2. Changed(Y, w, "message") = Opt(Opt(p, a1, x), a2, c)
      BY <1>14, <3>1 DEF Opt
    <3>3. CASE a1
      <4>1. Ended(Y, s, w) =
              View!RemoveMessage(View!RemoveMessage(Changed(Y, w, "message"), w.id, "message"), w.id, "info")
        BY <1>6, <1>12, <2>3, <3>3, Zenon DEF Ended
      <4>2. View!RemoveMessage(Changed(Y, w, "message"), w.id, "message") = Opt(p, a2, c)
        <5>1. CASE a2
          <6>1. Changed(Y, w, "message") = Append(Append(p, x), c)
            BY <3>2, <3>3, <5>1 DEF Opt
          <6>2. ~IsKey(c, w.id, "message") /\ ~View!Known(p, w.id, "message")
            BY <1>11 DEF IsKey
          <6>3. View!RemoveMessage(Append(Append(p, x), c), w.id, "message") = Append(p, c)
            BY <1>2, <6>2, RemoveSecondLast
          <6> QED
            BY <5>1, <6>1, <6>3 DEF Opt
        <5>2. CASE ~a2
          <6>1. Changed(Y, w, "message") = Append(p, x)
            BY <3>2, <3>3, <5>2 DEF Opt
          <6>2. View!RemoveMessage(Append(p, x), w.id, "message") = p
            BY <1>2, <1>11, RemoveLast
          <6> QED
            BY <5>2, <6>1, <6>2 DEF Opt
        <5> QED
          BY <5>1, <5>2
      <4>3. ~View!Known(Opt(p, a2, c), w.id, "info")
        <5>1. \A id, kind : View!Known(Opt(p, a2, c), id, kind) <=>
                View!Known(p, id, kind) \/ (a2 /\ IsKey(c, id, kind))
          BY OptFacts
        <5> QED
          BY <1>11, <5>1 DEF IsKey
      <4>4. Ended(Y, s, w) = Opt(p, a2, c)
        BY <4>1, <4>2, <4>3, RemoveUnknown, Zenon
      <4> QED
        BY <2>3, <3>1, <4>4 DEF Opt
    <3>4. CASE ~a1
      <4>1. Ended(Y, s, w) = Changed(Y, w, "message")
        BY <1>6, <1>12, <2>3, <3>4, Zenon DEF Ended
      <4> QED
        BY <2>3, <3>1, <3>2, <3>4, <4>1 DEF Opt
    <3> QED
      BY <3>3, <3>4
  <2> QED
    BY <2>2, <2>3
<1>16. PICK E1 \in Seq(ItemType(s)) : E1 = Opt(p, b1, x)
  BY <1>2, OptFacts
<1>17. PICK E2 \in Seq(ItemType(s)) : E2 = Opt(E1, a2, c)
  BY OptFacts
<1>18. PICK E \in Seq(ItemType(s)) : E = Opt(E2, b3, g)
  BY <1>2, OptFacts
<1>19. Changed(E, w, "call") = Opt(Opt(Opt(p, b1, x), a2, d), b3, g)
  <2>1. Changed(E1, w, "call") = Opt(p, b1, x)
    <3>1. Changed(E1, w, "call") =
            Opt(Changed(p, w, "call"), b1, IF IsKey(x, w.id, "call") THEN Fresh(x, w) ELSE x)
      <4>1. Changed(Opt(p, b1, x), w, "call") =
              Opt(Changed(p, w, "call"), b1, IF IsKey(x, w.id, "call") THEN Fresh(x, w) ELSE x)
        BY <1>2, ChangedOpt
      <4> QED
        BY <1>2, <1>16, <4>1, Zenon
    <3>2. ~IsKey(x, w.id, "call")
      BY <1>2 DEF IsKey
    <3> QED
      BY <1>13, <3>1, <3>2, Zenon
  <2>2. Changed(E2, w, "call") = Opt(Opt(p, b1, x), a2, d)
    <3>1. Changed(E2, w, "call") =
            Opt(Changed(E1, w, "call"), a2, IF IsKey(c, w.id, "call") THEN Fresh(c, w) ELSE c)
      <4>1. Changed(Opt(E1, a2, c), w, "call") =
              Opt(Changed(E1, w, "call"), a2, IF IsKey(c, w.id, "call") THEN Fresh(c, w) ELSE c)
        BY <1>2, ChangedOpt
      <4> QED
        BY <1>17, <4>1, Zenon
    <3> QED
      BY <2>1, <3>1, Zenon
  <2>3. Changed(E, w, "call") =
          Opt(Changed(E2, w, "call"), b3, IF IsKey(g, w.id, "call") THEN Fresh(g, w) ELSE g)
    <3>1. Changed(Opt(E2, b3, g), w, "call") =
            Opt(Changed(E2, w, "call"), b3, IF IsKey(g, w.id, "call") THEN Fresh(g, w) ELSE g)
      BY <1>2, ChangedOpt
    <3> QED
      BY <1>2, <1>18, <3>1, Zenon
  <2>4. ~IsKey(g, w.id, "call")
    BY <1>2 DEF IsKey
  <2> QED
    BY <2>2, <2>3, <2>4, Zenon
<1>20. View!updateSessionMessage(Y, s, w) = Opt(Opt(Opt(p, b1, x), b2, d), b3, g)
  <2>1. View!updateSessionMessage(Y, s, w) =
          IF w.call = "none" THEN Ended(Y, s, w)
          ELSE IF View!Known(Y, w.id, "call") THEN Changed(Ended(Y, s, w), w, "call")
          ELSE Append(Ended(Y, s, w), View!Item(s, w.id, "call", w))
    BY UpdateIs
  <2>2. Ended(Y, s, w) = E
    BY <1>15, <1>16, <1>17, <1>18, Zenon
  <2>3. CASE ~b2
    <3>1. ~a2 /\ w.call = "none"
      BY <1>6, <1>7, <2>3
    <3> QED
      BY <1>15, <2>1, <2>3, <3>1 DEF Opt
  <2>4. CASE b2 /\ a2
    <3>1. w.call # "none" /\ View!Known(Y, w.id, "call")
      BY <1>6, <1>12, <2>4
    <3> QED
      BY <1>19, <2>1, <2>2, <2>4, <3>1
  <2>5. CASE b2 /\ ~a2
    <3>1. w.call # "none" /\ ~View!Known(Y, w.id, "call") /\ ~b3 /\ o.call = "none"
      BY <1>5, <1>6, <1>7, <1>12, <2>5
    <3>2. View!updateSessionMessage(Y, s, w) = Append(Ended(Y, s, w), d)
      BY <2>1, <3>1
    <3>3. Ended(Y, s, w) = Opt(p, b1, x)
      BY <1>15, <2>5, <3>1 DEF Opt
    <3> QED
      BY <2>5, <3>1, <3>2, <3>3 DEF Opt
  <2> QED
    BY <2>3, <2>4, <2>5
<1> QED
  BY <1>1, <1>5, <1>6, <1>8, <1>9, <1>10, <1>20, Zenon

-----------------------------------------------------------------------------
(* Results and nested calls in the chat *)

\* What a write does to the calls that are shown.
Relinked(y, w) ==
  IF y.id # w.of \/ y.kind # "call" THEN y
  ELSE IF w.role = "tool" THEN [y EXCEPT !.result = TRUE]
  ELSE IF w.role = "child" THEN
    IF w.call = "none" THEN y ELSE [y EXCEPT !.nested = IF @ = "answered" THEN @ ELSE w.call]
  ELSE IF w.role = "childTool" THEN [y EXCEPT !.nested = IF @ = "none" THEN @ ELSE "answered"]
  ELSE y

\* It changes the result and the nested call, and nothing else.
LEMMA RelinkedFacts ==
  ASSUME NEW s, NEW y \in ItemType(s), NEW w \in View!Write
  PROVE  /\ Relinked(y, w) \in ItemType(s)
         /\ Relinked(y, w).id = y.id /\ Relinked(y, w).kind = y.kind /\ Relinked(y, w).s = y.s
         /\ Relinked(y, w).text = y.text /\ Relinked(y, w).call = y.call
         /\ Relinked(y, w).result =
              IF y.id = w.of /\ y.kind = "call" /\ w.role = "tool" THEN TRUE ELSE y.result
         /\ Relinked(y, w).nested =
              IF y.id # w.of \/ y.kind # "call" THEN y.nested
              ELSE IF w.role = "child" /\ w.call # "none" /\ y.nested # "answered" THEN w.call
              ELSE IF w.role = "childTool" /\ y.nested # "none" THEN "answered"
              ELSE y.nested
<1>1. PICK z : z = Relinked(y, w)
  OBVIOUS
<1>2. w.call \in {"none", "open", "done"}
  BY DEF View!Write
<1>3. CASE y.id # w.of \/ y.kind # "call"
  <2>1. z = y
    BY <1>1, <1>3 DEF Relinked
  <2> QED
    BY <1>1, <1>3, <2>1
<1>4. CASE y.id = w.of /\ y.kind = "call" /\ w.role = "tool"
  <2>1. z = [y EXCEPT !.result = TRUE]
    BY <1>1, <1>4 DEF Relinked
  <2>2. z \in ItemType(s)
    BY <2>1 DEF ItemType
  <2>3. /\ z.id = y.id /\ z.kind = y.kind /\ z.s = y.s /\ z.text = y.text /\ z.call = y.call
        /\ z.result = TRUE /\ z.nested = y.nested
    BY <2>1 DEF ItemType
  <2> QED
    BY <1>1, <1>4, <2>2, <2>3, Zenon
<1>5. CASE y.id = w.of /\ y.kind = "call" /\ w.role = "child"
  <2>1. CASE w.call = "none"
    <3>1. z = y
      BY <1>1, <1>5, <2>1 DEF Relinked
    <3> QED
      BY <1>1, <1>5, <2>1, <3>1
  <2>2. CASE w.call # "none"
    <3>1. z = [y EXCEPT !.nested = IF y.nested = "answered" THEN y.nested ELSE w.call]
      BY <1>1, <1>5, <2>2 DEF Relinked, ItemType
    <3> QED
      BY <1>1, <1>2, <1>5, <2>2, <3>1 DEF ItemType
  <2> QED
    BY <2>1, <2>2
<1>6. CASE y.id = w.of /\ y.kind = "call" /\ w.role = "childTool"
  <2>1. z = [y EXCEPT !.nested = IF y.nested = "none" THEN y.nested ELSE "answered"]
    BY <1>1, <1>6 DEF Relinked, ItemType
  <2> QED
    BY <1>1, <1>6, <2>1 DEF ItemType
<1>7. CASE w.role \notin {"tool", "child", "childTool"}
  <2>1. z = y
    BY <1>1, <1>7 DEF Relinked
  <2> QED
    BY <1>1, <1>7, <2>1
<1> QED
  BY <1>3, <1>4, <1>5, <1>6, <1>7

\* The link after the next write is the one before it, changed by that write.
LEMMA LinkedStep ==
  ASSUME NEW s, NEW x \in ItemType(s), NEW n \in Nat, NEW m \in 1..Length, m = n + 1
  PROVE  View!Linked(x, m) = Relinked(View!Linked(x, n), Script[m])
<1>0. n \in 0..Length /\ m \in 0..Length /\ m \in Nat
  BY ScriptType
<1>w. PICK w : w = Script[m] /\ w \in View!Write
  BY ScriptType
<1>1. PICK y \in ItemType(s) :
        /\ y = View!Linked(x, n) /\ y.id = x.id /\ y.kind = x.kind /\ y.s = x.s
        /\ y.text = x.text /\ y.call = x.call /\ (x.kind # "call" => y = x)
        /\ (x.kind = "call" => y.result = View!Has("tool", x.id, n) /\ y.nested = View!Nested(x.id, n))
  BY <1>0, LinkedFacts
<1>2. PICK z \in ItemType(s) :
        /\ z = View!Linked(x, m) /\ z.id = x.id /\ z.kind = x.kind /\ z.s = x.s
        /\ z.text = x.text /\ z.call = x.call /\ (x.kind # "call" => z = x)
        /\ (x.kind = "call" => z.result = View!Has("tool", x.id, m) /\ z.nested = View!Nested(x.id, m))
  BY <1>0, LinkedFacts
<1>3. PICK r \in ItemType(s) :
         /\ r = Relinked(y, w) /\ r.id = y.id /\ r.kind = y.kind
         /\ r.text = y.text /\ r.call = y.call
         /\ r.result = IF y.id = w.of /\ y.kind = "call" /\ w.role = "tool" THEN TRUE ELSE y.result
         /\ r.nested =
              IF y.id # w.of \/ y.kind # "call" THEN y.nested
              ELSE IF w.role = "child" /\ w.call # "none" /\ y.nested # "answered" THEN w.call
              ELSE IF w.role = "childTool" /\ y.nested # "none" THEN "answered"
              ELSE y.nested
  BY <1>w, RelinkedFacts
<1>4. CASE x.kind # "call"
  <2>1. r = y
    BY <1>1, <1>3, <1>4 DEF Relinked
  <2> QED
    BY <1>1, <1>2, <1>3, <1>4, <1>w, <2>1
<1>5. CASE x.kind = "call"
  <2>1. View!Has("tool", x.id, m) = (IF x.id = w.of /\ w.role = "tool" THEN TRUE ELSE View!Has("tool", x.id, n))
    <3>1. View!Has("tool", x.id, m) <=> View!Has("tool", x.id, n) \/ (w.role = "tool" /\ w.of = x.id)
      BY <1>0, <1>w, HasStep
    <3>2. View!Has("tool", x.id, m) \in BOOLEAN /\ View!Has("tool", x.id, n) \in BOOLEAN
      BY DEF View!Has
    <3> QED
      BY <3>1, <3>2
  <2>2. z.result = r.result
    BY <1>1, <1>2, <1>3, <1>5, <2>1
  <2>3. /\ w.role \notin {"child", "childTool"} \/ w.of # x.id => View!Nested(x.id, m) = View!Nested(x.id, n)
        /\ w.role = "child" /\ w.call = "none" => View!Nested(x.id, m) = View!Nested(x.id, n)
        /\ w.role = "child" /\ w.call # "none" /\ w.of = x.id =>
             View!Nested(x.id, m) = IF View!Nested(x.id, n) = "answered" THEN "answered" ELSE w.call
        /\ w.role = "childTool" /\ w.of = x.id =>
             View!Nested(x.id, n) # "none" /\ View!Nested(x.id, m) = "answered"
    BY <1>0, <1>w, NestedStep
  <2>4. z.nested = r.nested
    <3>1. PICK a, b : a = View!Nested(x.id, n) /\ b = View!Nested(x.id, m)
      OBVIOUS
    <3>2. y.nested = a /\ z.nested = b /\ y.kind = "call" /\ y.id = x.id
      BY <1>1, <1>2, <1>5, <3>1
    <3>3. r.nested =
            IF x.id # w.of THEN a
            ELSE IF w.role = "child" /\ w.call # "none" /\ a # "answered" THEN w.call
            ELSE IF w.role = "childTool" /\ a # "none" THEN "answered"
            ELSE a
      BY <1>3, <3>2
    <3>4. /\ w.role \notin {"child", "childTool"} \/ w.of # x.id => b = a
          /\ w.role = "child" /\ w.call = "none" => b = a
          /\ w.role = "child" /\ w.call # "none" /\ w.of = x.id => b = IF a = "answered" THEN "answered" ELSE w.call
          /\ w.role = "childTool" /\ w.of = x.id => a # "none" /\ b = "answered"
      BY <2>3, <3>1, Zenon
    <3> QED
      BY <3>2, <3>3, <3>4
  <2>5. z = r
    <3>1. z.id = r.id /\ z.kind = r.kind /\ z.text = r.text /\ z.call = r.call
      BY <1>1, <1>2, <1>3
    <3> QED
      BY <2>2, <2>4, <3>1, SameItem
  <2> QED
    BY <1>1, <1>2, <1>3, <1>w, <2>5
<1> QED
  BY <1>4, <1>5

\* What Handle does with a write that is no prompt's nor answer's.
LEMMA HandleOther ==
  ASSUME NEW S, NEW Y \in Seq(S), NEW s, NEW w, w.role \in {"tool", "child", "childTool"},
         w.role = "tool" => w.type = "created" /\ ~View!Known(Y, w.id, "message")
  PROVE  View!Handle(Y, s, w) = [i \in DOMAIN Y |-> Relinked(Y[i], w)]
<1>1. CASE w.role = "tool"
  <2>1. View!Handle(Y, s, w) = View!SetResult(Y, w.of)
    BY <1>1 DEF View!Handle, View!appendSessionMessage
  <2>2. View!SetResult(Y, w.of) =
          [i \in DOMAIN Y |-> IF Y[i].id = w.of /\ Y[i].kind = "call"
                              THEN [Y[i] EXCEPT !.result = TRUE] ELSE Y[i]]
    BY Zenon DEF View!SetResult, View!OnCall
  <2>3. \A i \in DOMAIN Y : Relinked(Y[i], w) =
          IF Y[i].id = w.of /\ Y[i].kind = "call" THEN [Y[i] EXCEPT !.result = TRUE] ELSE Y[i]
    BY <1>1 DEF Relinked
  <2> QED
    BY <2>1, <2>2, <2>3
<1>2. CASE w.role = "child" /\ w.call = "none"
  <2>1. View!Handle(Y, s, w) = Y
    BY <1>2 DEF View!Handle, View!handleChildSessionMessage
  <2>2. \A i \in DOMAIN Y : Relinked(Y[i], w) = Y[i]
    BY <1>2 DEF Relinked
  <2>3. Y = [i \in DOMAIN Y |-> Y[i]]
    OBVIOUS
  <2> QED
    BY <2>1, <2>2, <2>3
<1>3. CASE w.role = "child" /\ w.call # "none"
  <2>1. View!Handle(Y, s, w) = View!SetNested(Y, w.of, w.call)
    BY <1>3 DEF View!Handle, View!handleChildSessionMessage
  <2>2. View!SetNested(Y, w.of, w.call) =
          [i \in DOMAIN Y |-> IF Y[i].id = w.of /\ Y[i].kind = "call"
                              THEN [Y[i] EXCEPT !.nested = IF @ = "answered" THEN @ ELSE w.call] ELSE Y[i]]
    BY Zenon DEF View!SetNested, View!OnCall
  <2>3. \A i \in DOMAIN Y : Relinked(Y[i], w) =
          IF Y[i].id = w.of /\ Y[i].kind = "call"
          THEN [Y[i] EXCEPT !.nested = IF @ = "answered" THEN @ ELSE w.call] ELSE Y[i]
    BY <1>3 DEF Relinked
  <2> QED
    BY <2>1, <2>2, <2>3
<1>4. CASE w.role = "childTool"
  <2>1. View!Handle(Y, s, w) =
          [i \in DOMAIN Y |-> IF Y[i].id = w.of /\ Y[i].kind = "call"
                              THEN [Y[i] EXCEPT !.nested = IF @ = "none" THEN @ ELSE "answered"] ELSE Y[i]]
    <3>1. View!Handle(Y, s, w) = View!handleChildSessionMessage(Y, w)
      BY <1>4 DEF View!Handle
    <3>2. w.role # "child"
      BY <1>4
    <3> QED
      BY <3>1, <3>2, Zenon DEF View!handleChildSessionMessage, View!OnCall
  <2>2. \A i \in DOMAIN Y : Relinked(Y[i], w) =
          IF Y[i].id = w.of /\ Y[i].kind = "call"
          THEN [Y[i] EXCEPT !.nested = IF @ = "none" THEN @ ELSE "answered"] ELSE Y[i]
    BY <1>4 DEF Relinked
  <2> QED
    BY <2>1, <2>2
<1> QED
  BY <1>1, <1>2, <1>3, <1>4

-----------------------------------------------------------------------------
(* An answer and its next version *)

\* After n writes message id shows an item of a kind.
Shown(id, kind, n) ==
  Written(id, n) /\ Own(View!Latest(id, n)) /\ Shows(kind, View!Latest(id, n))

\* The chat knows the items that are shown.
LEMMA KnownItems ==
  ASSUME NEW s, NEW n \in 0..Length, NEW id, NEW kind
  PROVE  View!Known(MessageItems(s, n), id, kind) <=> Shown(id, kind, n)
<1>1. \A x : In(MessageItems(s, n), x) <=> ItemOf(s, n, x)
  BY ItemsFitAlways DEF ItemsFit
<1>2. ASSUME View!Known(MessageItems(s, n), id, kind) PROVE Shown(id, kind, n)
  <2>1. PICK i \in DOMAIN MessageItems(s, n) : MessageItems(s, n)[i].id = id /\ MessageItems(s, n)[i].kind = kind
    BY <1>2 DEF View!Known
  <2>2. PICK x : x = MessageItems(s, n)[i]
    OBVIOUS
  <2>3. In(MessageItems(s, n), x)
    BY <2>2 DEF In
  <2>4. ItemOf(s, n, x) /\ x.id = id /\ x.kind = kind
    BY <1>1, <2>1, <2>2, <2>3, Zenon
  <2> QED
    BY <2>4, Zenon DEF ItemOf, Shown
<1>3. ASSUME Shown(id, kind, n) PROVE View!Known(MessageItems(s, n), id, kind)
  <2>1. PICK x : x = View!Item(s, id, kind, View!Latest(id, n))
    OBVIOUS
  <2>2. x.id = id /\ x.kind = kind
    BY <2>1 DEF View!Item
  <2>3. ItemOf(s, n, x)
    BY <1>3, <2>1, <2>2, Zenon DEF ItemOf, Shown
  <2>4. PICK i \in DOMAIN MessageItems(s, n) : MessageItems(s, n)[i] = x
    BY <1>1, <2>3, Zenon DEF In
  <2> QED
    BY <2>2, <2>4, Zenon DEF View!Known
<1> QED
  BY <1>2, <1>3

\* Nothing answers or nests in a call that is not written.
LEMMA NoCallYet ==
  ASSUME NEW n \in 0..Length, NEW id, \A j \in 1..n : Script[j].id = id => Script[j].call = "none"
  PROVE  ~View!Has("tool", id, n) /\ View!Nested(id, n) = "none"
<1>0. n \in Nat
  BY ScriptType
<1>1. ASSUME NEW k \in 1..n, Script[k].role \in {"tool", "child"}, Script[k].of = id PROVE FALSE
  <2>1. k \in 1..Length
    BY <1>0, ScriptType
  <2>2. View!CallBefore(k, id)
    BY <1>1, <2>1, ScriptType DEF View!IsWrite
  <2>3. PICK j \in 1..(k - 1) : Script[j].id = id /\ Script[j].call # "none"
    BY <2>2 DEF View!CallBefore, View!Before
  <2>4. j \in 1..n
    BY <1>0
  <2> QED
    BY <2>3, <2>4
<1>2. ~View!Has("tool", id, n)
  BY <1>1 DEF View!Has
<1>3. Calls(id, n) = {}
  BY <1>1 DEF Calls
<1> QED
  BY <1>2, <1>3, NestedIs

\* What the writes of an answer say of the version before.
LEMMA AnswerBefore ==
  ASSUME NEW n \in Nat, NEW m \in 1..Length, m = n + 1,
         Script[m].role = "assistant", Script[m].type = "updated"
  PROVE  LET w == Script[m]
             o == View!Latest(w.id, n)
         IN  /\ Written(w.id, n) /\ o \in View!Write /\ o.id = w.id /\ o.role = "assistant"
             /\ w.call = "none" => o.call = "none"
             /\ w.call # "none" /\ w.end => o.call # "none"
             /\ o.call = "none" => \A j \in 1..n : Script[j].id = w.id => Script[j].call = "none"
             /\ \E i \in View!Before(m, w.id) : o = Script[i]
<1>0. n \in 0..Length /\ m \in 0..Length /\ m \in Nat /\ m - 1 = n
  BY ScriptType
<1>w. PICK w : w = Script[m]
  OBVIOUS
<1>1. Written(w.id, n)
  BY <1>w, ItemsChange DEF Own
<1>2. PICK i \in 1..n : IsLast(i, w.id, n) /\ View!Latest(w.id, n) = Script[i] /\ Script[i].id = w.id
  BY <1>0, <1>1, LatestIsWrite
<1>3. i \in 1..Length /\ Script[i] \in View!Write /\ View!IsWrite(i) /\ View!IsWrite(m)
  BY <1>0, ScriptType
<1>4. i \in View!Before(m, w.id)
  BY <1>0, <1>2 DEF View!Before
<1>5. \A j \in 1..n : Script[j].id = w.id => Script[j].role = "assistant"
  <2>1. ASSUME NEW j \in 1..n, Script[j].id = w.id PROVE Script[j].role = "assistant"
    <3>1. j \in 1..Length
      BY <1>0, ScriptType
    <3> QED
      BY <1>w, <2>1, <3>1, OneRole
  <2> QED
    BY <2>1
<1>6. Script[i].role = "assistant"
  BY <1>2, <1>5
<1>7. ASSUME Script[i].call = "none", NEW j \in 1..n, Script[j].id = w.id PROVE Script[j].call = "none"
  <2>1. j \in 1..i
    BY <1>0, <1>2, <1>7 DEF IsLast
  <2>2. CASE j = i
    BY <1>7, <2>2
  <2>3. CASE j # i
    <3>1. j \in View!Before(i, w.id)
      BY <1>7, <2>1, <2>3 DEF View!Before
    <3>2. ~View!CallBefore(i, w.id)
      BY <1>2, <1>3, <1>6, <1>7 DEF View!IsWrite
    <3>3. Script[j].role = "assistant"
      BY <1>5, <1>7
    <3> QED
      BY <3>1, <3>2, <3>3 DEF View!CallBefore
  <2> QED
    BY <2>2, <2>3
<1>8. w.call = "none" => Script[i].call = "none"
  <2>1. w.call = "none" => ~View!CallBefore(m, w.id)
    BY <1>3, <1>w DEF View!IsWrite
  <2> QED
    BY <1>4, <1>6, <2>1 DEF View!CallBefore
<1>9. ASSUME w.call # "none", w.end, Script[i].call = "none" PROVE FALSE
  <2>1. View!CallBefore(m, w.id)
    BY <1>3, <1>9, <1>w DEF View!IsWrite
  <2>2. PICK j \in 1..(m - 1) : Script[j].id = w.id /\ Script[j].call # "none"
    BY <2>1 DEF View!CallBefore, View!Before
  <2>3. j \in 1..n
    BY <1>0
  <2> QED
    BY <1>7, <1>9, <2>2, <2>3
<1>10. PICK o : o = View!Latest(w.id, n) /\ o = Script[i]
  BY <1>2
<1>11. /\ Written(w.id, n) /\ o \in View!Write /\ o.id = w.id /\ o.role = "assistant"
       /\ w.call = "none" => o.call = "none"
       /\ w.call # "none" /\ w.end => o.call # "none"
       /\ o.call = "none" => \A j \in 1..n : Script[j].id = w.id => Script[j].call = "none"
       /\ \E e \in View!Before(m, w.id) : o = Script[e]
  BY <1>1, <1>2, <1>3, <1>4, <1>6, <1>7, <1>8, <1>9, <1>10
<1> QED
  BY <1>w, <1>10, <1>11, Zenon

\* The next version of an answer that is not unsteady is steady.
LEMMA SteadyStep ==
  ASSUME NEW n \in Nat, NEW m \in 1..Length, m = n + 1,
         Script[m].role = "assistant", Script[m].type = "updated", ~View!Unsteady(m)
  PROVE  Steady(View!Latest(Script[m].id, n), Script[m])
<1>0. m \in 1..m
  BY ScriptType
<1>w. PICK w, o : w = Script[m] /\ o = View!Latest(w.id, n)
  OBVIOUS
<1>1. /\ w.call = "none" => o.call = "none"
      /\ w.call # "none" /\ w.end => o.call # "none"
      /\ \E i \in View!Before(m, w.id) : o = Script[i]
  BY <1>w, AnswerBefore
<1>2. ASSUME NEW i \in View!Before(m, w.id) \cup {m}
      PROVE  /\ ~(~View!ShouldRender(Script[i]) /\ (View!ShouldRender(w) \/ w.end))
             /\ ~(Script[i].end /\ (~w.end \/ w.text # Script[i].text \/ w.call # Script[i].call))
  BY <1>0, <1>w DEF View!Unsteady
<1>3. /\ ~(~View!ShouldRender(o) /\ (View!ShouldRender(w) \/ w.end))
      /\ ~(o.end /\ (~w.end \/ w.text # o.text \/ w.call # o.call))
  BY <1>1, <1>2
<1>4. ~(~View!ShouldRender(w) /\ (View!ShouldRender(w) \/ w.end))
  BY <1>2, <1>w
<1>5. Steady(o, w)
  BY <1>1, <1>3, <1>4 DEF Steady
<1> QED
  BY <1>5, <1>w

-----------------------------------------------------------------------------
(* A load and the next write *)

\* A message that is new, or no prompt nor answer, has no item yet.
LEMMA NotShown ==
  ASSUME NEW n \in Nat, NEW m \in 1..Length, m = n + 1, NEW s,
         ~Own(Script[m]) \/ Script[m].type = "created"
  PROVE  \A kind : ~View!Known(View!setSessionMessages(s, n), Script[m].id, kind)
<1>0. n \in 0..Length /\ m \in 0..Length /\ m \in Nat
  BY ScriptType
<1>w. PICK w : w = Script[m]
  OBVIOUS
<1>1. ASSUME NEW kind, Shown(w.id, kind, n) PROVE FALSE
  <2>1. Written(w.id, n) /\ Own(View!Latest(w.id, n))
    BY <1>1 DEF Shown
  <2>2. CASE Own(w) /\ w.type = "created"
    BY <1>w, <2>1, <2>2, ItemOfStep
  <2>3. CASE ~Own(w)
    <3>1. PICK i \in 1..n : View!Latest(w.id, n) = Script[i] /\ Script[i].id = w.id
      BY <1>0, <2>1, LatestIsWrite
    <3>2. i \in 1..Length
      BY <1>0, ScriptType
    <3>3. Script[i].role = Script[m].role
      BY <1>w, <3>1, <3>2, OneRole
    <3> QED
      BY <1>w, <2>1, <2>3, <3>1, <3>3 DEF Own
  <2> QED
    BY <1>w, <2>2, <2>3
<1>2. ASSUME NEW kind PROVE ~View!Known(View!setSessionMessages(s, n), w.id, kind)
  <2>1. ~View!Known(MessageItems(s, n), w.id, kind)
    BY <1>0, <1>1, KnownItems
  <2>2. MessageItems(s, n) \in Seq(ItemType(s))
    BY <1>0, ItemsType
  <2>3. View!Known(Links(MessageItems(s, n), n), w.id, kind) <=> View!Known(MessageItems(s, n), w.id, kind)
    BY <1>0, <2>2, LinksFacts
  <2>4. View!setSessionMessages(s, n) = Links(MessageItems(s, n), n)
    BY <1>0, SetIs
  <2> QED
    BY <2>1, <2>3, <2>4, Zenon
<1> QED
  BY <1>w, <1>2

\* A prompt or an answer changes no links.
LEMMA LinksOwn ==
  ASSUME NEW n \in Nat, NEW m \in 1..Length, m = n + 1, Own(Script[m]), NEW s
  PROVE  /\ \A x \in ItemType(s) : View!Linked(x, m) = View!Linked(x, n)
         /\ \A Y \in Seq(ItemType(s)) : Links(Y, m) = Links(Y, n)
<1>1. ASSUME NEW x \in ItemType(s) PROVE View!Linked(x, m) = View!Linked(x, n)
  <2>1. View!Linked(x, m) = Relinked(View!Linked(x, n), Script[m])
    BY LinkedStep
  <2>2. \A y : Relinked(y, Script[m]) = y
    BY DEF Relinked, Own
  <2> QED
    BY <2>1, <2>2, Zenon
<1>2. ASSUME NEW Y \in Seq(ItemType(s)) PROVE Links(Y, m) = Links(Y, n)
  <2>1. \A i \in DOMAIN Y : Y[i] \in ItemType(s)
    <3> HIDE DEF ItemType
    <3> QED
      OBVIOUS
  <2>2. \A i \in DOMAIN Y : View!Linked(Y[i], m) = View!Linked(Y[i], n)
    BY <1>1, <2>1, Zenon
  <2> QED
    BY <2>2 DEF Links
<1> QED
  BY <1>1, <1>2

\* The updated answer is the last, and its items are its own.
LEMMA ItemsUpdate ==
  ASSUME NEW s, NEW n \in Nat, NEW m \in 1..Length, m = n + 1,
         Own(Script[m]), Script[m].type = "updated"
  PROVE  \E P \in Seq(ItemType(s)) :
           /\ Strange(P, Script[m].id)
           /\ MessageItems(s, n) = P \o View!AllItems(s, View!Latest(Script[m].id, n))
           /\ MessageItems(s, m) = P \o View!AllItems(s, Script[m])
<1>0. n \in 0..Length /\ m \in 0..Length /\ m \in Nat /\ m - 1 = n
  BY ScriptType
<1>w. PICK w, o : w = Script[m] /\ o = View!Latest(w.id, n)
  OBVIOUS
<1>1. w.role = "assistant"
  BY <1>w, ScriptType DEF View!IsWrite, Own
<1>2. Written(w.id, n) /\ o \in View!Write /\ o.id = w.id /\ o.role = "assistant"
  BY <1>1, <1>w, AnswerBefore
<1>3. PICK P \in Seq(ItemType(s)) :
        MessageItems(s, n) = P \o View!AllItems(s, o) /\ MessageItems(s, m) = P \o View!AllItems(s, w)
  BY <1>w, ItemsChange
<1>4. PICK A \in Seq(ItemType(s)) : A = View!AllItems(s, o)
  BY <1>2, AllItemsType
<1>5. \A x : In(A, x) <=> Shows(x.kind, o) /\ x = View!Item(s, o.id, x.kind, o)
  <2>1. Own(o) /\ (o.role = "user" => o.call = "none" /\ ~o.end)
    BY <1>2 DEF Own
  <2> QED
    BY <1>4, <2>1, AllItemsHave
<1>6. /\ \A x : In(MessageItems(s, n), x) <=> In(P, x) \/ In(A, x)
      /\ NoneTwice(MessageItems(s, n)) <=>
           NoneTwice(P) /\ NoneTwice(A) /\ \A x, y : In(P, x) /\ In(A, y) => ~SameKey(x, y)
  BY <1>3, <1>4, ConcatFacts
<1>7. NoneTwice(MessageItems(s, n)) /\ \A x : In(MessageItems(s, n), x) <=> ItemOf(s, n, x)
  BY <1>0, ItemsFitAlways DEF ItemsFit
<1>8. ASSUME NEW x, In(P, x) PROVE x.id # w.id
  <2> SUFFICES ASSUME x.id = w.id PROVE FALSE
    OBVIOUS
  <2>1. ItemOf(s, n, x)
    BY <1>6, <1>7, <1>8, Zenon
  <2>2. Shows(x.kind, o) /\ x = View!Item(s, o.id, x.kind, o)
    BY <1>2, <1>w, <2>1, Zenon DEF ItemOf
  <2>3. In(A, x)
    BY <1>5, <2>2, Zenon
  <2>4. SameKey(x, x)
    BY DEF SameKey
  <2> QED
    BY <1>6, <1>7, <1>8, <2>3, <2>4, Zenon
<1>9. Strange(P, w.id)
  BY <1>8, Zenon DEF Strange, In
<1> QED
  BY <1>3, <1>9, <1>w

\* An item of a message is one of the session.
LEMMA ItemIs ==
  ASSUME NEW s, NEW w \in View!Write, NEW kind \in {"message", "call", "info"}
  PROVE  \E x \in ItemType(s) : x = View!Item(s, w.id, kind, w) /\ IsItem(x, s, w, kind)
<1>1. PICK x : x = View!Item(s, w.id, kind, w)
  OBVIOUS
<1>2. IsItem(x, s, w, kind)
  BY <1>1, ItemKeys
<1>3. x \in ItemType(s)
  BY <1>2 DEF IsItem
<1> QED
  BY <1>1, <1>2, <1>3

\* The link of an updated call is the link of the call with the new text.
LEMMA FreshLink ==
  ASSUME NEW s, NEW n \in 0..Length, NEW o \in View!Write, NEW w \in View!Write, o.id = w.id
  PROVE  /\ View!Linked(View!Item(s, o.id, "call", o), n) \in ItemType(s)
         /\ View!Linked(View!Item(s, w.id, "call", w), n) \in ItemType(s)
         /\ IsKey(View!Linked(View!Item(s, o.id, "call", o), n), w.id, "call")
         /\ Fresh(View!Linked(View!Item(s, o.id, "call", o), n), w) =
              View!Linked(View!Item(s, w.id, "call", w), n)
<1>1. PICK a \in ItemType(s) : a = View!Item(s, o.id, "call", o) /\ IsItem(a, s, o, "call")
  BY ItemIs
<1>2. PICK b \in ItemType(s) : b = View!Item(s, w.id, "call", w) /\ IsItem(b, s, w, "call")
  BY ItemIs
<1>3. PICK c \in ItemType(s) :
        /\ c = View!Linked(a, n) /\ c.id = a.id /\ c.kind = a.kind
        /\ c.result = View!Has("tool", a.id, n) /\ c.nested = View!Nested(a.id, n)
  <2>1. a.kind = "call"
    BY <1>1 DEF IsItem
  <2> QED
    BY <2>1, LinkedFacts
<1>4. PICK d \in ItemType(s) :
        /\ d = View!Linked(b, n) /\ d.id = b.id /\ d.kind = b.kind /\ d.text = b.text /\ d.call = b.call
        /\ d.result = View!Has("tool", b.id, n) /\ d.nested = View!Nested(b.id, n)
  <2>1. b.kind = "call"
    BY <1>2 DEF IsItem
  <2> QED
    BY <2>1, LinkedFacts
<1>5. PICK e \in ItemType(s) :
        /\ e = Fresh(c, w) /\ e.id = c.id /\ e.kind = c.kind
        /\ e.result = c.result /\ e.nested = c.nested /\ e.text = w.text /\ e.call = w.call
  BY FreshFacts
<1>6. a.id = w.id /\ b.id = w.id /\ a.kind = "call" /\ b.kind = "call" /\ b.text = w.text /\ b.call = w.call
  BY <1>1, <1>2 DEF IsItem
<1>7. e = d
  <2>1. /\ e.id = d.id /\ e.kind = d.kind /\ e.text = d.text /\ e.call = d.call
        /\ e.result = d.result /\ e.nested = d.nested
    BY <1>3, <1>4, <1>5, <1>6
  <2> QED
    BY <2>1, SameItem
<1>8. IsKey(c, w.id, "call")
  BY <1>3, <1>6 DEF IsKey
<1> QED
  BY <1>1, <1>2, <1>3, <1>4, <1>5, <1>7, <1>8

\* A result, or a message of an agent tool's session, changes the links.
LEMMA SetStepOther ==
  ASSUME NEW s, NEW n \in Nat, NEW m \in 1..Length, m = n + 1, ~Own(Script[m])
  PROVE  /\ View!Handle(View!setSessionMessages(s, n), s, Script[m]) = View!setSessionMessages(s, m)
         /\ MessageItems(s, m) = MessageItems(s, n)
<1>0. n \in 0..Length /\ m \in 0..Length /\ m \in Nat
  BY ScriptType
<1>w. PICK w : w = Script[m]
  OBVIOUS
<1>u. w \in View!Write /\ View!IsWrite(m)
  BY <1>w, ScriptType
<1>1. w.role \in {"tool", "child", "childTool"} /\ (w.role = "tool" => w.type = "created")
  BY <1>u, <1>w DEF View!IsWrite, View!Write, Own
<1>2. PICK I \in Seq(ItemType(s)) : I = MessageItems(s, n)
  BY <1>0, ItemsType
<1>3. MessageItems(s, m) = I
  <2>1. MessageItems(s, m) = I \o <<>>
    BY <1>2, ItemsGrow
  <2> QED
    BY <2>1, ConcatEmptySeq
<1>4. PICK Y \in Seq(ItemType(s)) :
        /\ Y = View!setSessionMessages(s, n) /\ DOMAIN Y = DOMAIN I
        /\ \A i \in DOMAIN I : Y[i] = View!Linked(I[i], n)
  <2>1. View!setSessionMessages(s, n) = Links(I, n)
    BY <1>0, <1>2, SetIs
  <2>2. /\ Links(I, n) \in Seq(ItemType(s)) /\ DOMAIN Links(I, n) = DOMAIN I
        /\ \A i \in DOMAIN I : Links(I, n)[i] = View!Linked(I[i], n)
    BY <1>0, LinksFacts
  <2> QED
    BY <2>1, <2>2
<1>5. View!setSessionMessages(s, m) = [i \in DOMAIN I |-> View!Linked(I[i], m)]
  <2>1. View!setSessionMessages(s, m) = Links(I, m)
    BY <1>0, <1>3, SetIs
  <2> QED
    BY <2>1 DEF Links
<1>6. View!Handle(Y, s, w) = [i \in DOMAIN Y |-> Relinked(Y[i], w)]
  <2>1. ~View!Known(Y, w.id, "message")
    BY <1>4, <1>w, NotShown
  <2> QED
    BY <1>1, <2>1, HandleOther
<1>7. \A i \in DOMAIN I : View!Linked(I[i], m) = Relinked(View!Linked(I[i], n), w)
  <2>1. \A i \in DOMAIN I : I[i] \in ItemType(s)
    <3> HIDE DEF ItemType
    <3> QED
      OBVIOUS
  <2>2. \A x \in ItemType(s) : View!Linked(x, m) = Relinked(View!Linked(x, n), Script[m])
    BY LinkedStep
  <2> QED
    BY <1>w, <2>1, <2>2, Zenon
<1>8. [i \in DOMAIN Y |-> Relinked(Y[i], w)] = [i \in DOMAIN I |-> View!Linked(I[i], m)]
  BY <1>4, <1>7
<1> QED
  BY <1>2, <1>3, <1>4, <1>5, <1>6, <1>8, <1>w, Zenon

\* A prompt or a new answer is appended.
LEMMA SetStepCreated ==
  ASSUME NEW s, NEW n \in Nat, NEW m \in 1..Length, m = n + 1,
         Own(Script[m]), Script[m].type = "created"
  PROVE  LET z == View!Item(s, Script[m].id, "message", Script[m])
         IN  /\ z \in ItemType(s) /\ IsKey(z, Script[m].id, "message") /\ z.nested = "none"
             /\ z.text = Script[m].text /\ z.call = Script[m].call /\ z.result = FALSE
             /\ View!AllItems(s, Script[m]) = <<z>>
             /\ View!setSessionMessages(s, m) = Append(View!setSessionMessages(s, n), z)
             /\ View!Handle(View!setSessionMessages(s, n), s, Script[m]) = View!setSessionMessages(s, m)
<1>0. n \in 0..Length /\ m \in 0..Length /\ m \in Nat
  BY ScriptType
<1>w. PICK w : w = Script[m]
  OBVIOUS
<1>u. w \in View!Write /\ View!IsWrite(m)
  BY <1>w, ScriptType
<1>1. w.call = "none" /\ ~w.end /\ View!ShouldRender(w) /\ ~View!IsInfo(w)
  BY <1>u, <1>w DEF View!IsWrite, Own, View!ShouldRender, View!IsInfo
<1>2. PICK z \in ItemType(s) : z = View!Item(s, w.id, "message", w) /\ IsItem(z, s, w, "message")
  BY <1>u, ItemIs
<1>3. View!AllItems(s, w) = <<z>>
  <2>1. Shows("message", w) /\ ~Shows("call", w) /\ ~Shows("info", w)
    BY <1>1 DEF Shows
  <2>2. Own(w) /\ (w.role = "user" => w.call = "none" /\ ~w.end)
    BY <1>1, <1>w
  <2> QED
    BY <1>2, <2>1, <2>2, AllItemsAre, Zenon
<1>4. PICK I \in Seq(ItemType(s)) : I = MessageItems(s, n)
  BY <1>0, ItemsType
<1>5. MessageItems(s, m) = I \o View!AllItems(s, w)
  BY <1>4, <1>w, ItemsGrow
<1>6. PICK Y \in Seq(ItemType(s)) : Y = Links(I, n) /\ Y = View!setSessionMessages(s, n) /\ Y = Links(I, m)
  <2>1. View!setSessionMessages(s, n) = Links(I, n)
    BY <1>0, <1>4, SetIs
  <2>2. Links(I, m) = Links(I, n)
    BY LinksOwn
  <2>3. Links(I, n) \in Seq(ItemType(s))
    BY <1>0, LinksFacts
  <2> QED
    BY <2>1, <2>2, <2>3, Zenon
<1>7. View!setSessionMessages(s, m) = Append(Y, z)
  <2>1. View!setSessionMessages(s, m) = Links(I \o View!AllItems(s, w), m)
    BY <1>0, <1>5, SetIs
  <2>2. Own(w) /\ (w.role = "user" => w.call = "none" /\ ~w.end)
    BY <1>1, <1>w
  <2>3. Links(I \o View!AllItems(s, w), m) =
          Opt(Opt(Opt(Links(I, m), View!ShouldRender(w), View!Item(s, w.id, "message", w)),
                  w.call # "none", View!Linked(View!Item(s, w.id, "call", w), m)),
              View!IsInfo(w), View!Item(s, w.id, "info", w))
    BY <1>0, <1>u, <2>2, AllOpts
  <2>4. Links(I \o View!AllItems(s, w), m) = Append(Links(I, m), z)
    BY <1>1, <1>2, <2>3 DEF Opt
  <2> QED
    BY <1>6, <2>1, <2>4, Zenon
<1>8. View!Handle(Y, s, w) = Append(Y, z)
  <2>1. ~View!Known(Y, w.id, "message")
    BY <1>6, <1>w, NotShown
  <2>2. View!Handle(Y, s, w) = Y \o View!AllItems(s, w)
    BY <1>w, <2>1 DEF View!Handle, View!appendSessionMessage, Own
  <2>3. Y \o <<z>> = Append(Y, z)
    BY AppendIsConcat
  <2> QED
    BY <1>3, <2>2, <2>3, Zenon
<1>9. /\ IsKey(z, w.id, "message") /\ z.text = w.text /\ z.call = w.call /\ z.result = FALSE
      /\ z.nested = "none"
  BY <1>2 DEF IsItem
<1> QED
  BY <1>2, <1>3, <1>6, <1>7, <1>8, <1>9, <1>w, Zenon

\* An update of an answer changes its items.
LEMMA SetStepUpdated ==
  ASSUME NEW s, NEW n \in Nat, NEW m \in 1..Length, m = n + 1,
         Own(Script[m]), Script[m].type = "updated", ~View!Unsteady(m)
  PROVE  View!Handle(View!setSessionMessages(s, n), s, Script[m]) = View!setSessionMessages(s, m)
<1>0. n \in 0..Length /\ m \in 0..Length /\ m \in Nat
  BY ScriptType
<1>w. PICK w, o : w = Script[m] /\ o = View!Latest(w.id, n)
  OBVIOUS
<1>u. w \in View!Write /\ View!IsWrite(m)
  BY <1>w, ScriptType
<1>1. w.role = "assistant"
  BY <1>u, <1>w DEF View!IsWrite, Own
<1>2. /\ o \in View!Write /\ o.id = w.id /\ o.role = "assistant"
      /\ o.call = "none" => \A j \in 1..n : Script[j].id = w.id => Script[j].call = "none"
  BY <1>1, <1>w, AnswerBefore
<1>3. Steady(o, w)
  BY <1>1, <1>w, SteadyStep
<1>4. PICK P \in Seq(ItemType(s)) :
        /\ Strange(P, w.id)
        /\ MessageItems(s, n) = P \o View!AllItems(s, o)
        /\ MessageItems(s, m) = P \o View!AllItems(s, w)
  BY <1>w, ItemsUpdate
<1>5. PICK p \in Seq(ItemType(s)) : p = Links(P, n) /\ p = Links(P, m) /\ Strange(p, w.id)
  <2>1. Links(P, m) = Links(P, n)
    BY <1>w, LinksOwn
  <2>2. Links(P, n) \in Seq(ItemType(s))
    BY <1>0, LinksFacts
  <2>3. Strange(Links(P, n), w.id)
    BY <1>0, <1>4, StrangeFacts
  <2> QED
    BY <2>1, <2>2, <2>3, Zenon
<1>6. PICK c \in ItemType(s), d \in ItemType(s) :
        /\ c = View!Linked(View!Item(s, o.id, "call", o), n)
        /\ d = View!Linked(View!Item(s, w.id, "call", w), n)
        /\ IsKey(c, w.id, "call") /\ d = Fresh(c, w)
  BY <1>0, <1>2, <1>u, FreshLink
<1>7. d = View!Linked(View!Item(s, w.id, "call", w), m)
  <2>1. View!Item(s, w.id, "call", w) \in ItemType(s)
    BY <1>u, ItemKeys DEF IsItem
  <2>2. \A x \in ItemType(s) : View!Linked(x, m) = View!Linked(x, n)
    BY <1>w, LinksOwn
  <2> QED
    BY <1>6, <2>1, <2>2, Zenon
<1>8. ASSUME o.call = "none" PROVE d = View!Item(s, w.id, "call", w)
  <2>1. PICK x \in ItemType(s) : x = View!Item(s, w.id, "call", w) /\ IsItem(x, s, w, "call")
    BY <1>u, ItemIs
  <2>2. /\ x.kind = "call" /\ x.id = w.id /\ x.result = FALSE /\ x.nested = "none"
    BY <2>1 DEF IsItem
  <2>3. /\ d.id = x.id /\ d.kind = x.kind /\ d.text = x.text /\ d.call = x.call
        /\ d.result = View!Has("tool", x.id, n) /\ d.nested = View!Nested(x.id, n)
    BY <1>0, <1>6, <2>1, <2>2, LinkedFacts
  <2>4. ~View!Has("tool", w.id, n) /\ View!Nested(w.id, n) = "none"
    BY <1>0, <1>2, <1>8, NoCallYet
  <2>5. d.result = FALSE
    <3>1. View!Has("tool", w.id, n) \in BOOLEAN
      BY DEF View!Has
    <3> QED
      BY <2>2, <2>3, <2>4, <3>1
  <2>6. d = x
    BY <2>2, <2>3, <2>4, <2>5, SameItem
  <2> QED
    BY <2>1, <2>6
<1>9. View!setSessionMessages(s, n) =
        Opt(Opt(Opt(p, View!ShouldRender(o), View!Item(s, o.id, "message", o)), o.call # "none", c),
            View!IsInfo(o), View!Item(s, o.id, "info", o))
  <2>1. Own(o) /\ (o.role = "user" => o.call = "none" /\ ~o.end)
    BY <1>2 DEF Own
  <2>2. Links(P \o View!AllItems(s, o), n) =
          Opt(Opt(Opt(Links(P, n), View!ShouldRender(o), View!Item(s, o.id, "message", o)),
                  o.call # "none", View!Linked(View!Item(s, o.id, "call", o), n)),
              View!IsInfo(o), View!Item(s, o.id, "info", o))
    BY <1>0, <1>2, <2>1, AllOpts
  <2>3. View!setSessionMessages(s, n) = Links(MessageItems(s, n), n)
    BY <1>0, SetIs
  <2> QED
    BY <1>4, <1>5, <1>6, <2>2, <2>3, Zenon
<1>10. View!setSessionMessages(s, m) =
        Opt(Opt(Opt(p, View!ShouldRender(w), View!Item(s, w.id, "message", w)), w.call # "none", d),
            View!IsInfo(w), View!Item(s, w.id, "info", w))
  <2>1. Own(w) /\ (w.role = "user" => w.call = "none" /\ ~w.end)
    BY <1>1 DEF Own
  <2>2. Links(P \o View!AllItems(s, w), m) =
          Opt(Opt(Opt(Links(P, m), View!ShouldRender(w), View!Item(s, w.id, "message", w)),
                  w.call # "none", View!Linked(View!Item(s, w.id, "call", w), m)),
              View!IsInfo(w), View!Item(s, w.id, "info", w))
    BY <1>0, <1>u, <2>1, AllOpts
  <2>3. View!setSessionMessages(s, m) = Links(MessageItems(s, m), m)
    BY <1>0, SetIs
  <2> QED
    BY <1>4, <1>5, <1>7, <2>2, <2>3, Zenon
<1>11. View!updateSessionMessage(View!setSessionMessages(s, n), s, w) = View!setSessionMessages(s, m)
  <2>1. View!updateSessionMessage(
          Opt(Opt(Opt(p, View!ShouldRender(o), View!Item(s, o.id, "message", o)), o.call # "none", c),
              View!IsInfo(o), View!Item(s, o.id, "info", o)), s, w) =
          Opt(Opt(Opt(p, View!ShouldRender(w), View!Item(s, w.id, "message", w)), w.call # "none", d),
              View!IsInfo(w), View!Item(s, w.id, "info", w))
    BY <1>0, <1>1, <1>2, <1>3, <1>5, <1>6, <1>8, <1>u, UpdateStep
  <2> QED
    BY <1>9, <1>10, <2>1, Zenon
<1>12. \A Y : View!Handle(Y, s, w) = View!updateSessionMessage(Y, s, w)
  <2>1. w.role \notin {"child", "childTool"} /\ w.type # "created"
    BY <1>1, <1>w
  <2> QED
    BY <2>1, Zenon DEF View!Handle
<1> QED
  BY <1>11, <1>12, <1>w, Zenon

\* The next write's event brings a loaded chat to what a load would show then.
LEMMA SetStep ==
  ASSUME NEW s, NEW n \in Nat, NEW m \in 1..Length, m = n + 1, ~View!Unsteady(m)
  PROVE  View!Handle(View!setSessionMessages(s, n), s, Script[m]) = View!setSessionMessages(s, m)
<1>1. CASE ~Own(Script[m])
  BY <1>1, SetStepOther
<1>2. CASE Own(Script[m]) /\ Script[m].type = "created"
  BY <1>2, SetStepCreated, Zenon
<1>3. CASE Own(Script[m]) /\ Script[m].type = "updated"
  BY <1>3, SetStepUpdated
<1>4. Script[m].type \in {"created", "updated"}
  BY ScriptType DEF View!Write
<1> QED
  BY <1>1, <1>2, <1>3, <1>4

-----------------------------------------------------------------------------
(* A load and the events of the writes it has read *)

\* A later version of an answer has its calls, and what is hidden of it stays hidden.
LEMMA LaterVersion ==
  ASSUME NEW v \in 0..Length, NEW p \in 1..v, Script[p].role = "assistant", ~View!Unsteady(v)
  PROVE  LET w == Script[p]
             y == View!Latest(w.id, v)
         IN  /\ Written(w.id, v) /\ y \in View!Write /\ y.id = w.id /\ y.role = "assistant"
             /\ w.call # "none" => y.call # "none"
             /\ ~View!ShouldRender(w) => ~View!ShouldRender(y) /\ ~y.end
             /\ w.end => y.end
             /\ ~View!ShouldRender(y) => ~y.end
<1>0. v \in Nat /\ p \in 1..Length
  BY ScriptType
<1>w. PICK w : w = Script[p]
  OBVIOUS
<1>1. Written(w.id, v)
  BY <1>w DEF Written
<1>2. PICK k \in 1..v : IsLast(k, w.id, v) /\ View!Latest(w.id, v) = Script[k] /\ Script[k].id = w.id
  BY <1>1, LatestIsWrite
<1>y. PICK y : y = Script[k]
  OBVIOUS
<1>3. k \in 1..Length /\ y \in View!Write /\ View!IsWrite(k)
  BY <1>0, <1>y, ScriptType
<1>4. y.role = "assistant"
  BY <1>0, <1>2, <1>3, <1>w, <1>y, OneRole
<1>5. p <= k
  <2>1. p \notin (k + 1)..v
    BY <1>2, <1>w DEF IsLast
  <2> QED
    BY <1>0, <2>1
<1>6. p \in View!Before(k, w.id) \cup {k}
  BY <1>0, <1>5, <1>w DEF View!Before
<1>7. w.call # "none" => y.call # "none"
  <2>1. CASE p = k
    BY <1>w, <1>y, <2>1
  <2>2. CASE p # k
    <3>1. p \in View!Before(k, Script[k].id)
      BY <1>2, <1>6, <2>2
    <3>2. y.call = "none" => ~View!CallBefore(k, w.id)
      BY <1>2, <1>3, <1>4, <1>y DEF View!IsWrite
    <3>3. w.call # "none" => View!CallBefore(k, w.id)
      BY <1>2, <1>w, <3>1 DEF View!CallBefore
    <3> QED
      BY <3>2, <3>3
  <2> QED
    BY <2>1, <2>2
<1>8. ASSUME NEW i \in View!Before(k, Script[k].id) \cup {k}
      PROVE  /\ ~(~View!ShouldRender(Script[i]) /\ (View!ShouldRender(y) \/ y.end))
             /\ ~(Script[i].end /\ ~y.end)
  BY <1>4, <1>y DEF View!Unsteady
<1>9. /\ ~(~View!ShouldRender(w) /\ (View!ShouldRender(y) \/ y.end)) /\ ~(w.end /\ ~y.end)
      /\ ~(~View!ShouldRender(y) /\ (View!ShouldRender(y) \/ y.end))
  <2>1. p \in View!Before(k, Script[k].id) \cup {k} /\ k \in View!Before(k, Script[k].id) \cup {k}
    BY <1>2, <1>6
  <2> QED
    BY <1>8, <1>w, <1>y, <2>1
<1> QED
  BY <1>1, <1>2, <1>3, <1>4, <1>7, <1>9, <1>w, <1>y

\* What a load shows.
LEMMA SetFacts ==
  ASSUME NEW s, NEW v \in 0..Length
  PROVE  LET Y == View!setSessionMessages(s, v)
         IN  /\ Y \in Seq(ItemType(s))
             /\ \A i \in DOMAIN Y :
                  /\ Y[i] \in ItemType(s) /\ Shown(Y[i].id, Y[i].kind, v)
                  /\ Y[i].text = View!Latest(Y[i].id, v).text
                  /\ Y[i].call = View!Latest(Y[i].id, v).call
                  /\ Y[i].kind = "call" => /\ Y[i].result = View!Has("tool", Y[i].id, v)
                                           /\ Y[i].nested = View!Nested(Y[i].id, v)
             /\ \A id, kind : View!Known(Y, id, kind) <=> Shown(id, kind, v)
             /\ NoneTwice(Y)
<1>1. PICK I \in Seq(ItemType(s)) : I = MessageItems(s, v)
  BY ItemsType
<1>2. PICK Y : Y = View!setSessionMessages(s, v)
  OBVIOUS
<1>3. Y = Links(I, v)
  BY <1>1, <1>2, SetIs
<1>4. /\ Y \in Seq(ItemType(s)) /\ DOMAIN Y = DOMAIN I
      /\ \A i \in DOMAIN I : Y[i] = View!Linked(I[i], v)
      /\ \A i \in DOMAIN I : Y[i].id = I[i].id /\ Y[i].kind = I[i].kind
      /\ \A id, kind : View!Known(Y, id, kind) <=> View!Known(I, id, kind)
  BY <1>3, LinksFacts
<1>5. NoneTwice(I) /\ \A x : In(I, x) <=> ItemOf(s, v, x)
  BY <1>1, ItemsFitAlways DEF ItemsFit
<1>6. ASSUME NEW i \in DOMAIN Y
      PROVE  /\ Y[i] \in ItemType(s) /\ Shown(Y[i].id, Y[i].kind, v)
             /\ Y[i].text = View!Latest(Y[i].id, v).text
             /\ Y[i].call = View!Latest(Y[i].id, v).call
             /\ Y[i].kind = "call" => /\ Y[i].result = View!Has("tool", Y[i].id, v)
                                      /\ Y[i].nested = View!Nested(Y[i].id, v)
  <2>0. Y[i] \in ItemType(s) /\ I[i] \in ItemType(s)
    <3> HIDE DEF ItemType
    <3> QED
      BY <1>4
  <2>1. PICK x \in ItemType(s), y \in ItemType(s) : x = I[i] /\ y = Y[i]
    BY <2>0
  <2>2. In(I, x)
    BY <1>4, <2>1 DEF In
  <2>3. ItemOf(s, v, x)
    BY <1>5, <2>2
  <2>4. y = View!Linked(x, v)
    BY <1>4, <2>1
  <2>5. /\ y.id = x.id /\ y.kind = x.kind /\ y.text = x.text /\ y.call = x.call
        /\ x.kind = "call" => y.result = View!Has("tool", x.id, v) /\ y.nested = View!Nested(x.id, v)
    BY <2>4, LinkedFacts
  <2>6. x.text = View!Latest(x.id, v).text /\ x.call = View!Latest(x.id, v).call
    <3>1. \A a, id, kind, o : a = View!Item(s, id, kind, o) => a.text = o.text /\ a.call = o.call
      BY DEF View!Item
    <3>2. PICK id, kind, o : id = x.id /\ kind = x.kind /\ o = View!Latest(x.id, v)
      OBVIOUS
    <3>3. x = View!Item(s, id, kind, o)
      BY <2>3, <3>2 DEF ItemOf
    <3>4. x.text = o.text /\ x.call = o.call
      BY <3>1, <3>3
    <3> QED
      BY <3>2, <3>4
  <2>7. Shown(x.id, x.kind, v)
    BY <2>3, Zenon DEF ItemOf, Shown
  <2>8. /\ Shown(y.id, y.kind, v)
        /\ y.text = View!Latest(y.id, v).text /\ y.call = View!Latest(y.id, v).call
    BY <2>5, <2>6, <2>7, Zenon
  <2>9. y.kind = "call" => y.result = View!Has("tool", y.id, v) /\ y.nested = View!Nested(y.id, v)
    BY <2>5, Zenon
  <2> QED
    BY <2>0, <2>1, <2>8, <2>9, Zenon
<1>7. \A id, kind : View!Known(Y, id, kind) <=> Shown(id, kind, v)
  BY <1>1, <1>4, KnownItems, Zenon
<1>8. NoneTwice(Y)
  <2>1. \A i, j \in DOMAIN I : SameKey(I[i], I[j]) => i = j
    BY <1>5 DEF NoneTwice
  <2>2. \A i, j \in DOMAIN I : SameKey(Y[i], Y[j]) => SameKey(I[i], I[j])
    BY <1>4, Zenon DEF SameKey
  <2> QED
    BY <1>4, <2>1, <2>2, Zenon DEF NoneTwice
<1> QED
  BY <1>2, <1>4, <1>6, <1>7, <1>8, Zenon

\* The item x of a chat that was loaded when y was its item, and has seen the
\* events of the first j writes since: newer than those, or as they left it.
Near(x, y, j) ==
  LET o == View!Latest(y.id, j)
  IN  /\ x.id = y.id /\ x.kind = y.kind /\ x.result = y.result
      /\ x.nested = y.nested \/ (y.kind = "call" /\ x.nested = View!Nested(y.id, j))
      /\ \/ x.text = y.text /\ x.call = y.call
         \/ /\ y.kind # "info" /\ Written(y.id, j) /\ x.text = o.text /\ x.call = o.call
            /\ y.kind = "call" => o.call # "none"

\* Every item of X is near the one that was loaded in its place.
Nears(X, s, v, j) ==
  LET Y == View!setSessionMessages(s, v)
  IN  DOMAIN X = DOMAIN Y /\ \A i \in DOMAIN Y : Near(X[i], Y[i], j)

\* An old event has brought back a message that is hidden by now.
Ghost(z, v, j) ==
  /\ z.kind = "message" /\ Written(z.id, j) /\ Own(View!Latest(z.id, v))
  /\ View!ShouldRender(View!Latest(z.id, j)) /\ ~View!ShouldRender(View!Latest(z.id, v))

\* X was loaded after v writes, and has seen the events up to the j-th since.
Like(X, s, v, j) ==
  \E A \in Seq(ItemType(s)), z \in ItemType(s), b \in BOOLEAN :
    X = Opt(A, b, z) /\ Nears(A, s, v, j) /\ (b => Ghost(z, v, j))

\* When it has seen none it is what was loaded.
LEMMA LikeAtFirst ==
  ASSUME NEW s, NEW v \in 0..Length, NEW j
  PROVE  Like(View!setSessionMessages(s, v), s, v, j)
<1>1. PICK Y \in Seq(ItemType(s)) : Y = View!setSessionMessages(s, v)
  BY SetFacts
<1>2. \E z : z \in ItemType(s)
  <2>1. [s |-> s, id |-> 0, kind |-> "call", text |-> TRUE, call |-> "none", result |-> TRUE,
         nested |-> "none"] \in ItemType(s)
    BY DEF ItemType
  <2> QED
    BY <2>1
<1>3. Nears(Y, s, v, j)
  BY <1>1 DEF Nears, Near
<1>4. \A z : Y = Opt(Y, FALSE, z)
  BY DEF Opt
<1> QED
  BY <1>1, <1>2, <1>3, <1>4, Zenon DEF Like

\* When it has seen them all it is what was loaded.
LEMMA LikeAtLast ==
  ASSUME NEW s, NEW v \in 0..Length, NEW X, Like(X, s, v, v)
  PROVE  X = View!setSessionMessages(s, v)
<1>1. PICK Y \in Seq(ItemType(s)) : Y = View!setSessionMessages(s, v)
  BY SetFacts
<1>2. PICK A \in Seq(ItemType(s)), z \in ItemType(s), b \in BOOLEAN :
        X = Opt(A, b, z) /\ Nears(A, s, v, v) /\ (b => Ghost(z, v, v))
  BY DEF Like
<1>3. ~b /\ X = A
  BY <1>2 DEF Ghost, Opt
<1>4. DOMAIN A = DOMAIN Y /\ \A i \in DOMAIN Y : Near(A[i], Y[i], v)
  BY <1>1, <1>2 DEF Nears
<1>5. ASSUME NEW i \in DOMAIN Y PROVE A[i] = Y[i]
  <2>0. Y[i] \in ItemType(s) /\ A[i] \in ItemType(s)
    <3> HIDE DEF ItemType
    <3> QED
      BY <1>4
  <2>1. PICK x \in ItemType(s), y \in ItemType(s) : x = A[i] /\ y = Y[i] /\ Near(x, y, v)
    BY <1>4, <2>0
  <2>2. /\ y.text = View!Latest(y.id, v).text /\ y.call = View!Latest(y.id, v).call
        /\ y.kind = "call" => y.nested = View!Nested(y.id, v)
    BY <1>1, <2>1, SetFacts
  <2>3. /\ x.id = y.id /\ x.kind = y.kind /\ x.result = y.result /\ x.nested = y.nested
        /\ x.text = y.text /\ x.call = y.call
    BY <2>1, <2>2 DEF Near
  <2>4. x = y
    BY <2>3, SameItem
  <2> QED
    BY <2>1, <2>4
<1>6. A = Y
  <2>1. Len(A) = Len(Y) /\ \A i \in 1..Len(A) : A[i] = Y[i]
    <3> HIDE DEF ItemType
    <3> QED
      BY <1>4, <1>5
  <2> QED
    BY <2>1, SeqEqual
<1> QED
  BY <1>1, <1>3, <1>6

\* The calls of a chat, changed by a write.
Relinks(Y, w) == [i \in DOMAIN Y |-> Relinked(Y[i], w)]

\* A relinked chat has the same items in the same places.
LEMMA RelinksFacts ==
  ASSUME NEW s, NEW Y \in Seq(ItemType(s)), NEW w \in View!Write
  PROVE  /\ Relinks(Y, w) \in Seq(ItemType(s))
         /\ DOMAIN Relinks(Y, w) = DOMAIN Y /\ Len(Relinks(Y, w)) = Len(Y)
         /\ \A i \in DOMAIN Y : Relinks(Y, w)[i] = Relinked(Y[i], w)
<1>1. PICK k \in Nat : k = Len(Y) /\ DOMAIN Y = 1..k /\ \A i \in 1..k : Y[i] \in ItemType(s)
  OBVIOUS
<1> HIDE DEF ItemType
<1>2. \A i \in 1..k : Relinked(Y[i], w) \in ItemType(s)
  BY <1>1, RelinkedFacts
<1>3. PICK Z : Z = Relinks(Y, w)
  OBVIOUS
<1>4. Z = [i \in 1..k |-> Z[i]] /\ \A i \in 1..k : Z[i] = Relinked(Y[i], w)
  BY <1>1, <1>3 DEF Relinks
<1>5. \A i \in 1..k : Z[i] \in ItemType(s)
  BY <1>2, <1>4
<1>6. Z \in Seq(ItemType(s)) /\ DOMAIN Z = 1..k /\ Len(Z) = k
  BY <1>4, <1>5
<1> QED
  BY <1>1, <1>3, <1>4, <1>6

\* An optional item that is no call is not changed.
LEMMA RelinksOpt ==
  ASSUME NEW s, NEW Y \in Seq(ItemType(s)), NEW x \in ItemType(s), NEW b \in BOOLEAN,
         NEW w \in View!Write, x.kind # "call"
  PROVE  Relinks(Opt(Y, b, x), w) = Opt(Relinks(Y, w), b, x)
<1>0. Relinked(x, w) = x
  BY DEF Relinked
<1> HIDE DEF ItemType
<1>1. CASE ~b
  BY <1>1 DEF Opt
<1>2. CASE b
  <2>1. PICK A, k : A = Append(Y, x) /\ k = Len(Y) + 1
    OBVIOUS
  <2>2. /\ A \in Seq(ItemType(s)) /\ DOMAIN A = 1..k /\ k \in DOMAIN A /\ A[k] = x
        /\ \A i \in DOMAIN Y : i \in DOMAIN A /\ A[i] = Y[i]
    BY <2>1, Appended
  <2>3. PICK Z : Z = Relinks(A, w)
    OBVIOUS
  <2>4. PICK V : V = Relinks(Y, w)
    OBVIOUS
  <2>6. /\ Z \in Seq(ItemType(s)) /\ DOMAIN Z = DOMAIN A
        /\ \A i \in DOMAIN A : Z[i] = Relinked(A[i], w)
    BY <2>2, <2>3, RelinksFacts
  <2>7. /\ V \in Seq(ItemType(s)) /\ DOMAIN V = DOMAIN Y /\ Len(V) = Len(Y)
        /\ \A i \in DOMAIN Y : V[i] = Relinked(Y[i], w)
    BY <2>4, RelinksFacts
  <2>8. Z[k] = x
    BY <1>0, <2>2, <2>6
  <2>9. \A i \in DOMAIN V : Z[i] = V[i]
    BY <2>2, <2>6, <2>7
  <2>10. DOMAIN Z = 1..(Len(V) + 1) /\ Z[Len(V) + 1] = x
    BY <2>1, <2>2, <2>6, <2>7, <2>8
  <2>11. Z = Append(V, x)
    BY <2>6, <2>7, <2>9, <2>10, IsAppend
  <2> QED
    BY <1>2, <2>1, <2>3, <2>4, <2>11 DEF Opt
<1> QED
  BY <1>1, <1>2

\* A chat that is near the loaded one knows what that one shows.
LEMMA NearsKnown ==
  ASSUME NEW s, NEW v \in 0..Length, NEW j, NEW A, Nears(A, s, v, j)
  PROVE  \A id, kind : View!Known(A, id, kind) <=> Shown(id, kind, v)
<1>1. PICK Y : Y = View!setSessionMessages(s, v)
  OBVIOUS
<1>2. DOMAIN A = DOMAIN Y /\ \A i \in DOMAIN Y : A[i].id = Y[i].id /\ A[i].kind = Y[i].kind
  BY <1>1 DEF Nears, Near
<1>3. \A id, kind : View!Known(A, id, kind) <=> View!Known(Y, id, kind)
  BY <1>2, Zenon DEF View!Known
<1>4. \A id, kind : View!Known(Y, id, kind) <=> Shown(id, kind, v)
  BY <1>1, SetFacts
<1> QED
  BY <1>3, <1>4, Zenon

\* Changing items makes none known.
LEMMA ChangedKnown ==
  ASSUME NEW s, NEW Y \in Seq(ItemType(s)), NEW w \in View!Write, NEW k
  PROVE  \A id, kind : View!Known(Changed(Y, w, k), id, kind) <=> View!Known(Y, id, kind)
<1>1. PICK Z : Z = Changed(Y, w, k)
  OBVIOUS
<1>2. DOMAIN Z = DOMAIN Y /\ \A i \in DOMAIN Y : Z[i].id = Y[i].id /\ Z[i].kind = Y[i].kind
  BY <1>1, ChangedFacts
<1>3. \A id, kind : View!Known(Z, id, kind) <=> View!Known(Y, id, kind)
  BY <1>2, Zenon DEF View!Known
<1> QED
  BY <1>1, <1>3

\* A message that was shown is not one of another kind.
LEMMA OwnId ==
  ASSUME NEW v \in 0..Length, NEW p \in 1..v, ~Own(Script[p]),
         NEW id, Written(id, v), Own(View!Latest(id, v))
  PROVE  id # Script[p].id
<1>0. p \in 1..Length
  BY ScriptType
<1>1. PICK k \in 1..v : View!Latest(id, v) = Script[k] /\ Script[k].id = id
  BY LatestIsWrite
<1>2. k \in 1..Length
  BY ScriptType
<1> QED
  BY <1>0, <1>1, <1>2, OneRole DEF Own

\* A nested call that was answered stays answered.
LEMMA NestedStays ==
  ASSUME NEW j \in Nat, NEW v \in 0..Length, j <= v, NEW id, View!Nested(id, j) = "answered"
  PROVE  View!Nested(id, v) = "answered"
<1>0. j \in 0..Length
  BY ScriptType
<1>1. Calls(id, j) # {} /\ Answered(id, j)
  BY <1>0, NestedIs
<1>2. Calls(id, v) # {} /\ Answered(id, v)
  <2>1. \A i \in 1..j : i \in 1..v
    BY ScriptType
  <2>2. Calls(id, j) \subseteq Calls(id, v)
    BY <2>1 DEF Calls
  <2>3. Answered(id, v)
    BY <1>1, <2>1, Zenon DEF Answered, View!Has
  <2> QED
    BY <1>1, <2>2, <2>3
<1> QED
  BY <1>2, NestedIs

\* An old result or nested call keeps an item near the loaded one.
LEMMA NearRelinked ==
  ASSUME NEW s, NEW v \in 0..Length, NEW j \in Nat, NEW p \in 1..v, p = j + 1, ~Own(Script[p]),
         NEW x \in ItemType(s), NEW y \in ItemType(s), Near(x, y, j),
         Written(y.id, v), Own(View!Latest(y.id, v)),
         y.kind = "call" => /\ y.result = View!Has("tool", y.id, v)
                            /\ y.nested = View!Nested(y.id, v)
  PROVE  Near(Relinked(x, Script[p]), y, p)
<1>0. p \in 1..Length /\ p \in Nat /\ j \in 0..Length /\ p \in 0..Length /\ j <= v /\ p <= v
  BY ScriptType
<1>w. PICK w \in View!Write : w = Script[p]
  BY <1>0, ScriptType
<1>1. y.id # w.id
  BY <1>w, OwnId
<1>2. /\ Written(y.id, j) => View!Latest(y.id, p) = View!Latest(y.id, j)
      /\ Written(y.id, p) <=> Written(y.id, j)
  BY <1>0, <1>1, <1>w, LatestStep
<1>3. PICK r \in ItemType(s) :
         /\ r = Relinked(x, w) /\ r.id = x.id /\ r.kind = x.kind
         /\ r.text = x.text /\ r.call = x.call
         /\ r.result = IF x.id = w.of /\ x.kind = "call" /\ w.role = "tool" THEN TRUE ELSE x.result
         /\ r.nested =
              IF x.id # w.of \/ x.kind # "call" THEN x.nested
              ELSE IF w.role = "child" /\ w.call # "none" /\ x.nested # "answered" THEN w.call
              ELSE IF w.role = "childTool" /\ x.nested # "none" THEN "answered"
              ELSE x.nested
  BY RelinkedFacts
<1>4. /\ x.id = y.id /\ x.kind = y.kind /\ x.result = y.result
      /\ x.nested = y.nested \/ (y.kind = "call" /\ x.nested = View!Nested(y.id, j))
      /\ \/ x.text = y.text /\ x.call = y.call
         \/ /\ y.kind # "info" /\ Written(y.id, j)
            /\ x.text = View!Latest(y.id, j).text /\ x.call = View!Latest(y.id, j).call
            /\ y.kind = "call" => View!Latest(y.id, j).call # "none"
  BY DEF Near
<1>5. r.result = y.result
  <2>1. CASE x.id = w.of /\ x.kind = "call" /\ w.role = "tool"
    <3>1. View!Has("tool", y.id, v)
      BY <1>4, <1>w, <2>1 DEF View!Has
    <3>2. y.result = TRUE
      BY <1>4, <2>1, <3>1 DEF View!Has
    <3> QED
      BY <1>3, <2>1, <3>2
  <2>2. CASE ~(x.id = w.of /\ x.kind = "call" /\ w.role = "tool")
    BY <1>3, <1>4, <2>2
  <2> QED
    BY <2>1, <2>2
<1>6. r.nested = y.nested \/ (y.kind = "call" /\ r.nested = View!Nested(y.id, p))
  <2>1. CASE y.kind # "call"
    BY <1>3, <1>4, <2>1
  <2>2. CASE y.kind = "call"
    <3>1. PICK a, b, c : a = View!Nested(y.id, j) /\ b = View!Nested(y.id, p) /\ c = View!Nested(y.id, v)
      OBVIOUS
    <3>2. /\ w.role \notin {"child", "childTool"} \/ w.of # y.id => b = a
          /\ w.role = "child" /\ w.call = "none" => b = a
          /\ w.role = "child" /\ w.call # "none" /\ w.of = y.id => b = IF a = "answered" THEN "answered" ELSE w.call
          /\ w.role = "childTool" /\ w.of = y.id => a # "none" /\ b = "answered"
      BY <1>0, <1>w, <3>1, NestedStep
    <3>3. /\ a = "answered" => c = "answered"
          /\ b = "answered" => c = "answered"
      BY <1>0, <3>1, NestedStays
    <3>4. x.nested = c \/ x.nested = a
      BY <1>4, <2>2, <3>1
    <3>5. r.nested =
              IF y.id # w.of THEN x.nested
              ELSE IF w.role = "child" /\ w.call # "none" /\ x.nested # "answered" THEN w.call
              ELSE IF w.role = "childTool" /\ x.nested # "none" THEN "answered"
              ELSE x.nested
      BY <1>3, <1>4, <2>2
    <3>6. r.nested = c \/ r.nested = b
      BY <3>2, <3>3, <3>4, <3>5
    <3> QED
      BY <2>2, <3>1, <3>6
  <2> QED
    BY <2>1, <2>2
<1>7. \/ r.text = y.text /\ r.call = y.call
      \/ /\ y.kind # "info" /\ Written(y.id, p)
         /\ r.text = View!Latest(y.id, p).text /\ r.call = View!Latest(y.id, p).call
         /\ y.kind = "call" => View!Latest(y.id, p).call # "none"
  BY <1>2, <1>3, <1>4
<1>8. r.id = y.id /\ r.kind = y.kind
  BY <1>3, <1>4
<1>9. Near(r, y, p)
  BY <1>5, <1>6, <1>7, <1>8 DEF Near
<1> QED
  BY <1>3, <1>9, <1>w

\* A message that was brought back stays so, until its own next write.
LEMMA GhostStep ==
  ASSUME NEW v \in 0..Length, NEW j \in Nat, NEW p \in 1..v, p = j + 1, NEW z, Ghost(z, v, j),
         z.id # Script[p].id
  PROVE  Ghost(z, v, p)
<1>0. p \in Nat
  OBVIOUS
<1>1. Written(z.id, j)
  BY DEF Ghost
<1>2. View!Latest(z.id, p) = View!Latest(z.id, j) /\ Written(z.id, p)
  BY <1>0, <1>1, LatestStep
<1> QED
  BY <1>2 DEF Ghost

\* An old result, or message of an agent tool's session, keeps the chat like the
\* loaded one.
LEMMA LikeOther ==
  ASSUME NEW s, NEW v \in 0..Length, NEW j \in Nat, NEW p \in 1..v, p = j + 1, ~Own(Script[p]),
         NEW X, Like(X, s, v, j)
  PROVE  Like(View!Handle(X, s, Script[p]), s, v, p)
<1>0. p \in 1..Length /\ j <= v /\ v \in Nat
  BY ScriptType
<1>w. PICK w \in View!Write : w = Script[p]
  BY <1>0, ScriptType
<1>1. w.role \in {"tool", "child", "childTool"} /\ (w.role = "tool" => w.type = "created")
  <2>1. View!IsWrite(p)
    BY <1>0, ScriptType
  <2> QED
    BY <1>w, <2>1 DEF View!IsWrite, View!Write, Own
<1>2. PICK A \in Seq(ItemType(s)), z \in ItemType(s), b \in BOOLEAN :
        X = Opt(A, b, z) /\ Nears(A, s, v, j) /\ (b => Ghost(z, v, j))
  BY DEF Like
<1>3. b => z.kind = "message" /\ z.id # w.id
  <2>1. ASSUME b PROVE z.kind = "message" /\ z.id # w.id
    <3>1. Ghost(z, v, j)
      BY <1>2, <2>1
    <3>2. z.kind = "message" /\ Written(z.id, j) /\ Own(View!Latest(z.id, v))
      BY <3>1 DEF Ghost
    <3>3. Written(z.id, v)
      BY <1>0, <3>2 DEF Written
    <3> QED
      BY <1>w, <3>2, <3>3, OwnId
  <2> QED
    BY <2>1
<1>4. X \in Seq(ItemType(s))
  BY <1>2, OptFacts
<1>5. ~View!Known(X, w.id, "message")
  <2>1. View!Known(X, w.id, "message") <=> View!Known(A, w.id, "message") \/ (b /\ IsKey(z, w.id, "message"))
    BY <1>2, OptFacts
  <2>2. View!Known(A, w.id, "message") <=> Shown(w.id, "message", v)
    BY <1>2, NearsKnown
  <2>3. ~Shown(w.id, "message", v)
    <3>1. ASSUME Written(w.id, v), Own(View!Latest(w.id, v)) PROVE FALSE
      BY <1>w, <3>1, OwnId
    <3> QED
      BY <3>1 DEF Shown
  <2> QED
    BY <1>3, <2>1, <2>2, <2>3 DEF IsKey
<1>6. View!Handle(X, s, w) = Relinks(X, w)
  BY <1>1, <1>4, <1>5, HandleOther DEF Relinks
<1>7. PICK B \in Seq(ItemType(s)) :
        /\ B = Relinks(A, w) /\ DOMAIN B = DOMAIN A
        /\ \A i \in DOMAIN A : B[i] = Relinked(A[i], w)
  BY RelinksFacts
<1>8. Relinks(X, w) = Opt(B, b, z)
  <2>1. CASE b
    BY <1>2, <1>3, <1>7, <2>1, RelinksOpt
  <2>2. CASE ~b
    <3>1. X = A /\ Opt(B, b, z) = B
      BY <1>2, <2>2 DEF Opt
    <3> QED
      BY <1>7, <3>1
  <2> QED
    BY <2>1, <2>2
<1>9. Nears(B, s, v, p)
  <2>1. PICK Y \in Seq(ItemType(s)) : Y = View!setSessionMessages(s, v)
    BY SetFacts
  <2>2. DOMAIN A = DOMAIN Y /\ \A i \in DOMAIN Y : Near(A[i], Y[i], j)
    BY <1>2, <2>1 DEF Nears
  <2>3. ASSUME NEW i \in DOMAIN Y PROVE Near(B[i], Y[i], p)
    <3>0. Y[i] \in ItemType(s) /\ A[i] \in ItemType(s)
      <4> HIDE DEF ItemType
      <4> QED
        BY <2>2
    <3>1. PICK x \in ItemType(s), y \in ItemType(s) : x = A[i] /\ y = Y[i] /\ Near(x, y, j)
      BY <2>2, <3>0
    <3>2. /\ Shown(y.id, y.kind, v)
          /\ y.kind = "call" => y.result = View!Has("tool", y.id, v) /\ y.nested = View!Nested(y.id, v)
      BY <2>1, <3>1, SetFacts
    <3>3. Written(y.id, v) /\ Own(View!Latest(y.id, v))
      BY <3>2 DEF Shown
    <3>4. Near(Relinked(x, Script[p]), y, p)
      BY <3>1, <3>2, <3>3, NearRelinked
    <3> QED
      BY <1>7, <1>w, <2>2, <3>1, <3>4
  <2> QED
    BY <1>7, <2>1, <2>2, <2>3 DEF Nears
<1>10. b => Ghost(z, v, p)
  BY <1>2, <1>3, <1>w, GhostStep
<1>11. Like(View!Handle(X, s, w), s, v, p)
  BY <1>6, <1>8, <1>9, <1>10, Zenon DEF Like
<1> QED
  BY <1>11, <1>w

\* A version of another message changes nothing, nor does one that adds no call.
LEMMA NearKept ==
  ASSUME NEW j \in Nat, NEW p \in 1..Length, p = j + 1, Own(Script[p]), NEW x, NEW y, Near(x, y, j),
         \/ y.id # Script[p].id
         \/ y.kind = "info"
         \/ y.kind = "call" /\ Script[p].call = "none" /\ Script[p].type = "updated"
         \/ ~Written(y.id, j)
  PROVE  Near(x, y, p)
<1>0. p \in Nat /\ j \in 0..Length
  BY ScriptType
<1>w. PICK w \in View!Write : w = Script[p]
  BY ScriptType
<1>1. /\ x.id = y.id /\ x.kind = y.kind /\ x.result = y.result
      /\ x.nested = y.nested \/ (y.kind = "call" /\ x.nested = View!Nested(y.id, j))
      /\ \/ x.text = y.text /\ x.call = y.call
         \/ /\ y.kind # "info" /\ Written(y.id, j)
            /\ x.text = View!Latest(y.id, j).text /\ x.call = View!Latest(y.id, j).call
            /\ y.kind = "call" => View!Latest(y.id, j).call # "none"
  BY DEF Near
<1>2. View!Nested(y.id, p) = View!Nested(y.id, j)
  BY NestedStep DEF Own
<1>3. /\ y.id # w.id /\ Written(y.id, j) => View!Latest(y.id, p) = View!Latest(y.id, j)
      /\ Written(y.id, p) <=> Written(y.id, j) \/ y.id = w.id
  BY <1>0, <1>w, LatestStep
<1>4. ASSUME w.call = "none", w.type = "updated" PROVE View!Latest(w.id, j).call = "none"
  <2>1. w.role = "assistant"
    <3>1. View!IsWrite(p)
      BY ScriptType
    <3> QED
      BY <1>4, <1>w, <3>1 DEF View!IsWrite, Own
  <2> QED
    BY <1>4, <1>w, <2>1, AnswerBefore
<1>5. \/ x.text = y.text /\ x.call = y.call
      \/ /\ y.kind # "info" /\ Written(y.id, p)
         /\ x.text = View!Latest(y.id, p).text /\ x.call = View!Latest(y.id, p).call
         /\ y.kind = "call" => View!Latest(y.id, p).call # "none"
  <2>1. CASE y.id # w.id
    BY <1>1, <1>3, <2>1
  <2>2. CASE y.id = w.id /\ y.kind = "info"
    BY <1>1, <2>2
  <2>3. CASE y.id = w.id /\ y.kind = "call" /\ w.call = "none" /\ w.type = "updated"
    BY <1>1, <1>4, <2>3
  <2>4. CASE ~Written(y.id, j)
    BY <1>1, <2>4
  <2> QED
    BY <1>w, <2>1, <2>2, <2>3, <2>4
<1> QED
  BY <1>1, <1>2, <1>5 DEF Near

\* The version that is handled.
LEMMA NearFresh ==
  ASSUME NEW s, NEW j \in Nat, NEW p \in 1..Length, p = j + 1, Own(Script[p]),
         NEW x \in ItemType(s), NEW y, Near(x, y, j), y.id = Script[p].id,
         y.kind = "message" \/ (y.kind = "call" /\ Script[p].call # "none")
  PROVE  Near(Fresh(x, Script[p]), y, p)
<1>0. p \in Nat
  OBVIOUS
<1>w. PICK w \in View!Write : w = Script[p]
  BY ScriptType
<1>1. /\ x.id = y.id /\ x.kind = y.kind /\ x.result = y.result
      /\ x.nested = y.nested \/ (y.kind = "call" /\ x.nested = View!Nested(y.id, j))
  BY DEF Near
<1>2. View!Nested(y.id, p) = View!Nested(y.id, j)
  BY NestedStep DEF Own
<1>3. Written(y.id, p) /\ View!Latest(y.id, p) = w
  BY <1>0, <1>w, LatestStep
<1>4. PICK e \in ItemType(s) :
        /\ e = Fresh(x, w) /\ e.id = x.id /\ e.kind = x.kind
        /\ e.result = x.result /\ e.nested = x.nested /\ e.text = w.text /\ e.call = w.call
  BY FreshFacts
<1>5. y.kind # "info" /\ (y.kind = "call" => w.call # "none")
  BY <1>w
<1>6. Near(e, y, p)
  BY <1>1, <1>2, <1>3, <1>4, <1>5 DEF Near
<1> QED
  BY <1>4, <1>6, <1>w

\* While an old event has brought back a hidden message, no other is created.
LEMMA GhostIsLast ==
  ASSUME NEW v \in 0..Length, NEW j \in Nat, NEW p \in 1..v, p = j + 1,
         Own(Script[p]), Script[p].type = "created", NEW z, Ghost(z, v, j)
  PROVE  FALSE
<1>0. p \in 1..Length /\ j \in 0..Length /\ v \in Nat /\ j <= v
  BY ScriptType
<1>1. /\ Written(z.id, j) /\ Own(View!Latest(z.id, v))
      /\ View!ShouldRender(View!Latest(z.id, j)) /\ ~View!ShouldRender(View!Latest(z.id, v))
  BY DEF Ghost
<1>2. Written(z.id, v)
  BY <1>0, <1>1 DEF Written
<1>3. PICK k \in 1..v : IsLast(k, z.id, v) /\ View!Latest(z.id, v) = Script[k] /\ Script[k].id = z.id
  BY <1>2, LatestIsWrite
<1>4. k \in 1..Length /\ View!IsWrite(k) /\ Script[k] \in View!Write
  BY <1>0, ScriptType
<1>5. k > j
  <2> SUFFICES ASSUME k <= j PROVE FALSE
    BY <1>0
  <2>1. IsLast(k, z.id, j)
    BY <1>0, <1>3 DEF IsLast
  <2>2. View!Latest(z.id, j) = Script[k]
    BY <2>1, LatestIs
  <2> QED
    BY <1>1, <1>3, <2>2
<1>6. Script[p].id # z.id
  <2>1. ~Written(Script[p].id, j)
    BY <1>0, ItemOfStep
  <2> QED
    BY <1>1, <2>1
<1>7. p < k
  BY <1>0, <1>3, <1>5, <1>6
<1>8. Own(Script[k]) /\ Script[k].type = "updated" /\ Script[k].role = "assistant"
  <2>1. Own(Script[k])
    BY <1>1, <1>3
  <2>2. Script[k].type # "created"
    BY <1>1, <1>3, <1>4, <2>1 DEF View!IsWrite, Own, View!ShouldRender
  <2> QED
    BY <1>4, <2>1, <2>2 DEF View!IsWrite, View!Write, Own
<1>9. PICK c \in View!Before(k, Script[k].id) :
        /\ Script[c].type = "created"
        /\ \A i \in (c + 1)..(k - 1) :
             Script[i].type = "created" => Script[i].role \notin {"user", "assistant"}
  BY <1>4, <1>8 DEF View!IsWrite
<1>10. c \in 1..(k - 1) /\ Script[c].id = z.id
  BY <1>3, <1>9 DEF View!Before
<1>11. p \notin (c + 1)..(k - 1)
  BY <1>9 DEF Own
<1>12. p < c
  BY <1>0, <1>6, <1>7, <1>10, <1>11
<1>13. PICK a \in 1..j : Script[a].id = z.id
  BY <1>1 DEF Written
<1>14. a \in 1..Length /\ c \in 1..Length /\ a < c
  BY <1>0, <1>4, <1>10, <1>12, ScriptType
<1>15. Own(Script[c])
  BY <1>3, <1>4, <1>8, <1>10, <1>14, OneRole DEF Own
<1>16. Script[c].type = "updated"
  BY <1>10, <1>13, <1>14, <1>15, OneCreated
<1> QED
  BY <1>9, <1>16

\* An old creation does: the chat has the message, or brings it back.
LEMMA LikeCreated ==
  ASSUME NEW s, NEW v \in 0..Length, NEW j \in Nat, NEW p \in 1..v, p = j + 1,
         Own(Script[p]), Script[p].type = "created", NEW X, Like(X, s, v, j)
  PROVE  Like(View!Handle(X, s, Script[p]), s, v, p)
<1>0. p \in 1..Length /\ p \in Nat /\ j \in 0..Length /\ j <= v /\ v \in Nat
  BY ScriptType
<1>w. PICK w \in View!Write : w = Script[p]
  BY <1>0, ScriptType
<1>1. PICK A \in Seq(ItemType(s)), z \in ItemType(s), b \in BOOLEAN :
        X = Opt(A, b, z) /\ Nears(A, s, v, j) /\ (b => Ghost(z, v, j))
  BY DEF Like
<1>2. ~b /\ X = A
  <2>1. ~b
    BY <1>1, GhostIsLast
  <2> QED
    BY <1>1, <2>1 DEF Opt
<1>3. Nears(A, s, v, p)
  <2>1. PICK Y : Y = View!setSessionMessages(s, v)
    OBVIOUS
  <2>2. DOMAIN A = DOMAIN Y /\ \A i \in DOMAIN Y : Near(A[i], Y[i], j)
    BY <1>1, <2>1 DEF Nears
  <2>3. ~Written(w.id, j)
    BY <1>0, <1>w, ItemOfStep
  <2>4. ASSUME NEW i \in DOMAIN Y PROVE Near(A[i], Y[i], p)
    <3>1. PICK x, y : x = A[i] /\ y = Y[i]
      OBVIOUS
    <3>2. Near(x, y, j)
      BY <2>2, <3>1
    <3>3. y.id # w.id \/ ~Written(y.id, j)
      BY <2>3
    <3>4. Near(x, y, p)
      BY <1>0, <1>w, <3>2, <3>3, NearKept
    <3> QED
      BY <3>1, <3>4
  <2> QED
    BY <2>1, <2>2, <2>4 DEF Nears
<1>4. View!Handle(A, s, w) = IF View!Known(A, w.id, "message") THEN A ELSE A \o View!AllItems(s, w)
  BY <1>w DEF View!Handle, View!appendSessionMessage, Own
<1>5. CASE View!Known(A, w.id, "message")
  <2>1. View!Handle(A, s, w) = Opt(A, FALSE, z)
    BY <1>4, <1>5 DEF Opt
  <2>2. Like(View!Handle(A, s, w), s, v, p)
    BY <1>3, <2>1, Zenon DEF Like
  <2> QED
    BY <1>2, <1>w, <2>2
<1>6. CASE ~View!Known(A, w.id, "message")
  <2>1. PICK y \in ItemType(s) : IsKey(y, w.id, "message") /\ View!AllItems(s, w) = <<y>>
    BY <1>0, <1>w, SetStepCreated, Zenon
  <2>2. View!Handle(A, s, w) = Opt(A, TRUE, y)
    <3>1. A \o <<y>> = Append(A, y)
      BY AppendIsConcat
    <3> QED
      BY <1>4, <1>6, <2>1, <3>1 DEF Opt
  <2>3. y.kind = "message" /\ y.id = w.id
    BY <2>1 DEF IsKey
  <2>4. Written(w.id, p) /\ View!Latest(w.id, p) = w
    <3>1. PICK id : id = w.id /\ id = Script[p].id
      BY <1>w
    <3>2. Written(id, p) /\ View!Latest(id, p) = Script[p]
      BY <1>0, <3>1, LatestStep
    <3> QED
      BY <1>w, <3>1, <3>2, Zenon
  <2>5. View!ShouldRender(w)
    <3>1. View!IsWrite(p)
      BY <1>0, ScriptType
    <3> QED
      BY <1>w, <3>1 DEF View!IsWrite, Own, View!ShouldRender
  <2>6. ~Shown(w.id, "message", v)
    BY <1>1, <1>6, NearsKnown
  <2>7. Own(View!Latest(w.id, v)) /\ Written(w.id, v)
    <3>1. Written(w.id, v)
      BY <1>w DEF Written
    <3>2. PICK k \in 1..v : View!Latest(w.id, v) = Script[k] /\ Script[k].id = w.id
      BY <3>1, LatestIsWrite
    <3>3. k \in 1..Length
      BY ScriptType
    <3> QED
      BY <1>0, <1>w, <3>1, <3>2, <3>3, OneRole DEF Own
  <2>8. ~View!ShouldRender(View!Latest(w.id, v))
    BY <2>6, <2>7 DEF Shown, Shows
  <2>9. Ghost(y, v, p)
    BY <2>3, <2>4, <2>5, <2>7, <2>8 DEF Ghost
  <2>10. Like(View!Handle(A, s, w), s, v, p)
    BY <1>3, <2>2, <2>9, Zenon DEF Like
  <2> QED
    BY <1>2, <1>w, <2>10
<1> QED
  BY <1>5, <1>6

\* What an update makes of the items that a chat has.
Renewed(Y, w) ==
  IF w.call = "none" THEN Changed(Y, w, "message")
  ELSE Changed(Changed(Y, w, "message"), w, "call")

\* And of one item.
RenewedItem(x, w) ==
  IF IsKey(x, w.id, "message") \/ (IsKey(x, w.id, "call") /\ w.call # "none") THEN Fresh(x, w) ELSE x

\* An item that is renewed stays the item of its message.
LEMMA RenewedItemFacts ==
  ASSUME NEW s, NEW x \in ItemType(s), NEW w \in View!Write
  PROVE  /\ RenewedItem(x, w) \in ItemType(s)
         /\ RenewedItem(x, w).id = x.id /\ RenewedItem(x, w).kind = x.kind
  BY FreshFacts DEF RenewedItem

\* Renewed items are in the same places.
LEMMA RenewedFacts ==
  ASSUME NEW s, NEW Y \in Seq(ItemType(s)), NEW w \in View!Write
  PROVE  /\ Renewed(Y, w) \in Seq(ItemType(s))
         /\ DOMAIN Renewed(Y, w) = DOMAIN Y
         /\ \A i \in DOMAIN Y : Renewed(Y, w)[i] = RenewedItem(Y[i], w)
<1>1. PICK U \in Seq(ItemType(s)) :
        /\ U = Changed(Y, w, "message") /\ DOMAIN U = DOMAIN Y
        /\ \A i \in DOMAIN Y : U[i] = IF IsKey(Y[i], w.id, "message") THEN Fresh(Y[i], w) ELSE Y[i]
        /\ \A i \in DOMAIN Y : U[i].id = Y[i].id /\ U[i].kind = Y[i].kind
  BY ChangedFacts
<1>2. PICK V \in Seq(ItemType(s)) :
        /\ V = Changed(U, w, "call") /\ DOMAIN V = DOMAIN U
        /\ \A i \in DOMAIN U : V[i] = IF IsKey(U[i], w.id, "call") THEN Fresh(U[i], w) ELSE U[i]
  BY ChangedFacts
<1> HIDE DEF ItemType
<1>3. ASSUME NEW i \in DOMAIN Y, w.call = "none" PROVE U[i] = RenewedItem(Y[i], w)
  BY <1>1, <1>3 DEF RenewedItem
<1>4. ASSUME NEW i \in DOMAIN Y, w.call # "none" PROVE V[i] = RenewedItem(Y[i], w)
  <2>1. CASE IsKey(Y[i], w.id, "message")
    <3>1. U[i] = Fresh(Y[i], w) /\ U[i].kind = "message"
      BY <1>1, <2>1 DEF IsKey
    <3>2. V[i] = U[i]
      BY <1>1, <1>2, <3>1 DEF IsKey
    <3> QED
      BY <2>1, <3>1, <3>2 DEF RenewedItem
  <2>2. CASE ~IsKey(Y[i], w.id, "message")
    <3>1. U[i] = Y[i]
      BY <1>1, <2>2
    <3>2. V[i] = IF IsKey(Y[i], w.id, "call") THEN Fresh(Y[i], w) ELSE Y[i]
      BY <1>1, <1>2, <3>1
    <3> QED
      BY <1>4, <2>2, <3>2 DEF RenewedItem
  <2> QED
    BY <2>1, <2>2
<1>5. Renewed(Y, w) = IF w.call = "none" THEN U ELSE V
  BY <1>1, <1>2 DEF Renewed
<1> QED
  BY <1>1, <1>2, <1>3, <1>4, <1>5

\* An old update renews the items of a chat that was loaded after it, and takes
\* back a message that it hides.
LEMMA UpdateLike ==
  ASSUME NEW s, NEW w \in View!Write,
         NEW A \in Seq(ItemType(s)), NEW z \in ItemType(s), NEW b \in BOOLEAN,
         b => z.kind = "message",
         View!ShouldRender(w) /\ View!IsInfo(w) => View!Known(A, w.id, "info"),
         ~View!ShouldRender(w) => ~View!Known(A, w.id, "message") /\ ~View!Known(A, w.id, "info"),
         w.call # "none" => View!Known(A, w.id, "call")
  PROVE  View!updateSessionMessage(Opt(A, b, z), s, w) =
           Opt(Renewed(A, w), b /\ (View!ShouldRender(w) \/ z.id # w.id), RenewedItem(z, w))
<1>0. PICK X \in Seq(ItemType(s)) :
        /\ X = Opt(A, b, z)
        /\ \A id, kind : View!Known(X, id, kind) <=> View!Known(A, id, kind) \/ (b /\ IsKey(z, id, kind))
  BY OptFacts
<1>1. PICK U \in Seq(ItemType(s)) : U = Changed(A, w, "message")
  BY ChangedFacts
<1>2. PICK y \in ItemType(s) :
        /\ y = IF IsKey(z, w.id, "message") THEN Fresh(z, w) ELSE z
        /\ y.id = z.id /\ y.kind = z.kind
  BY FreshFacts
<1>3. Changed(X, w, "message") = Opt(U, b, y)
  BY <1>0, <1>1, <1>2, ChangedOpt
<1>4. \A kind : View!Known(U, w.id, kind) <=> View!Known(A, w.id, kind)
  BY <1>1, ChangedKnown
<1>c. PICK c \in BOOLEAN : c <=> b /\ (View!ShouldRender(w) \/ z.id # w.id)
  OBVIOUS
<1>5. Ended(X, s, w) = Opt(U, c, y)
  <2>1. CASE View!ShouldRender(w)
    <3>1. ~(View!IsInfo(w) /\ ~View!Known(X, w.id, "info"))
      BY <1>0, <2>1
    <3>2. Ended(X, s, w) = Changed(X, w, "message")
      BY <2>1, <3>1, Zenon DEF Ended
    <3>3. c = b
      BY <1>c, <2>1
    <3> QED
      BY <1>3, <3>2, <3>3
  <2>2. CASE ~View!ShouldRender(w) /\ ~View!Known(X, w.id, "message")
    <3>1. Ended(X, s, w) = Changed(X, w, "message")
      BY <2>2, Zenon DEF Ended
    <3>2. c = b
      BY <1>0, <1>c, <2>2 DEF IsKey
    <3> QED
      BY <1>3, <3>1, <3>2
  <2>3. CASE ~View!ShouldRender(w) /\ View!Known(X, w.id, "message")
    <3>1. b /\ z.kind = "message" /\ z.id = w.id
      BY <1>0, <2>3 DEF IsKey
    <3>2. ~c
      BY <1>c, <2>3, <3>1
    <3>3. Changed(X, w, "message") = Append(U, y)
      BY <1>3, <3>1 DEF Opt
    <3>4. View!RemoveMessage(Append(U, y), w.id, "message") = U
      <4>1. ~View!Known(U, w.id, "message") /\ IsKey(y, w.id, "message")
        BY <1>2, <1>4, <2>3, <3>1 DEF IsKey
      <4> QED
        BY <4>1, RemoveLast
    <3>5. View!RemoveMessage(U, w.id, "info") = U
      <4>1. ~View!Known(U, w.id, "info")
        BY <1>4, <2>3
      <4> QED
        BY <4>1, RemoveUnknown
    <3>6. Ended(X, s, w) =
            View!RemoveMessage(View!RemoveMessage(Changed(X, w, "message"), w.id, "message"), w.id, "info")
      BY <2>3, Zenon DEF Ended
    <3>7. Ended(X, s, w) = U
      BY <3>3, <3>4, <3>5, <3>6, Zenon
    <3> QED
      BY <3>2, <3>7 DEF Opt
  <2> QED
    BY <2>1, <2>2, <2>3
<1>6. View!updateSessionMessage(X, s, w) =
        IF w.call = "none" THEN Opt(U, c, y) ELSE Changed(Opt(U, c, y), w, "call")
  <2>1. View!updateSessionMessage(X, s, w) =
           IF w.call = "none" THEN Ended(X, s, w)
           ELSE IF View!Known(X, w.id, "call") THEN Changed(Ended(X, s, w), w, "call")
           ELSE Append(Ended(X, s, w), View!Item(s, w.id, "call", w))
    BY UpdateIs
  <2>2. w.call # "none" => View!Known(X, w.id, "call")
    BY <1>0
  <2> QED
    BY <1>5, <2>1, <2>2, Zenon
<1>7. CASE c
  <2>1. b /\ z.kind = "message"
    BY <1>c, <1>7
  <2>2. y = RenewedItem(z, w)
    BY <1>2, <2>1 DEF RenewedItem, IsKey
  <2>3. Changed(Opt(U, c, y), w, "call") = Opt(Changed(U, w, "call"), c, y)
    <3>1. ~IsKey(y, w.id, "call")
      BY <1>2, <2>1 DEF IsKey
    <3>2. Changed(Opt(U, c, y), w, "call") =
            Opt(Changed(U, w, "call"), c, IF IsKey(y, w.id, "call") THEN Fresh(y, w) ELSE y)
      BY ChangedOpt
    <3> QED
      BY <3>1, <3>2, Zenon
  <2>4. View!updateSessionMessage(X, s, w) = Opt(Renewed(A, w), c, RenewedItem(z, w))
    BY <1>1, <1>6, <2>2, <2>3, Zenon DEF Renewed
  <2> QED
    BY <1>0, <1>7, <1>c, <2>4
<1>8. CASE ~c
  <2>1. \A T, t : Opt(T, c, t) = T
    BY <1>8 DEF Opt
  <2>2. View!updateSessionMessage(X, s, w) = Renewed(A, w)
    BY <1>1, <1>6, <2>1, Zenon DEF Renewed
  <2>3. \A T, t : Opt(T, b /\ (View!ShouldRender(w) \/ z.id # w.id), t) = T
    BY <1>8, <1>c DEF Opt
  <2> QED
    BY <1>0, <2>2, <2>3, Zenon
<1> QED
  BY <1>7, <1>8

\* An old update keeps the chat like the loaded one.
LEMMA LikeUpdated ==
  ASSUME NEW s, NEW v \in 0..Length, NEW j \in Nat, NEW p \in 1..v, p = j + 1,
         Own(Script[p]), Script[p].type = "updated", ~View!Unsteady(v), NEW X, Like(X, s, v, j)
  PROVE  Like(View!Handle(X, s, Script[p]), s, v, p)
<1>0. p \in 1..Length /\ p \in Nat /\ j \in 0..Length /\ j <= v /\ v \in Nat
  BY ScriptType
<1>w. PICK w \in View!Write : w = Script[p]
  BY <1>0, ScriptType
<1>1. w.role = "assistant"
  <2>1. View!IsWrite(p)
    BY <1>0, ScriptType
  <2> QED
    BY <1>w, <2>1 DEF View!IsWrite, Own
<1>2. PICK A \in Seq(ItemType(s)), z \in ItemType(s), b \in BOOLEAN :
        X = Opt(A, b, z) /\ Nears(A, s, v, j) /\ (b => Ghost(z, v, j))
  BY DEF Like
<1>y. PICK y : y = View!Latest(w.id, v)
  OBVIOUS
<1>3. /\ Written(w.id, v) /\ y.role = "assistant"
      /\ w.call # "none" => y.call # "none"
      /\ ~View!ShouldRender(w) => ~View!ShouldRender(y) /\ ~y.end
      /\ w.end => y.end
  BY <1>1, <1>w, <1>y, LaterVersion
<1>4. /\ View!ShouldRender(w) /\ View!IsInfo(w) => View!Known(A, w.id, "info")
      /\ ~View!ShouldRender(w) => ~View!Known(A, w.id, "message") /\ ~View!Known(A, w.id, "info")
      /\ w.call # "none" => View!Known(A, w.id, "call")
  <2>1. \A kind : View!Known(A, w.id, kind) <=> Shows(kind, y)
    <3>1. \A kind : View!Known(A, w.id, kind) <=> Shown(w.id, kind, v)
      BY <1>2, NearsKnown
    <3>2. \A kind : Shown(w.id, kind, v) <=> Shows(kind, y)
      BY <1>3, <1>y DEF Shown, Own
    <3> QED
      BY <3>1, <3>2
  <2>2. View!IsInfo(w) => View!IsInfo(y)
    BY <1>3 DEF View!IsInfo
  <2>3. ~y.end => ~View!IsInfo(y)
    BY DEF View!IsInfo
  <2> QED
    BY <1>3, <2>1, <2>2, <2>3 DEF Shows
<1>5. b => z.kind = "message"
  BY <1>2 DEF Ghost
<1>c. PICK c \in BOOLEAN : c = (b /\ (View!ShouldRender(w) \/ z.id # w.id))
  OBVIOUS
<1>6. View!Handle(X, s, w) = Opt(Renewed(A, w), c, RenewedItem(z, w))
  <2>1. View!Handle(X, s, w) = View!updateSessionMessage(X, s, w)
    BY <1>1, <1>w, Zenon DEF View!Handle
  <2>2. View!updateSessionMessage(Opt(A, b, z), s, w) =
          Opt(Renewed(A, w), b /\ (View!ShouldRender(w) \/ z.id # w.id), RenewedItem(z, w))
    BY <1>4, <1>5, UpdateLike
  <2> QED
    BY <1>2, <1>c, <2>1, <2>2, Zenon
<1>7. PICK B \in Seq(ItemType(s)) :
        /\ B = Renewed(A, w) /\ DOMAIN B = DOMAIN A
        /\ \A i \in DOMAIN A : B[i] = RenewedItem(A[i], w)
  BY RenewedFacts
<1>8. PICK e \in ItemType(s) : e = RenewedItem(z, w) /\ e.id = z.id /\ e.kind = z.kind
  BY RenewedItemFacts
<1>9. Nears(B, s, v, p)
  <2>1. PICK Y \in Seq(ItemType(s)) : Y = View!setSessionMessages(s, v)
    BY SetFacts
  <2>2. DOMAIN A = DOMAIN Y /\ \A i \in DOMAIN Y : Near(A[i], Y[i], j)
    BY <1>2, <2>1 DEF Nears
  <2>3. ASSUME NEW i \in DOMAIN Y PROVE Near(B[i], Y[i], p)
    <3>0. A[i] \in ItemType(s) /\ Y[i] \in ItemType(s)
      <4> HIDE DEF ItemType
      <4> QED
        BY <2>2
    <3>1. PICK x \in ItemType(s), t \in ItemType(s) : x = A[i] /\ t = Y[i] /\ Near(x, t, j)
      BY <2>2, <3>0
    <3>2. x.id = t.id /\ x.kind = t.kind /\ t.kind \in {"message", "call", "info"}
      BY <3>1 DEF Near, ItemType
    <3>3. CASE IsKey(x, w.id, "message") \/ (IsKey(x, w.id, "call") /\ w.call # "none")
      <4>1. t.id = w.id /\ (t.kind = "message" \/ (t.kind = "call" /\ w.call # "none"))
        BY <3>2, <3>3 DEF IsKey
      <4>2. Near(Fresh(x, Script[p]), t, p)
        BY <1>0, <1>w, <3>1, <4>1, NearFresh
      <4>3. RenewedItem(x, w) = Fresh(x, w)
        BY <3>3 DEF RenewedItem
      <4> QED
        BY <1>7, <1>w, <2>2, <3>1, <4>2, <4>3
    <3>4. CASE ~(IsKey(x, w.id, "message") \/ (IsKey(x, w.id, "call") /\ w.call # "none"))
      <4>1. \/ t.id # w.id \/ t.kind = "info"
            \/ (t.kind = "call" /\ w.call = "none" /\ w.type = "updated")
        BY <1>w, <3>2, <3>4 DEF IsKey
      <4>2. Near(x, t, p)
        BY <1>0, <1>w, <3>1, <4>1, NearKept
      <4>3. RenewedItem(x, w) = x
        BY <3>4 DEF RenewedItem
      <4> QED
        BY <1>7, <2>2, <3>1, <4>2, <4>3
    <3> QED
      BY <3>3, <3>4
  <2> QED
    BY <1>7, <2>1, <2>2, <2>3 DEF Nears
<1>10. ASSUME c PROVE Ghost(e, v, p)
  <2>1. Ghost(z, v, j)
    BY <1>2, <1>c, <1>10
  <2>2. CASE z.id # w.id
    <3>1. Ghost(z, v, p)
      BY <1>w, <2>1, <2>2, GhostStep
    <3> QED
      BY <1>8, <3>1 DEF Ghost
  <2>3. CASE z.id = w.id
    <3>1. View!ShouldRender(w)
      BY <1>10, <1>c, <2>3
    <3>2. PICK id : id = w.id /\ id = Script[p].id /\ id = e.id
      BY <1>8, <1>w, <2>3
    <3>3. Written(id, p) /\ View!Latest(id, p) = Script[p]
      BY <1>0, <3>2, LatestStep
    <3> QED
      BY <1>8, <1>w, <2>1, <3>1, <3>2, <3>3 DEF Ghost
  <2> QED
    BY <2>2, <2>3
<1>11. Like(View!Handle(X, s, w), s, v, p)
  BY <1>6, <1>7, <1>8, <1>9, <1>10, Zenon DEF Like
<1> QED
  BY <1>11, <1>w

\* The events of writes that the load has read leave no mark when they are all
\* handled.
LEMMA LikeStep ==
  ASSUME NEW s, NEW v \in 0..Length, NEW j \in Nat, NEW p \in 1..v, p = j + 1,
         ~View!Unsteady(v), NEW X, Like(X, s, v, j)
  PROVE  Like(View!Handle(X, s, Script[p]), s, v, p)
<1>1. CASE ~Own(Script[p])
  BY <1>1, LikeOther
<1>2. CASE Own(Script[p]) /\ Script[p].type = "created"
  BY <1>2, LikeCreated
<1>3. CASE Own(Script[p]) /\ Script[p].type = "updated"
  BY <1>3, LikeUpdated
<1>4. Script[p].type \in {"created", "updated"}
  <2>1. p \in 1..Length
    BY ScriptType
  <2> QED
    BY <2>1, ScriptType DEF View!Write
<1> QED
  BY <1>1, <1>2, <1>3, <1>4

-----------------------------------------------------------------------------
(* No item of another session, and none twice *)

\* The chat has items of s, none of them twice.
Good(Y, s) == Y \in Seq(ItemType(s)) /\ NoneTwice(Y)

\* Removing an item, appending one that is not there, and changing items keep a
\* chat good.
LEMMA RemoveGood ==
  ASSUME NEW s, NEW Y, Good(Y, s), NEW id, NEW kind
  PROVE  /\ Good(View!RemoveMessage(Y, id, kind), s)
         /\ \A i, k : View!Known(View!RemoveMessage(Y, id, kind), i, k) => View!Known(Y, i, k)
<1>0. Y \in Seq(ItemType(s)) /\ NoneTwice(Y)
  BY DEF Good
<1>1. CASE ~View!Known(Y, id, kind)
  BY <1>1, RemoveUnknown
<1>2. CASE View!Known(Y, id, kind)
  <2>1. PICK p : p = CHOOSE i \in DOMAIN Y : Y[i].id = id /\ Y[i].kind = kind
    OBVIOUS
  <2>2. p \in DOMAIN Y
    BY <1>2, <2>1, Zenon DEF View!Known
  <2>3. PICK R : R = View!RemoveMessage(Y, id, kind)
    OBVIOUS
  <2>4. R = SubSeq(Y, 1, p - 1) \o SubSeq(Y, p + 1, Len(Y))
    <3>1. R = View!RemoveAt(Y, p)
      BY <1>2, <2>1, <2>3, Zenon DEF View!RemoveMessage
    <3> QED
      BY <3>1 DEF View!RemoveAt
  <2> HIDE DEF ItemType
  <2>5. PICK n \in Nat : n = Len(Y) /\ p \in 1..n /\ DOMAIN Y = 1..n
    BY <1>0, <2>2
  <2>6. /\ R \in Seq(ItemType(s)) /\ Len(R) = n - 1
        /\ \A i \in 1..(n - 1) : R[i] = IF i < p THEN Y[i] ELSE Y[i + 1]
    <3>1. p \in 1..Len(Y)
      BY <2>5
    <3>2. /\ R \in Seq(ItemType(s)) /\ Len(R) = Len(Y) - 1
          /\ \A i \in 1..(Len(Y) - 1) : R[i] = IF i < p THEN Y[i] ELSE Y[i + 1]
      BY <1>0, <2>4, <3>1, Removed, ZenonT(30)
    <3> QED
      BY <2>5, <3>2
  <2>7. PICK f : f = [i \in 1..(n - 1) |-> IF i < p THEN i ELSE i + 1]
    OBVIOUS
  <2>8. /\ \A i \in 1..(n - 1) : f[i] \in 1..n /\ R[i] = Y[f[i]]
        /\ \A i, j \in 1..(n - 1) : f[i] = f[j] => i = j
        /\ DOMAIN R = 1..(n - 1)
    BY <2>5, <2>6, <2>7
  <2>9. NoneTwice(R)
    <3>1. \A i, j \in 1..n : SameKey(Y[i], Y[j]) => i = j
      BY <1>0, <2>5 DEF NoneTwice
    <3>2. ASSUME NEW i \in 1..(n - 1), NEW j \in 1..(n - 1), SameKey(R[i], R[j]) PROVE i = j
      <4>1. f[i] \in 1..n /\ f[j] \in 1..n /\ SameKey(Y[f[i]], Y[f[j]])
        BY <2>8, <3>2
      <4>2. f[i] = f[j]
        BY <3>1, <4>1
      <4> QED
        BY <2>8, <4>2
    <3> QED
      BY <2>8, <3>2 DEF NoneTwice
  <2>10. \A i, k : View!Known(R, i, k) => View!Known(Y, i, k)
    BY <2>5, <2>8 DEF View!Known
  <2> QED
    BY <2>3, <2>6, <2>9, <2>10 DEF Good
<1> QED
  BY <1>1, <1>2

LEMMA AppendGood ==
  ASSUME NEW s, NEW Y, Good(Y, s), NEW x \in ItemType(s), ~View!Known(Y, x.id, x.kind)
  PROVE  Good(Append(Y, x), s)
<1> HIDE DEF ItemType
<1>0. Y \in Seq(ItemType(s)) /\ NoneTwice(Y)
  BY DEF Good
<1>1. PICK A, n : A = Append(Y, x) /\ n = Len(Y) + 1
  OBVIOUS
<1>2. /\ A \in Seq(ItemType(s)) /\ A[n] = x
      /\ \A i \in DOMAIN Y : A[i] = Y[i]
      /\ \A i \in DOMAIN A : i \in DOMAIN Y \/ i = n
  BY <1>0, <1>1, Appended
<1>3. \A i \in DOMAIN Y : ~SameKey(Y[i], x) /\ ~SameKey(x, Y[i])
  BY DEF View!Known, SameKey
<1>4. \A i, j \in DOMAIN Y : SameKey(Y[i], Y[j]) => i = j
  BY <1>0 DEF NoneTwice
<1>5. ASSUME NEW i \in DOMAIN A, NEW j \in DOMAIN A, SameKey(A[i], A[j]) PROVE i = j
  <2>1. CASE i = n /\ j = n
    BY <2>1
  <2>2. CASE i = n /\ j \in DOMAIN Y
    BY <1>2, <1>3, <1>5, <2>2
  <2>3. CASE i \in DOMAIN Y /\ j = n
    BY <1>2, <1>3, <1>5, <2>3
  <2>4. CASE i \in DOMAIN Y /\ j \in DOMAIN Y
    BY <1>2, <1>4, <1>5, <2>4
  <2> QED
    BY <1>2, <2>1, <2>2, <2>3, <2>4
<1> QED
  BY <1>1, <1>2, <1>5 DEF Good, NoneTwice

\* A chat whose items keep their messages and kinds.
LEMMA KeysGood ==
  ASSUME NEW s, NEW Y, Good(Y, s), NEW Z \in Seq(ItemType(s)), DOMAIN Z = DOMAIN Y,
         \A i \in DOMAIN Y : Z[i].id = Y[i].id /\ Z[i].kind = Y[i].kind
  PROVE  Good(Z, s)
<1>1. \A i, j \in DOMAIN Y : SameKey(Z[i], Z[j]) => SameKey(Y[i], Y[j])
  BY Zenon DEF SameKey
<1>2. \A i, j \in DOMAIN Y : SameKey(Y[i], Y[j]) => i = j
  BY DEF Good, NoneTwice
<1> QED
  BY <1>1, <1>2, Zenon DEF Good, NoneTwice

\* So does what an update does.
LEMMA ChangedGood ==
  ASSUME NEW s, NEW Y, Good(Y, s), NEW w \in View!Write, NEW kind
  PROVE  Good(Changed(Y, w, kind), s)
<1>1. Y \in Seq(ItemType(s))
  BY DEF Good
<1>2. PICK Z \in Seq(ItemType(s)) :
        /\ Z = Changed(Y, w, kind) /\ DOMAIN Z = DOMAIN Y
        /\ \A i \in DOMAIN Y : Z[i].id = Y[i].id /\ Z[i].kind = Y[i].kind
  BY <1>1, ChangedFacts
<1> QED
  BY <1>2, KeysGood

LEMMA EndedGood ==
  ASSUME NEW s, NEW Y, Good(Y, s), NEW w \in View!Write
  PROVE  /\ Good(Ended(Y, s, w), s)
         /\ View!Known(Ended(Y, s, w), w.id, "call") => View!Known(Y, w.id, "call")
<1>0. Y \in Seq(ItemType(s))
  BY DEF Good
<1>1. PICK U : U = Changed(Y, w, "message") /\ Good(U, s)
  BY ChangedGood
<1>2. \A id, k : View!Known(U, id, k) <=> View!Known(Y, id, k)
  BY <1>0, <1>1, ChangedKnown
<1>3. PICK V : V = View!RemoveMessage(U, w.id, "message") /\ Good(V, s)
  BY <1>1, RemoveGood
<1>4. PICK T : T = View!RemoveMessage(V, w.id, "info") /\ Good(T, s)
  BY <1>3, RemoveGood
<1>5. \A id, k : View!Known(T, id, k) => View!Known(U, id, k)
  <2>1. \A id, k : View!Known(V, id, k) => View!Known(U, id, k)
    BY <1>1, <1>3, RemoveGood
  <2>2. \A id, k : View!Known(T, id, k) => View!Known(V, id, k)
    BY <1>3, <1>4, RemoveGood
  <2> QED
    BY <2>1, <2>2
<1>6. PICK K : K = IF View!ShouldRender(w) \/ ~View!Known(Y, w.id, "message") THEN U ELSE T
  OBVIOUS
<1>7. Good(K, s) /\ \A id, k : View!Known(K, id, k) => View!Known(Y, id, k)
  BY <1>1, <1>2, <1>4, <1>5, <1>6
<1>8. PICK f \in ItemType(s) : f = View!Item(s, w.id, "info", w) /\ IsItem(f, s, w, "info")
  BY ItemIs
<1>9. Ended(Y, s, w) =
        IF View!ShouldRender(w) /\ View!IsInfo(w) /\ ~View!Known(Y, w.id, "info")
        THEN Append(K, f) ELSE K
  BY <1>1, <1>3, <1>4, <1>6, <1>8, Zenon DEF Ended, View!InfoItem
<1>10. f.id = w.id /\ f.kind = "info"
  BY <1>8 DEF IsItem
<1>11. CASE View!ShouldRender(w) /\ View!IsInfo(w) /\ ~View!Known(Y, w.id, "info")
  <2>1. ~View!Known(K, f.id, f.kind)
    BY <1>7, <1>10, <1>11
  <2>2. Good(Append(K, f), s)
    BY <1>7, <2>1, AppendGood
  <2>3. K \in Seq(ItemType(s))
    BY <1>7 DEF Good
  <2>4. View!Known(Append(K, f), w.id, "call") <=> View!Known(K, w.id, "call") \/ IsKey(f, w.id, "call")
    BY <2>3, KnownAppend
  <2> QED
    BY <1>7, <1>9, <1>10, <1>11, <2>2, <2>4 DEF IsKey
<1>12. CASE ~(View!ShouldRender(w) /\ View!IsInfo(w) /\ ~View!Known(Y, w.id, "info"))
  BY <1>7, <1>9, <1>12
<1> QED
  BY <1>11, <1>12

\* Whatever was lost, an event leaves no item of another session and none twice.
LEMMA HandleGood ==
  ASSUME NEW s, NEW Y, Good(Y, s), NEW m \in 1..Length
  PROVE  Good(View!Handle(Y, s, Script[m]), s)
<1>0. Y \in Seq(ItemType(s))
  BY DEF Good
<1>w. PICK w \in View!Write : w = Script[m]
  BY ScriptType
<1>u. View!IsWrite(m)
  BY ScriptType
<1>1. CASE ~Own(w) /\ ~(w.role = "tool" /\ View!Known(Y, w.id, "message"))
  <2>1. w.role \in {"tool", "child", "childTool"} /\ (w.role = "tool" => w.type = "created")
    BY <1>1, <1>u, <1>w DEF View!IsWrite, View!Write, Own
  <2>2. View!Handle(Y, s, w) = Relinks(Y, w)
    BY <1>0, <1>1, <2>1, HandleOther DEF Relinks
  <2>3. PICK Z \in Seq(ItemType(s)) :
          Z = Relinks(Y, w) /\ DOMAIN Z = DOMAIN Y /\ \A i \in DOMAIN Y : Z[i] = Relinked(Y[i], w)
    BY <1>0, RelinksFacts
  <2>4. \A i \in DOMAIN Y : Y[i] \in ItemType(s)
    <3> HIDE DEF ItemType
    <3> QED
      BY <1>0
  <2>5. \A i \in DOMAIN Y : Z[i].id = Y[i].id /\ Z[i].kind = Y[i].kind
    <3>1. \A x \in ItemType(s) : Relinked(x, w).id = x.id /\ Relinked(x, w).kind = x.kind
      BY RelinkedFacts
    <3> QED
      BY <2>3, <2>4, <3>1, Zenon
  <2>6. Good(Z, s)
    BY <2>3, <2>5, KeysGood
  <2> QED
    BY <1>w, <2>2, <2>3, <2>6
<1>2. CASE w.role = "tool" /\ View!Known(Y, w.id, "message")
  <2>1. w.type = "created"
    BY <1>2, <1>u, <1>w DEF View!IsWrite
  <2>2. View!Handle(Y, s, w) = Y
    BY <1>2, <2>1 DEF View!Handle, View!appendSessionMessage
  <2> QED
    BY <1>w, <2>2
<1>3. CASE Own(w) /\ w.type = "created"
  <2>1. PICK z \in ItemType(s) : IsKey(z, w.id, "message") /\ View!AllItems(s, w) = <<z>>
    <3>1. PICK n \in Nat : m = n + 1
      <4>1. m - 1 \in Nat /\ m = (m - 1) + 1
        BY ScriptType
      <4> QED
        BY <4>1
    <3> QED
      BY <1>3, <1>w, <3>1, SetStepCreated, Zenon
  <2>2. View!Handle(Y, s, w) = IF View!Known(Y, w.id, "message") THEN Y ELSE Y \o <<z>>
    BY <1>3, <2>1 DEF View!Handle, View!appendSessionMessage, Own
  <2>3. Y \o <<z>> = Append(Y, z)
    BY <1>0, AppendIsConcat
  <2>4. ~View!Known(Y, w.id, "message") => Good(Append(Y, z), s)
    BY <2>1, AppendGood DEF IsKey
  <2> QED
    BY <1>w, <2>2, <2>3, <2>4
<1>4. CASE Own(w) /\ w.type = "updated"
  <2>1. View!Handle(Y, s, w) = View!updateSessionMessage(Y, s, w)
    <3>1. w.role \notin {"child", "childTool"}
      BY <1>4 DEF Own
    <3> QED
      BY <1>4, <3>1, Zenon DEF View!Handle
  <2>2. PICK E : E = Ended(Y, s, w) /\ Good(E, s) /\ (View!Known(E, w.id, "call") => View!Known(Y, w.id, "call"))
    BY EndedGood
  <2>3. Good(Changed(E, w, "call"), s)
    BY <2>2, ChangedGood
  <2>4. PICK c \in ItemType(s) : c = View!Item(s, w.id, "call", w) /\ IsItem(c, s, w, "call")
    BY ItemIs
  <2>5. c.id = w.id /\ c.kind = "call"
    BY <2>4 DEF IsItem
  <2>6. ~View!Known(Y, w.id, "call") => Good(Append(E, c), s)
    BY <2>2, <2>5, AppendGood
  <2>7. View!updateSessionMessage(Y, s, w) =
           IF w.call = "none" THEN E
           ELSE IF View!Known(Y, w.id, "call") THEN Changed(E, w, "call")
           ELSE Append(E, c)
    BY <2>2, <2>4, UpdateIs
  <2>8. Good(View!updateSessionMessage(Y, s, w), s)
    BY <2>2, <2>3, <2>6, <2>7
  <2> QED
    BY <1>w, <2>1, <2>8, Zenon
<1>5. w.type \in {"created", "updated"}
  BY DEF View!Write
<1> QED
  BY <1>1, <1>2, <1>3, <1>4, <1>5 DEF Own

\* A load makes a good chat.
LEMMA SetGood ==
  ASSUME NEW s, NEW n \in 0..Length
  PROVE  Good(View!setSessionMessages(s, n), s)
BY SetFacts DEF Good

-----------------------------------------------------------------------------
(* The queue *)

\* The events of the channel.
EventSet ==
  [kind : {"message"}, s : ViewSessions, n : 1..Length] \cup [kind : {"file"}, s : ViewSessions, n : {0}]

IsMessage(e, s) == e.kind = "message" /\ e.s = s

\* The queue Q has the writes of s from the (j + 1)-th to the k-th, in order.
InOrder(Q, s, j, k) ==
  /\ \A i \in DOMAIN Q : IsMessage(Q[i], s) => Q[i].n \in (j + 1)..k
  /\ \A a, b \in DOMAIN Q :
       IsMessage(Q[a], s) /\ IsMessage(Q[b], s) /\ a < b => Q[a].n < Q[b].n
  /\ \A n \in (j + 1)..k : \E i \in DOMAIN Q : IsMessage(Q[i], s) /\ Q[i].n = n

\* A queue without events of s has all its writes when there are none.
LEMMA NoEvents ==
  ASSUME NEW Q, NEW s, NEW j \in Nat, NEW k \in Nat, j <= k, \A i \in DOMAIN Q : ~IsMessage(Q[i], s)
  PROVE  InOrder(Q, s, j, k) <=> j = k
<1>1. ASSUME j = k PROVE InOrder(Q, s, j, k)
  <2>1. (j + 1)..k = {}
    BY <1>1
  <2> QED
    BY <2>1 DEF InOrder
<1>2. ASSUME InOrder(Q, s, j, k), j # k PROVE FALSE
  <2>1. j + 1 \in (j + 1)..k
    BY <1>2
  <2> QED
    BY <1>2, <2>1 DEF InOrder
<1> QED
  BY <1>1, <1>2

\* A write of s puts its event at the end, and no other event counts.
LEMMA EventAppended ==
  ASSUME NEW S, NEW Q \in Seq(S), NEW e \in S, NEW s, NEW j \in Nat, NEW k \in Nat, j <= k,
         InOrder(Q, s, j, k)
  PROVE  /\ ~IsMessage(e, s) => InOrder(Append(Q, e), s, j, k)
         /\ IsMessage(e, s) /\ e.n = k + 1 => InOrder(Append(Q, e), s, j, k + 1)
<1>a. Len(Q) \in Nat /\ Len(Q) + 1 \in Nat
  OBVIOUS
<1>n. PICK n \in Nat : n = Len(Q) + 1
  BY <1>a
<1>1. PICK A : A = Append(Q, e) /\ n = Len(Q) + 1
  BY <1>n
<1>2. /\ n \in DOMAIN A /\ A[n] = e
      /\ \A i \in DOMAIN Q : i \in Nat /\ i < n /\ i \in DOMAIN A /\ A[i] = Q[i]
      /\ \A i \in DOMAIN A : i \in DOMAIN Q \/ i = n
  <2>1. /\ n \in DOMAIN A /\ A[n] = e
        /\ \A i \in DOMAIN Q : i \in DOMAIN A /\ A[i] = Q[i]
        /\ \A i \in DOMAIN A : i \in DOMAIN Q \/ i = n
    BY <1>1, Appended
  <2>2. \A i \in DOMAIN Q : i \in Nat /\ i < n
    BY <1>1
  <2> QED
    BY <2>1, <2>2
<1>3. /\ \A i \in DOMAIN Q : IsMessage(Q[i], s) => Q[i].n \in (j + 1)..k
      /\ \A a, b \in DOMAIN Q :
           IsMessage(Q[a], s) /\ IsMessage(Q[b], s) /\ a < b => Q[a].n < Q[b].n
      /\ \A m \in (j + 1)..k : \E i \in DOMAIN Q : IsMessage(Q[i], s) /\ Q[i].n = m
  BY DEF InOrder
<1>4. ASSUME ~IsMessage(e, s) PROVE InOrder(A, s, j, k)
  <2>1. \A i \in DOMAIN A : IsMessage(A[i], s) => i \in DOMAIN Q /\ A[i] = Q[i]
    BY <1>2, <1>4
  <2>2. \A i \in DOMAIN A : IsMessage(A[i], s) => A[i].n \in (j + 1)..k
    BY <1>3, <2>1
  <2>3. \A a, b \in DOMAIN A :
           IsMessage(A[a], s) /\ IsMessage(A[b], s) /\ a < b => A[a].n < A[b].n
    BY <1>3, <2>1
  <2>4. \A m \in (j + 1)..k : \E i \in DOMAIN A : IsMessage(A[i], s) /\ A[i].n = m
    BY <1>2, <1>3
  <2> QED
    BY <2>2, <2>3, <2>4 DEF InOrder
<1>5. ASSUME IsMessage(e, s), e.n = k + 1 PROVE InOrder(A, s, j, k + 1)
  <2>1. \A i \in DOMAIN A : IsMessage(A[i], s) => A[i].n \in (j + 1)..(k + 1)
    <3>1. k + 1 \in (j + 1)..(k + 1) /\ \A m \in (j + 1)..k : m \in (j + 1)..(k + 1)
      OBVIOUS
    <3> QED
      BY <1>2, <1>3, <1>5, <3>1
  <2>2. ASSUME NEW a \in DOMAIN A, NEW b \in DOMAIN A, IsMessage(A[a], s), IsMessage(A[b], s), a < b
        PROVE  A[a].n < A[b].n
    <3>1. a \in DOMAIN Q /\ a \in Nat /\ A[a] = Q[a]
      <4>1. a # n
        <5>1. b \in Nat /\ ~(n < b)
          BY <1>2
        <5> QED
          BY <2>2, <5>1
      <4> QED
        BY <1>2, <4>1
    <3>2. CASE b = n
      <4>1. A[a].n \in (j + 1)..k /\ A[b].n = k + 1
        BY <1>2, <1>3, <1>5, <2>2, <3>1, <3>2
      <4> QED
        BY <4>1
    <3>3. CASE b # n
      BY <1>2, <1>3, <2>2, <3>1, <3>3
    <3> QED
      BY <3>2, <3>3
  <2>3. ASSUME NEW m \in (j + 1)..(k + 1) PROVE \E i \in DOMAIN A : IsMessage(A[i], s) /\ A[i].n = m
    <3>1. CASE m = k + 1
      BY <1>2, <1>5, <3>1
    <3>2. CASE m # k + 1
      <4>1. m \in (j + 1)..k
        BY <3>2
      <4> QED
        BY <1>2, <1>3, <4>1
    <3> QED
      BY <3>1, <3>2
  <2> QED
    BY <2>1, <2>2, <2>3 DEF InOrder
<1> QED
  BY <1>1, <1>4, <1>5

\* The first event of s is the one that comes next.
LEMMA EventHandled ==
  ASSUME NEW S, NEW Q \in Seq(S), Q # <<>>, NEW s, NEW j \in Nat, NEW k \in Nat, j <= k,
         InOrder(Q, s, j, k)
  PROVE  /\ ~IsMessage(Head(Q), s) => InOrder(Tail(Q), s, j, k)
         /\ IsMessage(Head(Q), s) =>
              Head(Q).n = j + 1 /\ j + 1 <= k /\ InOrder(Tail(Q), s, j + 1, k)
<1>a. Len(Q) \in Nat /\ Len(Q) > 0
  OBVIOUS
<1>n. PICK n \in Nat : n = Len(Q) /\ n > 0
  BY <1>a
<1>1. PICK T : T = Tail(Q) /\ n = Len(Q) /\ n > 0
  BY <1>n
<1>2. /\ DOMAIN Q = 1..n /\ DOMAIN T = 1..(n - 1) /\ Head(Q) = Q[1] /\ 1 \in 1..n
      /\ \A i \in 1..(n - 1) : i + 1 \in 1..n /\ T[i] = Q[i + 1]
  <2>1. T \in Seq(S) /\ Len(T) = n - 1 /\ \A i \in 1..(n - 1) : T[i] = Q[i + 1]
    BY <1>1, HeadTailProperties
  <2> QED
    BY <1>1, <2>1
<1>3. /\ \A i \in 1..n : IsMessage(Q[i], s) => Q[i].n \in (j + 1)..k
      /\ \A a, b \in 1..n :
           IsMessage(Q[a], s) /\ IsMessage(Q[b], s) /\ a < b => Q[a].n < Q[b].n
      /\ \A m \in (j + 1)..k : \E i \in 1..n : IsMessage(Q[i], s) /\ Q[i].n = m
  BY <1>2 DEF InOrder
<1>4. \A a, b \in 1..(n - 1) :
        IsMessage(T[a], s) /\ IsMessage(T[b], s) /\ a < b => T[a].n < T[b].n
  <2> SUFFICES ASSUME NEW a \in 1..(n - 1), NEW b \in 1..(n - 1),
                      IsMessage(T[a], s), IsMessage(T[b], s), a < b
               PROVE  T[a].n < T[b].n
    OBVIOUS
  <2>1. PICK c, d : c = a + 1 /\ d = b + 1 /\ c \in 1..n /\ d \in 1..n /\ c < d
    BY <1>2
  <2>2. T[a] = Q[c] /\ T[b] = Q[d]
    BY <1>2, <2>1
  <2> QED
    BY <1>3, <2>1, <2>2
<1>5. ASSUME NEW i \in 1..n, i # 1 PROVE \E c \in 1..(n - 1) : T[c] = Q[i]
  <2>1. i - 1 \in 1..(n - 1) /\ (i - 1) + 1 = i
    BY <1>5
  <2> QED
    BY <1>2, <2>1
<1>6. ASSUME ~IsMessage(Q[1], s) PROVE InOrder(T, s, j, k)
  <2>1. \A i \in 1..(n - 1) : IsMessage(T[i], s) => T[i].n \in (j + 1)..k
    BY <1>2, <1>3
  <2>2. ASSUME NEW m \in (j + 1)..k PROVE \E i \in 1..(n - 1) : IsMessage(T[i], s) /\ T[i].n = m
    <3>1. PICK i \in 1..n : IsMessage(Q[i], s) /\ Q[i].n = m
      BY <1>3
    <3>2. i # 1
      BY <1>6, <3>1
    <3> QED
      BY <1>5, <3>1, <3>2
  <2> QED
    BY <1>2, <1>4, <2>1, <2>2 DEF InOrder
<1>7. ASSUME IsMessage(Q[1], s)
      PROVE  Q[1].n = j + 1 /\ j + 1 <= k /\ InOrder(T, s, j + 1, k)
  <2>1. Q[1].n \in (j + 1)..k
    BY <1>2, <1>3, <1>7
  <2>2. j + 1 <= k /\ j + 1 \in (j + 1)..k
    BY <2>1
  <2>3. Q[1].n = j + 1
    <3>1. PICK i \in 1..n : IsMessage(Q[i], s) /\ Q[i].n = j + 1
      BY <1>3, <2>2
    <3>2. CASE i = 1
      BY <3>1, <3>2
    <3>3. CASE i # 1
      <4>1. 1 < i
        BY <3>3
      <4>2. Q[1].n < j + 1
        BY <1>2, <1>3, <1>7, <3>1, <4>1
      <4> QED
        BY <2>1, <4>2
    <3> QED
      BY <3>2, <3>3
  <2>4. ASSUME NEW i \in 1..(n - 1), IsMessage(T[i], s) PROVE T[i].n \in ((j + 1) + 1)..k
    <3>1. PICK c : c = i + 1 /\ c \in 1..n /\ 1 < c /\ T[i] = Q[c]
      BY <1>2
    <3>2. Q[1].n < Q[c].n /\ Q[c].n \in (j + 1)..k
      BY <1>2, <1>3, <1>7, <2>4, <3>1
    <3> QED
      BY <2>3, <3>1, <3>2
  <2>5. ASSUME NEW m \in ((j + 1) + 1)..k PROVE \E i \in 1..(n - 1) : IsMessage(T[i], s) /\ T[i].n = m
    <3>1. m \in (j + 1)..k /\ m # j + 1
      OBVIOUS
    <3>2. PICK i \in 1..n : IsMessage(Q[i], s) /\ Q[i].n = m
      BY <1>3, <3>1
    <3>3. i # 1
      BY <2>3, <3>1, <3>2
    <3> QED
      BY <1>5, <3>2, <3>3
  <2>6. InOrder(T, s, j + 1, k)
    BY <1>2, <1>4, <2>4, <2>5 DEF InOrder
  <2> QED
    BY <2>2, <2>3, <2>6
<1> QED
  BY <1>1, <1>2, <1>6, <1>7

\* A session with an unsteady answer stays one.
LEMMA UnsteadyStays ==
  ASSUME NEW n \in Nat, NEW m \in Nat, n <= m, View!Unsteady(n)
  PROVE  View!Unsteady(m)
<1>1. \A j \in 1..n : j \in 1..m
  OBVIOUS
<1> QED
  BY <1>1 DEF View!Unsteady

\* The chat has seen the first j events of s since some load, or none was
\* needed.
Follows(X, s, j, k) == \E v \in j..k : ~View!Unsteady(v) => Like(X, s, v, j)

\* The chat that handles the next event follows.
LEMMA FollowsStep ==
  ASSUME NEW s, NEW X, NEW j \in Nat, NEW k \in 0..Length, NEW p \in Nat, p = j + 1, p <= k,
         Follows(X, s, j, k)
  PROVE  Follows(View!Handle(X, s, Script[p]), s, p, k)
<1>0. Length \in Nat /\ k \in Nat
  BY ScriptType
<1>1. PICK v \in j..k : ~View!Unsteady(v) => Like(X, s, v, j)
  BY DEF Follows
<1>2. v \in 0..Length /\ v \in Nat /\ p \in 1..Length /\ p \in 0..Length
  BY <1>0
<1>3. CASE p <= v
  <2>1. p \in 1..v /\ v \in p..k
    BY <1>0, <1>2, <1>3
  <2>2. ~View!Unsteady(v) => Like(View!Handle(X, s, Script[p]), s, v, p)
    <3>1. ASSUME ~View!Unsteady(v) PROVE Like(View!Handle(X, s, Script[p]), s, v, p)
      <4>1. Like(X, s, v, j)
        BY <1>1, <3>1
      <4> QED
        BY <1>2, <2>1, <3>1, <4>1, LikeStep
    <3> QED
      BY <3>1
  <2> QED
    BY <2>1, <2>2 DEF Follows
<1>4. CASE ~(p <= v)
  <2>1. v = j /\ p \in p..k
    BY <1>0, <1>2, <1>4
  <2>2. ASSUME ~View!Unsteady(p) PROVE Like(View!Handle(X, s, Script[p]), s, p, p)
    <3>1. ~View!Unsteady(j)
      BY <2>2, UnsteadyStays
    <3>2. Like(X, s, j, j)
      BY <1>1, <2>1, <3>1
    <3>3. X = View!setSessionMessages(s, j)
      BY <1>2, <2>1, <3>2, LikeAtLast
    <3>4. View!Handle(View!setSessionMessages(s, j), s, Script[p]) = View!setSessionMessages(s, p)
      BY <1>2, <2>2, SetStep
    <3>5. Like(View!setSessionMessages(s, p), s, p, p)
      BY <1>2, LikeAtFirst
    <3> QED
      BY <3>3, <3>4, <3>5, Zenon
  <2> QED
    BY <2>1, <2>2 DEF Follows
<1> QED
  BY <1>3, <1>4

-----------------------------------------------------------------------------
(* The chat is the session *)

\* The types of the view: what is in the database is no more than Script, and the
\* chat is good.
ChatTypes ==
  /\ DOMAIN written \subseteq ViewSessions /\ written \in [DOMAIN written -> 0..Length]
  /\ running \subseteq DOMAIN written
  /\ events \in Seq(EventSet) /\ \A i \in DOMAIN events : events[i].s \in DOMAIN written
  /\ lost \in BOOLEAN
  /\ \A c \in cmds : c.s \in DOMAIN written
  /\ \/ shown = None /\ chat = <<>>
     \/ shown \in DOMAIN written /\ Good(chat, shown)

\* While no event was dropped, the queue has the writes of every session that
\* its chat, if it is in view, has not seen.
QueueInv ==
  ~lost => \A s \in DOMAIN written : \E j \in 0..written[s] :
             InOrder(events, s, j, written[s]) /\ (s = shown => Follows(chat, s, j, written[s]))

\* The inductive invariant.
ChatInv == ChatTypes /\ QueueInv

\* It holds at first, and each step keeps it.
LEMMA ChatStarts == TerminalInit => ChatInv
<1> SUFFICES ASSUME TerminalInit PROVE ChatInv
  OBVIOUS
<1>1. PICK c \in SUBSET ViewSessions : written = [s \in c |-> Length]
  BY DEF TerminalInit, View!Init, Length
<1>2. /\ running = {} /\ events = <<>> /\ lost = FALSE /\ shown = None /\ chat = <<>> /\ cmds = {}
  BY DEF TerminalInit, View!Init
<1>3. DOMAIN written = c /\ \A s \in c : written[s] = Length
  BY <1>1
<1>4. ChatTypes
  <2>1. Length \in 0..Length
    BY ScriptType
  <2>2. written \in [DOMAIN written -> 0..Length]
    BY <1>1, <2>1
  <2>3. <<>> \in Seq(EventSet) /\ DOMAIN <<>> = {}
    OBVIOUS
  <2> QED
    <3>1. events \in Seq(EventSet) /\ DOMAIN events = {}
      BY <1>2, <2>3
    <3>2. DOMAIN written \subseteq ViewSessions
      BY <1>3
    <3> QED
      BY <1>2, <2>2, <3>1, <3>2 DEF ChatTypes
<1>5. QueueInv
  <2>1. Length \in Nat /\ Length \in 0..Length
    BY ScriptType
  <2>2. ASSUME NEW s \in c
        PROVE  \E j \in 0..written[s] :
                 InOrder(events, s, j, written[s]) /\ (s = shown => Follows(chat, s, j, written[s]))
    <3>1. InOrder(<<>>, s, Length, Length)
      BY <2>1, NoEvents
    <3>2. s # shown
      <4>1. None \notin ViewSessions
        BY TerminalAssumption DEF View!ViewAssumption
      <4> QED
        BY <1>2, <4>1
    <3> QED
      BY <1>2, <1>3, <2>1, <3>1, <3>2
  <2> QED
    BY <1>3, <2>2 DEF QueueInv
<1> QED
  BY <1>4, <1>5 DEF ChatInv

\* The write of a message is the last of its queue, or lost.
LEMMA WriteKeepsChat ==
  ASSUME ChatInv, NEW t \in ViewSessions, View!WriteMessage(t)
  PROVE  ChatInv'
<1>a. ChatTypes /\ QueueInv
  BY DEF ChatInv
<1>0. Length \in Nat
  BY ScriptType
<1>1. /\ t \in running /\ t \in DOMAIN written /\ written[t] < Length /\ written[t] \in 0..Length
      /\ written' = [written EXCEPT ![t] = @ + 1]
      /\ running' = running /\ shown' = shown /\ chat' = chat /\ cmds' = cmds
  BY <1>a DEF View!WriteMessage, ChatTypes, Length
<1>2. PICK p : p = written[t] + 1 /\ p \in 1..Length /\ p \in 0..Length
  BY <1>0, <1>1
<1>3. /\ DOMAIN written' = DOMAIN written /\ written'[t] = p
      /\ \A s \in DOMAIN written : s # t => written'[s] = written[s]
      /\ \A s \in DOMAIN written : written[s] \in 0..Length
      /\ written' \in [DOMAIN written -> 0..Length]
  BY <1>1, <1>2, <1>a DEF ChatTypes
<1>e. PICK e \in EventSet : e = [kind |-> "message", s |-> t, n |-> p]
  BY <1>2 DEF EventSet
<1>4. \/ events' = Append(events, e) /\ lost' = lost
      \/ events' = events /\ lost' = TRUE
  BY <1>3, <1>e DEF View!WriteMessage, View!Publish
<1>5. events \in Seq(EventSet) /\ \A i \in DOMAIN events : events[i].s \in DOMAIN written
  BY <1>a DEF ChatTypes
<1>6. events' \in Seq(EventSet) /\ \A i \in DOMAIN events' : events'[i].s \in DOMAIN written
  <2>1. CASE events' = Append(events, e)
    <3>1. PICK A, n : A = Append(events, e) /\ n = Len(events) + 1
      OBVIOUS
    <3>2. /\ A \in Seq(EventSet) /\ A[n] = e /\ \A i \in DOMAIN events : A[i] = events[i]
          /\ \A i \in DOMAIN A : i \in DOMAIN events \/ i = n
      BY <1>5, <3>1, Appended
    <3>3. e.s \in DOMAIN written
      BY <1>1, <1>e
    <3> QED
      BY <1>5, <2>1, <3>1, <3>2, <3>3
  <2>2. CASE events' = events
    BY <1>5, <2>2
  <2> QED
    BY <1>4, <2>1, <2>2
<1>7. ChatTypes'
  <2>1. lost' \in BOOLEAN
    BY <1>4, <1>a DEF ChatTypes
  <2> QED
    BY <1>1, <1>3, <1>6, <1>a, <2>1 DEF ChatTypes
<1>8. QueueInv'
  <2> SUFFICES ASSUME ~lost', NEW s \in DOMAIN written
               PROVE  \E j \in 0..(written'[s]) :
                        /\ InOrder(events', s, j, written'[s])
                        /\ s = shown => Follows(chat, s, j, written'[s])
    BY <1>1, <1>3 DEF QueueInv
  <2>1. ~lost /\ events' = Append(events, e)
    BY <1>4
  <2>2. PICK j \in 0..written[s] :
          InOrder(events, s, j, written[s]) /\ (s = shown => Follows(chat, s, j, written[s]))
    BY <1>a, <2>1 DEF QueueInv
  <2>3. PICK k \in Nat : k = written[s] /\ j \in Nat /\ j <= k
    BY <1>0, <1>3
  <2>4. e.s = t /\ e.kind = "message" /\ e.n = p
    BY <1>e
  <2>5. CASE s # t
    <3>1. ~IsMessage(e, s)
      BY <2>4, <2>5 DEF IsMessage
    <3>2. InOrder(Append(events, e), s, j, k)
      BY <1>5, <2>2, <2>3, <3>1, EventAppended
    <3> QED
      BY <1>3, <2>1, <2>2, <2>3, <2>5, <3>2
  <2>6. CASE s = t
    <3>1. IsMessage(e, s) /\ e.n = k + 1
      BY <1>2, <2>3, <2>4, <2>6 DEF IsMessage
    <3>2. InOrder(Append(events, e), s, j, k + 1)
      BY <1>5, <2>2, <2>3, <3>1, EventAppended
    <3>3. k + 1 = p /\ p \in Nat /\ j \in 0..p
      BY <1>2, <2>3, <2>6
    <3>4. s = shown => Follows(chat, s, j, p)
      <4>1. \A v \in j..k : v \in j..p
        BY <2>3, <3>3
      <4> QED
        BY <2>2, <2>3, <4>1 DEF Follows
    <3> QED
      BY <1>3, <2>1, <2>6, <3>2, <3>3, <3>4
  <2> QED
    BY <2>5, <2>6
<1> QED
  BY <1>7, <1>8 DEF ChatInv

\* The event of a file is no message.
LEMMA FileKeepsChat ==
  ASSUME ChatInv, NEW t \in ViewSessions, View!WriteFile(t)
  PROVE  ChatInv'
<1>a. ChatTypes /\ QueueInv
  BY DEF ChatInv
<1>1. /\ t \in DOMAIN written /\ events = <<>>
      /\ written' = written /\ running' = running /\ shown' = shown /\ chat' = chat /\ cmds' = cmds
  BY <1>a DEF View!WriteFile, ChatTypes
<1>e. PICK e \in EventSet : e = [kind |-> "file", s |-> t, n |-> 0]
  BY DEF EventSet
<1>4. \/ events' = Append(events, e) /\ lost' = lost
      \/ events' = events /\ lost' = TRUE
  BY <1>e DEF View!WriteFile, View!Publish
<1>5. <<e>> \in Seq(EventSet) /\ DOMAIN <<e>> = {1} /\ <<e>>[1] = e
  <2> HIDE DEF EventSet
  <2> QED
    OBVIOUS
<1>6. events' \in Seq(EventSet) /\ \A i \in DOMAIN events' : events'[i].s \in DOMAIN written
  <2>1. CASE events' = Append(events, e)
    <3>1. events' = <<e>>
      BY <1>1, <2>1
    <3>2. e.s \in DOMAIN written
      BY <1>1, <1>e
    <3> QED
      BY <1>5, <3>1, <3>2, Zenon
  <2>2. CASE events' = events
    BY <1>a, <2>2 DEF ChatTypes
  <2> QED
    BY <1>4, <2>1, <2>2
<1>7. ChatTypes'
  <2>1. lost' \in BOOLEAN
    BY <1>4, <1>a DEF ChatTypes
  <2> QED
    BY <1>1, <1>6, <1>a, <2>1 DEF ChatTypes
<1>8. QueueInv'
  <2> SUFFICES ASSUME ~lost', NEW s \in DOMAIN written
               PROVE  \E j \in 0..written[s] :
                        /\ InOrder(events', s, j, written[s])
                        /\ s = shown => Follows(chat, s, j, written[s])
    BY <1>1 DEF QueueInv
  <2>1. ~lost /\ events' = Append(events, e)
    BY <1>4
  <2>2. PICK j \in 0..written[s] :
          InOrder(events, s, j, written[s]) /\ (s = shown => Follows(chat, s, j, written[s]))
    BY <1>a, <2>1 DEF QueueInv
  <2>3. PICK k \in Nat : k = written[s] /\ j \in Nat /\ j <= k
    BY <1>a, ScriptType DEF ChatTypes
  <2>4. ~IsMessage(e, s)
    BY <1>e DEF IsMessage
  <2>5. events \in Seq(EventSet)
    BY <1>a DEF ChatTypes
  <2>6. InOrder(Append(events, e), s, j, k)
    BY <2>2, <2>3, <2>4, <2>5, EventAppended
  <2> QED
    BY <2>1, <2>2, <2>3, <2>6
<1> QED
  BY <1>7, <1>8 DEF ChatInv

\* A new session has no writes, and its empty chat shows none.
LEMMA SendKeepsChat ==
  ASSUME ChatInv, NEW t \in ViewSessions, NEW reads \in BOOLEAN, View!sendMessage(t, reads)
  PROVE  ChatInv'
<1>a. ChatTypes /\ QueueInv
  BY DEF ChatInv
<1>0. Length \in Nat /\ 0 \in 0..Length /\ None \notin ViewSessions
  BY ScriptType, TerminalAssumption DEF View!ViewAssumption
<1>1. /\ running' = running /\ events' = events /\ lost' = lost /\ chat' = chat
      /\ View!Return((IF shown = None THEN {View!Cmd("load", t)} ELSE {})
              \cup (IF reads THEN {View!Cmd("reads", t)} ELSE {}) \cup {View!Cmd("run", t)})
  BY DEF View!sendMessage
<1>2. \A c \in cmds' : c \in cmds \/ c.s = t
  BY <1>1 DEF View!Return, View!Cmd
<1>3. CASE shown # None
  <2>1. t = shown /\ written' = written /\ shown' = shown
    BY <1>3 DEF View!sendMessage
  <2>2. t \in DOMAIN written
    BY <1>3, <1>a, <2>1 DEF ChatTypes
  <2> QED
    BY <1>1, <1>2, <1>a, <2>1, <2>2 DEF ChatInv, ChatTypes, QueueInv
<1>4. CASE shown = None
  <2>1. t \notin DOMAIN written /\ shown' = t
        /\ written' = [x \in DOMAIN written \cup {t} |-> IF x = t THEN 0 ELSE written[x]]
    BY <1>4 DEF View!sendMessage, View!created
  <2>2. /\ DOMAIN written' = DOMAIN written \cup {t} /\ written'[t] = 0
        /\ \A s \in DOMAIN written : written'[s] = written[s] /\ s # t
        /\ written' \in [DOMAIN written' -> 0..Length]
    BY <1>0, <1>a, <2>1 DEF ChatTypes
  <2>3. chat = <<>>
    BY <1>4, <1>0, <1>a DEF ChatTypes
  <2>4. View!setSessionMessages(t, 0) = <<>>
    <3>1. PICK Y \in Seq(ItemType(t)) : Y = View!setSessionMessages(t, 0)
      BY <1>0, SetFacts
    <3>2. \A id, kind : ~View!Known(Y, id, kind)
      <4>1. \A id, kind : View!Known(Y, id, kind) <=> Shown(id, kind, 0)
        BY <1>0, <3>1, SetFacts
      <4>2. \A id, kind : ~Shown(id, kind, 0)
        BY DEF Shown, Written
      <4> QED
        BY <4>1, <4>2
    <3>3. DOMAIN Y = {}
      BY <3>2, Zenon DEF View!Known
    <3>4. Y = <<>>
      <4> HIDE DEF ItemType
      <4> QED
        BY <3>3
    <3> QED
      BY <3>1, <3>4
  <2>5. ChatTypes'
    <3>1. Good(chat, t)
      BY <1>0, <2>3, <2>4, SetGood
    <3> QED
      BY <1>1, <1>2, <1>a, <2>1, <2>2, <3>1 DEF ChatTypes
  <2>6. QueueInv'
    <3> SUFFICES ASSUME ~lost, NEW s \in DOMAIN written \cup {t}
                 PROVE  \E j \in 0..(written'[s]) :
                          /\ InOrder(events, s, j, written'[s])
                          /\ s = t => Follows(chat, s, j, written'[s])
      BY <1>1, <2>1, <2>2 DEF QueueInv
    <3>1. CASE s = t
      <4>1. \A i \in DOMAIN events : ~IsMessage(events[i], s)
        BY <1>a, <2>1, <3>1 DEF ChatTypes, IsMessage
      <4>2. InOrder(events, s, 0, 0)
        BY <4>1, NoEvents
      <4>3. Like(chat, t, 0, 0)
        BY <1>0, <2>3, <2>4, LikeAtFirst
      <4>4. Follows(chat, t, 0, 0)
        BY <4>3 DEF Follows
      <4> QED
        BY <2>2, <3>1, <4>2, <4>4
    <3>2. CASE s # t
      <4>1. s \in DOMAIN written
        BY <3>2
      <4>2. PICK j \in 0..written[s] : InOrder(events, s, j, written[s])
        BY <1>a, <4>1 DEF QueueInv
      <4> QED
        BY <2>2, <3>2, <4>1, <4>2
    <3> QED
      BY <3>1, <3>2
  <2> QED
    BY <2>5, <2>6 DEF ChatInv
<1> QED
  BY <1>3, <1>4

\* The event that is handled is the next that the chat has to see.
LEMMA EventKeepsChat ==
  ASSUME ChatInv, View!HandleEvent
  PROVE  ChatInv'
<1>a. ChatTypes /\ QueueInv
  BY DEF ChatInv
<1>0. Length \in Nat
  BY ScriptType
<1>1. /\ events # <<>> /\ events' = Tail(events)
      /\ written' = written /\ running' = running /\ lost' = lost /\ shown' = shown
  BY DEF View!HandleEvent
<1>2. events \in Seq(EventSet) /\ \A i \in DOMAIN events : events[i].s \in DOMAIN written
  BY <1>a DEF ChatTypes
<1>e. PICK e \in EventSet : e = Head(events) /\ e.s \in DOMAIN written
  <2>1. 1 \in DOMAIN events /\ Head(events) = events[1] /\ events[1] \in EventSet
    <3> HIDE DEF EventSet
    <3> QED
      BY <1>1, <1>2
  <2> QED
    BY <1>2, <2>1
<1>3. e.kind = "message" => e.n \in 1..Length
  BY <1>e DEF EventSet
<1>4. /\ ~IsMessage(e, shown) => chat' = chat
      /\ IsMessage(e, shown) => chat' = View!Handle(chat, shown, Script[e.n])
      /\ \A c \in cmds' : c \in cmds \/ c.s = e.s
  BY <1>e DEF View!HandleEvent, IsMessage, View!Return, View!Cmd
<1>5. events' \in Seq(EventSet) /\ \A i \in DOMAIN events' : events'[i].s \in DOMAIN written
  <2>0. PICK T, n : T = Tail(events) /\ n = Len(events)
    OBVIOUS
  <2>1. /\ T \in Seq(EventSet) /\ Len(T) = n - 1 /\ n \in Nat /\ n > 0
        /\ \A i \in 1..(n - 1) : T[i] = events[i + 1]
    <3> HIDE DEF EventSet
    <3> QED
      BY <1>1, <1>2, <2>0, HeadTailProperties
  <2>2. \A i \in 1..(n - 1) : i + 1 \in DOMAIN events
    BY <1>2, <2>0, <2>1
  <2>3. DOMAIN T = 1..(n - 1)
    BY <2>1
  <2> QED
    BY <1>1, <1>2, <2>0, <2>1, <2>2, <2>3
<1>6. (shown = None /\ chat = <<>>) \/ (shown \in DOMAIN written /\ Good(chat, shown))
  BY <1>a DEF ChatTypes
<1>7. IsMessage(e, shown) => shown \in DOMAIN written
  BY <1>e DEF IsMessage
<1>b. None \notin DOMAIN written
  BY <1>a, TerminalAssumption DEF View!ViewAssumption, ChatTypes
<1>8. ChatTypes'
  <2>1. CASE IsMessage(e, shown)
    <3>1. e.n \in 1..Length /\ Good(chat, shown)
      BY <1>3, <1>6, <1>7, <1>b, <2>1 DEF IsMessage
    <3>2. Good(chat', shown)
      BY <1>4, <2>1, <3>1, HandleGood
    <3> QED
      BY <1>1, <1>4, <1>5, <1>7, <1>a, <1>e, <2>1, <3>2 DEF ChatTypes
  <2>2. CASE ~IsMessage(e, shown)
    BY <1>1, <1>4, <1>5, <1>a, <1>e, <2>2 DEF ChatTypes
  <2> QED
    BY <2>1, <2>2
<1>9. QueueInv'
  <2> SUFFICES ASSUME ~lost, NEW s \in DOMAIN written
               PROVE  \E j \in 0..written[s] :
                        /\ InOrder(events', s, j, written[s])
                        /\ s = shown => Follows(chat', s, j, written[s])
    BY <1>1 DEF QueueInv
  <2>2. PICK j \in 0..written[s] :
          InOrder(events, s, j, written[s]) /\ (s = shown => Follows(chat, s, j, written[s]))
    BY <1>a DEF QueueInv
  <2>3. PICK k \in 0..Length : k = written[s] /\ j \in Nat /\ j <= k /\ k \in Nat
    BY <1>a, <1>0 DEF ChatTypes
  <2>4. CASE ~IsMessage(e, s)
    <3>1. InOrder(events', s, j, k)
      BY <1>1, <1>2, <1>e, <2>2, <2>3, <2>4, EventHandled
    <3>2. s = shown => chat' = chat
      BY <1>4, <2>4
    <3> QED
      BY <2>2, <2>3, <3>1, <3>2
  <2>5. CASE IsMessage(e, s)
    <3>1. e.n = j + 1 /\ j + 1 <= k /\ InOrder(events', s, j + 1, k)
      BY <1>1, <1>2, <1>e, <2>2, <2>3, <2>5, EventHandled
    <3>2. PICK p \in Nat : p = j + 1 /\ p <= k /\ p = e.n
      BY <2>3, <3>1
    <3>3. ASSUME s = shown PROVE Follows(chat', s, p, k)
      <4>1. chat' = View!Handle(chat, s, Script[p])
        BY <1>4, <2>5, <3>2, <3>3
      <4>2. Follows(chat, s, j, k)
        BY <2>2, <2>3, <3>3
      <4>3. Follows(View!Handle(chat, s, Script[p]), s, p, k)
        BY <2>3, <3>2, <4>2, FollowsStep
      <4> QED
        BY <4>1, <4>3
    <3>4. p \in 0..k
      BY <2>3, <3>2
    <3> QED
      BY <2>3, <3>1, <3>2, <3>3, <3>4
  <2> QED
    BY <2>4, <2>5
<1> QED
  BY <1>8, <1>9 DEF ChatInv

\* A load reads all writes; the events of some of them may still come.
LEMMA LoadKeepsChat ==
  ASSUME ChatInv, NEW c, View!HandleLoad(c)
  PROVE  ChatInv'
<1>a. ChatTypes /\ QueueInv
  BY DEF ChatInv
<1>1. /\ c \in cmds /\ cmds' = cmds \ {c} /\ shown' = c.s
      /\ chat' = View!setSessionMessages(c.s, written[c.s])
      /\ lost' = (lost /\ events # <<>>)
      /\ written' = written /\ running' = running /\ events' = events
  BY DEF View!HandleLoad
<1>2. c.s \in DOMAIN written /\ written[c.s] \in 0..Length
  BY <1>1, <1>a DEF ChatTypes
<1>3. ChatTypes'
  <2>1. Good(chat', c.s)
    BY <1>1, <1>2, SetGood
  <2>2. lost' \in BOOLEAN
    BY <1>1
  <2> QED
    BY <1>1, <1>2, <1>a, <2>1, <2>2 DEF ChatTypes
<1>4. QueueInv'
  <2> SUFFICES ASSUME ~lost', NEW s \in DOMAIN written
               PROVE  \E j \in 0..written[s] :
                        /\ InOrder(events, s, j, written[s])
                        /\ s = c.s => Follows(chat', s, j, written[s])
    BY <1>1 DEF QueueInv
  <2>0. PICK k \in 0..Length : k = written[s] /\ k \in Nat
    BY <1>a, ScriptType DEF ChatTypes
  <2>1. PICK j \in 0..k : InOrder(events, s, j, k)
    <3>1. CASE ~lost
      BY <1>a, <2>0, <3>1 DEF QueueInv
    <3>2. CASE lost
      <4>1. events = <<>>
        BY <1>1, <3>2
      <4>2. InOrder(events, s, k, k)
        BY <2>0, <4>1, NoEvents
      <4>3. k \in 0..k
        BY <2>0
      <4> QED
        BY <4>2, <4>3
    <3> QED
      BY <3>1, <3>2
  <2>2. s = c.s => Follows(chat', s, j, k)
    <3>1. Like(View!setSessionMessages(s, k), s, k, j)
      BY LikeAtFirst
    <3>2. k \in j..k
      BY <2>0
    <3> QED
      BY <1>1, <2>0, <3>1, <3>2 DEF Follows
  <2> QED
    BY <2>0, <2>1, <2>2
<1> QED
  BY <1>3, <1>4 DEF ChatInv

\* Every step keeps the invariant.
LEMMA ChatStep ==
  ASSUME ChatInv, [TerminalNext]_<<part, l, view, vars>>
  PROVE  ChatInv'
<1>a. ChatTypes /\ QueueInv
  BY DEF ChatInv
<1>1. CASE UNCHANGED view
  BY <1>1, <1>a DEF view, ChatInv, ChatTypes, QueueInv
<1>2. ASSUME NEW t \in ViewSessions, View!EndTurn(t) PROVE ChatInv'
  BY <1>2, <1>a DEF View!EndTurn, ChatInv, ChatTypes, QueueInv
<1>3. ASSUME NEW t \in ViewSessions, View!SelectSession(t) PROVE ChatInv'
  <2>1. t \in DOMAIN written /\ \A c \in cmds' : c \in cmds \/ c.s = t
    BY <1>3 DEF View!SelectSession, View!created, View!Return, View!Cmd
  <2> QED
    BY <1>3, <1>a, <2>1 DEF View!SelectSession, ChatInv, ChatTypes, QueueInv
<1>4. ASSUME View!newSession PROVE ChatInv'
  <2>1. None \notin DOMAIN written
    BY <1>a, TerminalAssumption DEF View!ViewAssumption, ChatTypes
  <2>2. /\ shown' = None /\ chat' = <<>> /\ written' = written /\ running' = running
        /\ events' = events /\ lost' = lost /\ cmds' = cmds
    BY <1>4 DEF View!newSession
  <2>3. ChatTypes'
    BY <1>a, <2>2 DEF ChatTypes
  <2>4. QueueInv'
    BY <1>a, <2>1, <2>2 DEF QueueInv
  <2> QED
    BY <2>3, <2>4 DEF ChatInv
<1>5. ASSUME NEW c \in cmds, View!RunPrompt(c) \/ View!UseSession(c) PROVE ChatInv'
  BY <1>5, <1>a DEF View!RunPrompt, View!UseSession, ChatInv, ChatTypes, QueueInv
<1>6. CASE Update
  BY <1>2, <1>3, <1>4, <1>5, <1>6, WriteKeepsChat, FileKeepsChat, SendKeepsChat, EventKeepsChat,
    LoadKeepsChat DEF Update, View!Next
<1> QED
  BY <1>1, <1>6 DEF TerminalNext, Scroll, Press

\* A chat in which every event was handled shows the session.
LEMMA ChatIsShown == ChatInv => ChatShowsSession
<1> SUFFICES ASSUME ChatTypes, QueueInv PROVE View!ChatShowsSession
  BY DEF ChatInv, ChatShowsSession
<1>1. View!ItemsAreOfSession
  <2>1. CASE chat = <<>>
    BY <2>1 DEF View!ItemsAreOfSession
  <2>2. CASE Good(chat, shown)
    <3>1. \A i \in DOMAIN chat : chat[i] \in ItemType(shown)
      <4> HIDE DEF ItemType
      <4> QED
        BY <2>2 DEF Good
    <3>2. \A x \in ItemType(shown) : x.s = shown
      BY DEF ItemType
    <3>3. \A i, j \in DOMAIN chat : SameKey(chat[i], chat[j]) => i = j
      BY <2>2 DEF Good, NoneTwice
    <3> QED
      BY <3>1, <3>2, <3>3, Zenon DEF View!ItemsAreOfSession, SameKey
  <2> QED
    BY <2>1, <2>2 DEF ChatTypes
<1>2. ASSUME shown # None, events = <<>>, ~lost, ~View!Unsteady(written[shown])
      PROVE  chat = View!setSessionMessages(shown, written[shown])
  <2>1. shown \in DOMAIN written
    BY <1>2 DEF ChatTypes
  <2>2. PICK k \in 0..Length : k = written[shown] /\ k \in Nat
    BY <2>1, ScriptType DEF ChatTypes
  <2>3. PICK j \in 0..k : InOrder(events, shown, j, k) /\ Follows(chat, shown, j, k)
    BY <1>2, <2>1, <2>2 DEF QueueInv
  <2>4. j = k
    BY <1>2, <2>2, <2>3, NoEvents
  <2>5. Like(chat, shown, k, k)
    BY <1>2, <2>2, <2>3, <2>4 DEF Follows
  <2> QED
    BY <2>2, <2>5, LikeAtLast
<1> QED
  BY <1>1, <1>2 DEF View!ChatShowsSession

\* Whatever the events and loads come between, the chat in which every event was
\* handled is the one that a load would build, for any script of writes.
THEOREM ChatIsTheSession == TerminalSpec => []ChatShowsSession
<1>1. ChatInv /\ [TerminalNext]_<<part, l, view, vars>> => ChatInv'
  BY ChatStep
<1> QED
  BY <1>1, ChatStarts, ChatIsShown, PTL DEF TerminalSpec
=============================================================================

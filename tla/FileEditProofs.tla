--------------------------- MODULE FileEditProofs ---------------------------
(***************************************************************************)
(* Proofs about FileEdit: what a write may overwrite unseen, that a write   *)
(* counts as a read, and that every write can be undone, for any number of  *)
(* sessions, changes and seconds.                                           *)
(***************************************************************************)
EXTENDS FileEdit, TLAPS

-----------------------------------------------------------------------------
(* Types, and the order of stamps and times.                               *)

Calls == [pc : Phases, kind : {"view", "create", "edit", "write"},
          old : Contents, new : Contents, version : Nat, checked : 0..MaxStamp]

\* What is on the disk, in a call or was seen has been stamped, and no file is
\* younger than the clock.
Typed ==
  /\ disk \in Files
  /\ clock \in 1..MaxTime /\ stamp \in 0..MaxStamp
  /\ lastRead \in [Sessions -> 0..MaxTime]
  /\ call \in [Sessions -> Calls]
  /\ seen \in [Sessions -> Contents]
  /\ failed \subseteq Sessions
  /\ disk # Absent => disk.content.stamp \in 1..stamp /\ disk.mtime <= clock
  /\ \A s \in Sessions : /\ call[s].old.stamp <= stamp /\ call[s].new.stamp <= stamp
                        /\ call[s].checked <= stamp

\* The constants that calls start from.
LEMMA IdleIsCall ==
  /\ MaxTime \in Nat \ {0} /\ MaxStamp \in Nat \ {0} /\ InitialEndings \subseteq BOOLEAN
  /\ Idle \in Calls /\ Empty \in Contents /\ Empty.stamp = 0
  /\ Idle.old = Empty /\ Idle.new = Empty /\ Idle.checked = 0
BY BoundsArePositive DEF Idle, Calls, Phases, Empty, Contents

\* The types hold initially.
LEMMA TypedInit == Init => Typed
<1> SUFFICES ASSUME Init PROVE Typed
  OBVIOUS
<1>3. disk \in Files /\ stamp \in 0..MaxStamp /\ (disk # Absent => disk.content.stamp \in 1..stamp /\ disk.mtime <= 1)
  BY IdleIsCall DEF Init, Files, Contents
<1> QED
  BY <1>3, IdleIsCall DEF Init, Typed

-----------------------------------------------------------------------------
(* The rows of the history.                                                *)

IsLatest(m, rows) == m \in rows /\ \A v \in rows : v.version <= m.version

\* Rows have a latest one, and a call that is about to store one has a number
\* above those its session has.
RowInv ==
  /\ versions \subseteq [session : Sessions, version : Nat, content : Contents]
  /\ \A v \in versions : v.content.stamp <= stamp
  /\ versions # {} => \E m \in versions : IsLatest(m, versions)
  /\ \A s \in Sessions :
       /\ Of(s) # {} => \E m \in Of(s) : IsLatest(m, Of(s))
       /\ call[s].pc \in {"storing old", "storing new"}
            => \A v \in Of(s) : v.version < call[s].version

\* The maximum of a set of numbers that has one.
LEMMA MaxIsMax ==
  ASSUME NEW S \in SUBSET Nat, NEW m \in S, \A x \in S : x <= m
  PROVE  Max(S) \in S /\ \A x \in S : x <= Max(S)
BY DEF Max

\* The number CreateVersion tries first is above all that are there.
LEMMA NextIsAbove ==
  ASSUME RowInv
  PROVE  NextVersion \in Nat /\ \A v \in versions : v.version < NextVersion
<1>1. CASE versions = {}
  BY <1>1 DEF NextVersion
<1>2. CASE versions # {}
  <2> DEFINE S == {v.version : v \in versions}
  <2>1. S \in SUBSET Nat
    BY DEF RowInv
  <2>2. PICK m \in versions : \A v \in versions : v.version <= m.version
    BY <1>2 DEF RowInv, IsLatest
  <2>3. m.version \in S /\ \A x \in S : x <= m.version
    BY <2>2
  <2>4. Max(S) \in S /\ \A x \in S : x <= Max(S)
    BY <2>1, <2>3, MaxIsMax
  <2>5. NextVersion = Max(S) + 1
    BY <1>2 DEF NextVersion
  <2>6. \A v \in versions : v.version \in S /\ v.version \in Nat
    BY DEF RowInv
  <2> HIDE DEF S
  <2>7. Max(S) \in Nat /\ \A v \in versions : v.version <= Max(S)
    BY <2>1, <2>4, <2>6
  <2> QED
    BY <2>5, <2>6, <2>7
<1> QED
  BY <1>1, <1>2

\* The version that is inserted is the first one that is free.
LEMMA FreeHasMin ==
  ASSUME NEW s \in Sessions, NEW first \in Nat, Free(s, first) # {}
  PROVE  /\ Min(Free(s, first)) \in Nat /\ Min(Free(s, first)) >= first
         /\ \A v \in Of(s) : v.version # Min(Free(s, first))
<1> DEFINE F == Free(s, first)
<1>1. F \subseteq first..first + 2 /\ F # {}
  BY DEF Free
<1>2. \E m \in F : \A x \in F : m <= x
  <2>1. CASE first \in F
    BY <1>1, <2>1
  <2>2. CASE first \notin F /\ first + 1 \in F
    BY <1>1, <2>2
  <2>3. CASE first \notin F /\ first + 1 \notin F
    BY <1>1, <2>3
  <2> QED
    BY <2>1, <2>2, <2>3
<1>3. Min(F) \in F
  BY <1>2 DEF Min
<1> QED
  BY <1>1, <1>3 DEF Free

\* A call that is replaced by a typed one keeps the types.
LEMMA TypedCall ==
  ASSUME Typed, NEW s \in Sessions, NEW c \in Calls,
         call' = [call EXCEPT ![s] = c], c.old.stamp <= stamp, c.new.stamp <= stamp,
         c.checked <= stamp,
         UNCHANGED <<disk, clock, stamp>>,
         lastRead' \in [Sessions -> 0..MaxTime], seen' \in [Sessions -> Contents],
         failed' \subseteq Sessions
  PROVE  Typed'
BY DEF Typed

\* The types are kept by every step.
LEMMA TypedStep == Typed /\ RowInv /\ [Next]_vars => Typed'
<1> SUFFICES ASSUME Typed, RowInv, [Next]_vars PROVE Typed'
  OBVIOUS
<1>0. /\ MaxTime \in Nat \ {0} /\ MaxStamp \in Nat \ {0} /\ Empty \in Contents /\ Empty.stamp = 0
      /\ Idle \in Calls /\ Idle.old = Empty /\ Idle.new = Empty /\ Idle.checked = 0
      /\ stamp \in Nat /\ stamp <= stamp
  BY IdleIsCall DEF Typed
<1>1. CASE UNCHANGED vars
  BY <1>1 DEF vars, record, Typed
<1>2. ASSUME NEW s \in Sessions, View(s) PROVE Typed'
  <2>1. disk \in Files \ {Absent} /\ disk.content \in Contents /\ disk.content.stamp <= stamp
    BY <1>2 DEF View, Typed, Files
  <2>2. [Idle EXCEPT !.pc = "viewing", !.old = disk.content] \in Calls
    BY <1>0, <2>1 DEF Calls, Phases
  <2>3. /\ [Idle EXCEPT !.pc = "viewing", !.old = disk.content].old = disk.content
        /\ [Idle EXCEPT !.pc = "viewing", !.old = disk.content].new = Empty
        /\ [Idle EXCEPT !.pc = "viewing", !.old = disk.content].checked = 0
    BY <1>0 DEF Idle
  <2> QED
    BY <1>0, <1>2, <2>1, <2>2, <2>3, TypedCall DEF View, record, Typed
<1>3. ASSUME NEW s \in Sessions, ViewRecords(s) PROVE Typed'
  <2>1. /\ lastRead' = [lastRead EXCEPT ![s] = clock] /\ seen' = [seen EXCEPT ![s] = call[s].old]
        /\ call' = [call EXCEPT ![s] = Idle] /\ UNCHANGED <<disk, clock, stamp, versions, failed>>
    BY <1>3 DEF ViewRecords, End
  <2>2. call[s].old \in Contents
    BY DEF Typed, Calls
  <2>3. lastRead' \in [Sessions -> 0..MaxTime] /\ seen' \in [Sessions -> Contents]
    BY <1>0, <2>1, <2>2 DEF Typed
  <2> QED
    BY <1>0, <2>1, <2>3, TypedCall DEF Typed
<1>4. ASSUME NEW s \in Sessions, NEW phase \in {"reading", "asking"},
             NEW kind \in {"create", "edit", "write"}, Checked(s, phase, kind)
      PROVE  Typed'
  <2> DEFINE c == [Idle EXCEPT !.pc = phase, !.kind = kind, !.checked = stamp]
  <2>1. c \in Calls
    BY <1>0 DEF Calls, Phases, Typed
  <2>2. c.old = Empty /\ c.new = Empty /\ c.checked = stamp
    BY <1>0 DEF Calls
  <2> HIDE DEF c
  <2>3. call' = [call EXCEPT ![s] = c] /\ UNCHANGED <<disk, clock, stamp, lastRead, seen, failed>>
    BY <1>4 DEF Checked, record, c
  <2> QED
    BY <1>0, <2>1, <2>2, <2>3, TypedCall DEF Typed
<1>5. ASSUME NEW s \in Sessions, CreateNewFile(s) \/ Replace(s) \/ Write(s) PROVE Typed'
  <2>1. PICK phase \in {"reading", "asking"}, kind \in {"create", "edit", "write"} :
          Checked(s, phase, kind)
    BY <1>5, Zenon DEF CreateNewFile, Replace, Write
  <2> QED
    BY <1>4, <2>1
<1>6. ASSUME NEW s \in Sessions, ReadFile(s) PROVE Typed'
  <2>1. call[s] \in Calls /\ call[s].checked <= stamp
    BY DEF Typed
  <2>2. PICK crlf : crlf = (call[s].kind = "edit" /\ disk.content.crlf)
    OBVIOUS
  <2>3. PICK old \in Contents :
          /\ old = IF disk = Absent THEN Empty
                   ELSE IF call[s].kind = "edit" THEN Unix(disk.content) ELSE disk.content
          /\ old.stamp <= stamp
    <3>1. disk # Absent => disk.content \in Contents /\ disk.content.stamp <= stamp
      BY <1>0 DEF Typed, Files
    <3>2. \A c \in Contents : Unix(c) \in Contents /\ Unix(c).stamp = c.stamp
      BY DEF Contents, Unix
    <3> QED
      BY <1>0, <3>1, <3>2
  <2>4. crlf \in BOOLEAN
    BY <2>2
  <2>5. PICK c : c = [call[s] EXCEPT !.pc = "asking", !.old = old, !.new.crlf = crlf]
    OBVIOUS
  <2>6. c \in Calls /\ c.old = old /\ c.new.stamp = call[s].new.stamp /\ c.checked = call[s].checked
    BY <2>1, <2>3, <2>4, <2>5 DEF Calls, Contents, Phases
  <2>7. call[s].new.stamp <= stamp
    BY DEF Typed
  <2>8. call' = [call EXCEPT ![s] = c]
    BY <1>6, <2>2, <2>3, <2>5 DEF ReadFile
  <2>9. UNCHANGED <<disk, clock, stamp, lastRead, seen, failed>>
    BY <1>6 DEF ReadFile, record
  <2> QED
    BY <2>1, <2>3, <2>6, <2>7, <2>8, <2>9, TypedCall DEF Typed
<1>8. ASSUME NEW s \in Sessions, ReadFails(s) \/ Denied(s) \/ CreateFails(s) \/ RecordRead(s) \/ Cancel(s)
      PROVE  Typed'
  <2>1. /\ call' = [call EXCEPT ![s] = Idle] /\ UNCHANGED <<disk, clock, stamp, seen>>
        /\ failed' \in {failed, failed \union {s}}
        /\ lastRead' \in {lastRead, [lastRead EXCEPT ![s] = clock]}
    BY <1>8 DEF ReadFails, Denied, CreateFails, RecordRead, Cancel, Fail, End, record
  <2>2. lastRead' \in [Sessions -> 0..MaxTime] /\ failed' \subseteq Sessions
    BY <1>0, <2>1 DEF Typed
  <2>3. Idle.old.stamp <= stamp /\ Idle.new.stamp <= stamp /\ Idle.checked <= stamp
    BY <1>0
  <2>4. seen' \in [Sessions -> Contents] /\ UNCHANGED <<disk, clock, stamp>>
    BY <2>1 DEF Typed
  <2> QED
    BY <1>0, <2>1, <2>2, <2>3, <2>4, TypedCall
<1>9. ASSUME NEW s \in Sessions, WriteFile(s) PROVE Typed'
  <2> DEFINE new == Fresh(call[s].new.crlf)
             c == [Idle EXCEPT !.pc = AfterWrite(s), !.old = call[s].old, !.new = new]
  <2>1. /\ stamp' = stamp + 1 /\ stamp' \in 0..MaxStamp
        /\ disk' = [content |-> new, mtime |-> clock]
        /\ seen' = [seen EXCEPT ![s] = new] /\ call' = [call EXCEPT ![s] = c]
        /\ UNCHANGED <<clock, lastRead, failed>>
    BY <1>0, <1>9 DEF WriteFile, record
  <2>2. call[s] \in Calls /\ call[s].old \in Contents /\ call[s].new.crlf \in BOOLEAN
    BY DEF Typed, Calls, Contents
  <2>3. new \in Contents /\ new.stamp = stamp + 1
    BY <1>0, <2>1, <2>2 DEF Fresh, Contents
  <2>4. AfterWrite(s) \in Phases
    BY DEF AfterWrite, Keep, Phases
  <2> HIDE DEF new
  <2>5. c \in Calls /\ c.old = call[s].old /\ c.new = new /\ c.checked = 0
    BY <1>0, <2>2, <2>3, <2>4 DEF Calls, Idle
  <2> HIDE DEF c
  <2>6. disk' \in Files /\ disk'.content.stamp = stamp + 1 /\ disk'.mtime = clock
    BY <2>1, <2>3 DEF Typed, Files
  <2>7. \A t \in Sessions : /\ call'[t].old.stamp <= stamp' /\ call'[t].new.stamp <= stamp'
                           /\ call'[t].checked <= stamp'
    <3>1. \A t \in Sessions : /\ call[t].old.stamp \in Nat /\ call[t].old.stamp <= stamp
                              /\ call[t].new.stamp \in Nat /\ call[t].new.stamp <= stamp
                              /\ call[t].checked \in Nat /\ call[t].checked <= stamp
      BY DEF Typed, Calls, Contents
    <3>2. \A t \in Sessions : call'[t] = IF t = s THEN c ELSE call[t]
      BY <2>1 DEF Typed
    <3> QED
      BY <1>0, <2>1, <2>3, <2>5, <3>1, <3>2
  <2>8. call' \in [Sessions -> Calls] /\ seen' \in [Sessions -> Contents]
    BY <2>1, <2>3, <2>5 DEF Typed
  <2>9. stamp' \in 1..stamp' /\ clock <= clock'
    BY <1>0, <2>1 DEF Typed
  <2> QED
    BY <1>0, <2>1, <2>6, <2>7, <2>8, <2>9 DEF Typed
<1>10. ASSUME NEW s \in Sessions,
              Create(s) \/ ListFiles(s) \/ StoreOld(s) \/ StoreNew(s) \/ StoreFails(s)
       PROVE  Typed'
  <2>1. /\ UNCHANGED <<disk, clock, stamp, lastRead, seen>>
        /\ failed' \in {failed, failed \union {s}}
    BY <1>10 DEF Create, ListFiles, StoreOld, StoreNew, StoreFails, Fail, record
  <2>2. ASSUME NEW pc \in Phases, NEW n \in Nat,
               call' = [call EXCEPT ![s] = [call[s] EXCEPT !.pc = pc, !.version = n]]
        PROVE  Typed'
    <3> DEFINE c == [call[s] EXCEPT !.pc = pc, !.version = n]
    <3>1. call[s] \in Calls
      BY DEF Typed
    <3>2. c \in Calls /\ c.old = call[s].old /\ c.new = call[s].new /\ c.checked = call[s].checked
      BY <3>1 DEF Calls
    <3>3. c.old.stamp <= stamp /\ c.new.stamp <= stamp /\ c.checked <= stamp
      BY <3>2 DEF Typed
    <3>4. failed' \subseteq Sessions
      BY <2>1 DEF Typed
    <3> QED
      BY <2>1, <2>2, <3>2, <3>3, <3>4, TypedCall DEF Typed
  <2>3. ASSUME NEW pc \in Phases, Goto(s, pc) PROVE Typed'
    <3>1. call[s] \in Calls /\ call[s].version \in Nat
      BY DEF Typed, Calls
    <3>2. call' = [call EXCEPT ![s] = [call[s] EXCEPT !.pc = pc, !.version = call[s].version]]
      BY <2>3, <3>1 DEF Goto, Typed, Calls
    <3> QED
      BY <2>2, <3>1, <3>2
  <2>4. CASE Create(s)
    BY <2>3, <2>4 DEF Create, Keep, Phases
  <2>5. CASE ListFiles(s)
    <3> DEFINE pc == IF call[s].pc = "listing old" THEN "storing old" ELSE "storing new"
    <3>1. pc \in Phases /\ NextVersion \in Nat
      BY NextIsAbove DEF Phases
    <3>2. call' = [call EXCEPT ![s] = [call[s] EXCEPT !.pc = pc, !.version = NextVersion]]
      BY <2>5 DEF ListFiles, Typed, Calls
    <3> QED
      BY <2>2, <3>1, <3>2
  <2>6. CASE StoreOld(s) \/ StoreNew(s) \/ StoreFails(s)
    BY <2>3, <2>6 DEF StoreOld, StoreNew, StoreFails, Phases
  <2> QED
    BY <1>10, <2>4, <2>5, <2>6
<1>11. CASE Change
  <2> DEFINE new == Fresh(disk # Absent /\ disk.content.crlf)
  <2>1. /\ stamp' = stamp + 1 /\ stamp' \in 0..MaxStamp /\ stamp' \in 1..stamp'
        /\ disk' = [content |-> new, mtime |-> clock]
        /\ UNCHANGED <<clock, lastRead, call, seen, failed>>
    BY <1>0, <1>11 DEF Change, record
  <2>2. new \in Contents /\ new.stamp = stamp + 1
    <3>1. (disk # Absent /\ disk.content.crlf) \in BOOLEAN
      OBVIOUS
    <3> QED
      BY <1>0, <2>1, <3>1 DEF Fresh, Contents
  <2> HIDE DEF new
  <2>3. disk' \in Files /\ disk'.content.stamp = stamp + 1 /\ disk'.mtime = clock
    BY <2>1, <2>2 DEF Typed, Files
  <2>4. \A t \in Sessions : /\ call[t].old.stamp <= stamp' /\ call[t].new.stamp <= stamp'
                           /\ call[t].checked <= stamp'
    BY <1>0, <2>1 DEF Typed, Calls, Contents
  <2>5. clock <= clock'
    BY <1>0, <2>1 DEF Typed
  <2> QED
    BY <2>1, <2>3, <2>4, <2>5 DEF Typed
<1>12. CASE Remove
  BY <1>12 DEF Remove, record, Typed, Files
<1>13. CASE Tick
  <2>1. /\ clock' = clock + 1 /\ clock' \in 1..MaxTime
        /\ UNCHANGED <<disk, stamp, lastRead, call, seen, failed>>
    BY <1>0, <1>13 DEF Tick, record, Typed
  <2>2. disk # Absent => disk.content.stamp \in 1..stamp /\ disk.mtime <= clock'
    BY <1>0, <2>1 DEF Typed, Files
  <2> QED
    BY <2>1, <2>2 DEF Typed
<1> QED
  BY <1>1, <1>2, <1>3, <1>5, <1>6, <1>8, <1>9, <1>10, <1>11, <1>12, <1>13 DEF Next

-----------------------------------------------------------------------------

Storing == {"storing old", "storing new"}

\* The rows hold initially.
LEMMA RowInit == Init => RowInv
<1>1. Idle.pc = "idle"
  BY DEF Idle
<1> QED
  BY <1>1 DEF Init, RowInv, Of

\* Rows and calls have stamps that were given.
LEMMA StampsAreGiven ==
  ASSUME RowInv, Typed
  PROVE  /\ stamp \in Nat
         /\ \A v \in versions : v.content.stamp \in Nat /\ v.content.stamp <= stamp
         /\ \A t \in Sessions : call[t].checked \in Nat /\ call[t].checked <= stamp
<1>1. stamp \in Nat /\ \A c \in Contents : c.stamp \in Nat
  BY IdleIsCall DEF Typed, Contents
<1>2. \A v \in versions : v.content \in Contents /\ v.content.stamp <= stamp
  BY DEF RowInv
<1>3. \A t \in Sessions : call[t].checked \in 0..MaxStamp /\ call[t].checked <= stamp
  BY DEF Typed, Calls
<1> QED
  BY <1>1, <1>2, <1>3

\* A step that adds no row, and after which no other call is about to, keeps
\* the rows.
LEMMA RowsKept ==
  ASSUME RowInv, Typed, versions' = versions, stamp' \in {stamp, stamp + 1},
         \A t \in Sessions : call'[t].pc \in Storing =>
           \/ call'[t] = call[t]
           \/ \A v \in Of(t) : v.version < call'[t].version
  PROVE  RowInv' /\ \A t \in Sessions : Of(t)' = Of(t)
<1>1. \A t \in Sessions : Of(t)' = Of(t)
  BY DEF Of
<1>2. \A v \in versions : v.content.stamp <= stamp'
  BY StampsAreGiven
<1>3. ASSUME NEW t \in Sessions, call'[t].pc \in Storing
      PROVE  \A v \in Of(t) : v.version < call'[t].version
  BY <1>3 DEF RowInv, Storing
<1> QED
  BY <1>1, <1>2, <1>3 DEF RowInv, Storing

\* A row that a call adds, with a number its session does not have.
LEMMA RowAdded ==
  ASSUME RowInv, Typed, NEW s \in Sessions, NEW n \in Nat, NEW c \in Contents,
         c.stamp <= stamp, stamp' = stamp,
         versions' = versions \union {[session |-> s, version |-> n, content |-> c]},
         call'[s].pc \notin Storing, \A t \in Sessions \ {s} : call'[t] = call[t]
  PROVE  /\ RowInv'
         /\ Of(s)' = Of(s) \union {[session |-> s, version |-> n, content |-> c]}
         /\ \A t \in Sessions \ {s} : Of(t)' = Of(t)
<1> DEFINE r == [session |-> s, version |-> n, content |-> c]
<1>0. /\ r \in [session : Sessions, version : Nat, content : Contents]
      /\ r.session = s /\ r.version = n /\ r.content = c
  OBVIOUS
<1>1. versions' = versions \union {r}
  OBVIOUS
<1> HIDE DEF r
<1>2. Of(s)' = Of(s) \union {r} /\ \A t \in Sessions \ {s} : Of(t)' = Of(t)
  BY <1>0, <1>1 DEF Of
<1>3. /\ versions' \subseteq [session : Sessions, version : Nat, content : Contents]
      /\ \A v \in versions' : v.content.stamp <= stamp'
  BY <1>0, <1>1 DEF RowInv
<1>4. ASSUME NEW R \in SUBSET versions, R # {} => \E m \in R : IsLatest(m, R)
      PROVE  \E m \in R \union {r} : IsLatest(m, R \union {r})
  <2>1. \A v \in R : v.version \in Nat
    BY DEF RowInv
  <2>2. CASE \E m \in R : IsLatest(m, R) /\ n <= m.version
    BY <1>0, <2>1, <2>2 DEF IsLatest
  <2>3. CASE \A v \in R : v.version <= n
    BY <1>0, <2>1, <2>3 DEF IsLatest
  <2>4. CASE \E m \in R : IsLatest(m, R) /\ ~(n <= m.version)
    BY <2>1, <2>3, <2>4 DEF IsLatest
  <2> QED
    BY <1>4, <2>2, <2>3, <2>4
<1>5. \E m \in versions' : IsLatest(m, versions')
  BY <1>1, <1>4 DEF RowInv
<1>6. ASSUME NEW t \in Sessions
      PROVE  /\ Of(t)' # {} => \E m \in Of(t)' : IsLatest(m, Of(t)')
             /\ call'[t].pc \in Storing => \A v \in Of(t)' : v.version < call'[t].version
  <2>1. Of(s) \in SUBSET versions
    BY DEF Of
  <2>2. CASE t = s
    BY <1>2, <1>4, <2>1, <2>2 DEF RowInv
  <2>3. CASE t # s
    BY <1>2, <2>3 DEF RowInv, Storing
  <2> QED
    BY <2>2, <2>3
<1>7. RowInv'
  BY <1>3, <1>5, <1>6 DEF RowInv, Storing
<1> QED
  BY <1>2, <1>7 DEF r

\* The row GetFileByPathAndSession returns is a latest one.
LEMMA LatestIsLatest ==
  ASSUME RowInv, NEW s \in Sessions, Of(s) # {}
  PROVE  Latest(s) \in Of(s) /\ IsLatest(Latest(s), Of(s))
BY DEF RowInv, IsLatest, Latest

-----------------------------------------------------------------------------
(* What a call may rely on.                                                *)

Quiet == {"idle", "viewing", "reading", "asking"}
Stored == {"listing new", "storing new", "recording"}

HasOlder(m, rows) == \E v \in rows : v.version < m.version

\* Until a call writes, a content that was there when it looked at the file is
\* no later than the recorded read.
AskInv(s) ==
  /\ call[s].pc \in {"reading", "asking"}
  /\ disk # Absent /\ disk.content.stamp <= call[s].checked
  => disk.mtime <= lastRead[s]

\* The history of a session that lost no work: what a call has replaced is in
\* it when the call comes to the new content, its end is what the last call
\* wrote, and as long as that is on the disk it counts as read.
DoneInv(s) ==
  s \notin failed =>
    /\ call[s].pc \in Stored \union {"listing old", "storing old"} => Of(s) # {}
    /\ call[s].pc \in Stored /\ call[s].old # Empty => \E v \in Of(s) : v.content = call[s].old
    /\ \A m \in Of(s) : IsLatest(m, Of(s)) =>
         /\ call[s].pc = "recording" => m.content = call[s].new /\ HasOlder(m, Of(s))
         /\ call[s].pc \in Quiet =>
              /\ HasOlder(m, Of(s))
              /\ disk # Absent /\ disk.content.stamp = m.content.stamp => disk.mtime <= lastRead[s]

CallInv(s) == AskInv(s) /\ DoneInv(s)

\* What a step does to the file: nothing, remove it, or give it a new stamp.
DiskMoves == disk' = disk \/ disk' = Absent \/ disk'.content.stamp = stamp + 1

\* A step of somebody else keeps what a call relies on.
LEMMA OthersKept ==
  ASSUME RowInv, Typed, NEW t \in Sessions, CallInv(t), DiskMoves,
         call'[t] = call[t], Of(t)' = Of(t), lastRead'[t] = lastRead[t],
         t \in failed => t \in failed'
  PROVE  CallInv(t)'
<1>1. \A v \in Of(t) : v.content.stamp \in Nat /\ v.content.stamp <= stamp
  BY StampsAreGiven DEF Of
<1>2. call[t].checked \in Nat /\ call[t].checked <= stamp /\ stamp \in Nat
  BY StampsAreGiven
<1>3. AskInv(t)'
  BY <1>2 DEF CallInv, AskInv, DiskMoves
<1>4. DoneInv(t)'
  <2>1. CASE t \in failed
    BY <2>1 DEF DoneInv
  <2>2. CASE t \notin failed
    <3>1. ASSUME NEW m \in Of(t), IsLatest(m, Of(t)), call[t].pc \in Quiet,
                 disk' # Absent, disk'.content.stamp = m.content.stamp
          PROVE  disk'.mtime <= lastRead[t]
      <4>1. disk' = disk
        BY <1>1, <1>2, <3>1 DEF DiskMoves
      <4> QED
        BY <2>2, <3>1, <4>1 DEF CallInv, DoneInv
    <3>2. DoneInv(t)
      BY DEF CallInv
    <3> QED
      BY <2>2, <3>1, <3>2 DEF DoneInv
  <2> QED
    BY <2>1, <2>2
<1> QED
  BY <1>3, <1>4 DEF CallInv

\* A call that ends or waits with the rows as they were.
LEMMA QuietKept ==
  ASSUME Typed, NEW s \in Sessions, CallInv(s), disk' = disk, Of(s)' = Of(s),
         call[s].pc \in Quiet \union {"recording"}, call'[s].pc \in Quiet,
         failed' = failed, AskInv(s)',
         \/ lastRead'[s] = lastRead[s] /\ call[s].pc \in Quiet
         \/ lastRead'[s] = clock
  PROVE  CallInv(s)'
<1>1. disk # Absent => disk.mtime <= clock
  BY DEF Typed
<1>2. DoneInv(s)'
  BY <1>1 DEF CallInv, DoneInv, Quiet, Stored
<1> QED
  BY <1>2 DEF CallInv

-----------------------------------------------------------------------------

IInv == Typed /\ RowInv /\ \A s \in Sessions : CallInv(s)

\* The invariant holds initially.
LEMMA InvInit == Init => IInv
<1>1. Idle.pc = "idle"
  BY DEF Idle
<1>2. Init => \A s \in Sessions : CallInv(s)
  BY <1>1 DEF Init, CallInv, AskInv, DoneInv, Of, Stored, Quiet
<1> QED
  BY <1>2, TypedInit, RowInit DEF IInv

\* A call that has looked at the file.
LEMMA CheckKept ==
  ASSUME IInv, NEW s \in Sessions, NEW phase \in {"reading", "asking"}, NEW kind,
         Checked(s, phase, kind), disk # Absent => disk.mtime <= lastRead[s]
  PROVE  RowInv' /\ \A t \in Sessions : CallInv(t)'
<1> DEFINE c == [Idle EXCEPT !.pc = phase, !.kind = kind, !.checked = stamp]
<1>1. /\ call[s].pc = "idle" /\ call' = [call EXCEPT ![s] = c]
      /\ UNCHANGED <<disk, clock, stamp, lastRead, versions, seen, failed>>
  BY DEF Checked, record
<1>2. c.pc = phase
  BY DEF Idle
<1> HIDE DEF c
<1>3. call'[s] = c /\ \A t \in Sessions \ {s} : call'[t] = call[t]
  BY <1>1 DEF IInv, Typed
<1>4. RowInv' /\ \A t \in Sessions : Of(t)' = Of(t)
  BY <1>1, <1>2, <1>3, RowsKept DEF IInv, Storing
<1>5. AskInv(s)'
  BY <1>1 DEF AskInv
<1>6. CallInv(s)'
  BY <1>1, <1>2, <1>3, <1>4, <1>5, QuietKept DEF IInv, Quiet
<1>7. ASSUME NEW t \in Sessions \ {s} PROVE CallInv(t)'
  BY <1>1, <1>3, <1>4, OthersKept DEF IInv, DiskMoves
<1> QED
  BY <1>4, <1>6, <1>7

\* A call that has read the file.
LEMMA ReadKept ==
  ASSUME IInv, NEW s \in Sessions, ReadFile(s)
  PROVE  RowInv' /\ \A t \in Sessions : CallInv(t)'
<1>1. /\ call[s].pc = "reading"
      /\ UNCHANGED <<disk, clock, stamp, lastRead, versions, seen, failed>>
      /\ call'[s].pc = "asking" /\ call'[s].checked = call[s].checked
      /\ \A t \in Sessions \ {s} : call'[t] = call[t]
  BY DEF ReadFile, record, IInv, Typed, Calls
<1>2. RowInv' /\ \A t \in Sessions : Of(t)' = Of(t)
  BY <1>1, RowsKept DEF IInv, Storing
<1>3. AskInv(s)'
  BY <1>1 DEF IInv, CallInv, AskInv
<1>4. CallInv(s)'
  BY <1>1, <1>2, <1>3, QuietKept DEF IInv, Quiet
<1>5. ASSUME NEW t \in Sessions \ {s} PROVE CallInv(t)'
  BY <1>1, <1>2, OthersKept DEF IInv, DiskMoves
<1> QED
  BY <1>2, <1>4, <1>5

\* A call that adds a row keeps the rows and what the others rely on.
LEMMA InsertKept ==
  ASSUME IInv, NEW s \in Sessions, NEW n \in Nat, NEW c \in Contents, c.stamp <= stamp,
         versions' = versions \union {[session |-> s, version |-> n, content |-> c]},
         call'[s].pc \notin Storing, \A t \in Sessions \ {s} : call'[t] = call[t],
         disk' = disk, stamp' = stamp, lastRead' = lastRead, failed' = failed
  PROVE  /\ RowInv' /\ \A t \in Sessions \ {s} : CallInv(t)'
         /\ Of(s)' = Of(s) \union {[session |-> s, version |-> n, content |-> c]}
<1>1. /\ RowInv'
      /\ Of(s)' = Of(s) \union {[session |-> s, version |-> n, content |-> c]}
      /\ \A t \in Sessions \ {s} : Of(t)' = Of(t)
  BY RowAdded DEF IInv
<1>2. ASSUME NEW t \in Sessions \ {s} PROVE CallInv(t)'
  BY <1>1, OthersKept DEF IInv, DiskMoves
<1> QED
  BY <1>1, <1>2

\* A call that goes on keeps its contents, and the others their calls.
LEMMA GoneOn ==
  ASSUME Typed, NEW s \in Sessions, NEW pc, Goto(s, pc)
  PROVE  /\ call'[s].pc = pc /\ call'[s].old = call[s].old /\ call'[s].new = call[s].new
         /\ \A t \in Sessions \ {s} : call'[t] = call[t]
BY DEF Goto, Typed, Calls

\* The invariant is kept by every step.
LEMMA InvStep == IInv /\ [Next]_vars => IInv'
<1> SUFFICES ASSUME IInv, [Next]_vars PROVE RowInv' /\ \A t \in Sessions : CallInv(t)'
  BY TypedStep DEF IInv
<1>0. /\ Typed /\ RowInv /\ \A t \in Sessions : CallInv(t)
      /\ stamp \in Nat /\ Idle.pc = "idle"
  BY StampsAreGiven DEF IInv, Idle
<1>1. CASE \/ UNCHANGED vars \/ Change \/ Remove \/ Tick
  <2>1. /\ UNCHANGED <<versions, call, lastRead, failed>> /\ DiskMoves
        /\ stamp' \in {stamp, stamp + 1}
    BY <1>1 DEF vars, Change, Remove, Tick, Fresh, record, DiskMoves
  <2>2. RowInv' /\ \A t \in Sessions : Of(t)' = Of(t)
    BY <1>0, <2>1, RowsKept
  <2> QED
    BY <1>0, <2>1, <2>2, OthersKept
<1>2. ASSUME NEW s \in Sessions,
             View(s) \/ ViewRecords(s) \/ ReadFails(s) \/ Denied(s) \/ RecordRead(s)
      PROVE  RowInv' /\ \A t \in Sessions : CallInv(t)'
  <2>1. /\ UNCHANGED <<disk, clock, stamp, versions, failed>>
        /\ call[s].pc \in Quiet \union {"recording"}
        /\ \/ lastRead' = lastRead /\ call[s].pc \in Quiet
           \/ lastRead' = [lastRead EXCEPT ![s] = clock]
    BY <1>2 DEF View, ViewRecords, ReadFails, Denied, RecordRead, record, Quiet
  <2>2. PICK c : call' = [call EXCEPT ![s] = c] /\ c.pc \in {"idle", "viewing"}
    BY <1>0, <1>2 DEF View, ViewRecords, ReadFails, Denied, RecordRead, End, Idle
  <2>3. call'[s] = c /\ \A t \in Sessions \ {s} : call'[t] = call[t]
    BY <1>0, <2>2 DEF Typed
  <2>4. /\ lastRead'[s] = clock \/ (lastRead'[s] = lastRead[s] /\ call[s].pc \in Quiet)
        /\ \A t \in Sessions \ {s} : lastRead'[t] = lastRead[t]
    BY <1>0, <2>1 DEF Typed
  <2>5. RowInv' /\ \A t \in Sessions : Of(t)' = Of(t)
    BY <1>0, <2>1, <2>2, <2>3, RowsKept DEF Storing
  <2>6. AskInv(s)'
    BY <2>2, <2>3 DEF AskInv
  <2>7. CallInv(s)'
    BY <1>0, <2>1, <2>2, <2>3, <2>4, <2>5, <2>6, QuietKept DEF Quiet
  <2>8. ASSUME NEW t \in Sessions \ {s} PROVE CallInv(t)'
    BY <1>0, <2>1, <2>3, <2>4, <2>5, OthersKept DEF DiskMoves
  <2> QED
    BY <2>5, <2>7, <2>8
<1>3. ASSUME NEW s \in Sessions, CreateNewFile(s) \/ Replace(s) \/ Write(s)
      PROVE  RowInv' /\ \A t \in Sessions : CallInv(t)'
  <2>1. PICK phase \in {"reading", "asking"}, kind \in {"create", "edit", "write"} :
          Checked(s, phase, kind) /\ (disk # Absent => ~Stale(s))
    BY <1>3, Zenon DEF CreateNewFile, Replace, Write
  <2>2. disk # Absent => disk.mtime <= lastRead[s]
    BY <1>0, <2>1, IdleIsCall DEF Stale, Typed, Files
  <2> QED
    BY <2>1, <2>2, CheckKept
<1>4. ASSUME NEW s \in Sessions, ReadFile(s)
      PROVE  RowInv' /\ \A t \in Sessions : CallInv(t)'
  BY <1>4, ReadKept
<1>6. ASSUME NEW s \in Sessions, WriteFile(s)
      PROVE  RowInv' /\ \A t \in Sessions : CallInv(t)'
  <2> DEFINE new == Fresh(call[s].new.crlf)
             c == [Idle EXCEPT !.pc = AfterWrite(s), !.old = call[s].old, !.new = new]
  <2>1. /\ disk' = [content |-> new, mtime |-> clock] /\ stamp' = stamp + 1
        /\ call' = [call EXCEPT ![s] = c]
        /\ UNCHANGED <<clock, lastRead, versions, failed>>
    BY <1>6 DEF WriteFile, record
  <2>2. new.stamp = stamp + 1
    BY DEF Fresh
  <2> HIDE DEF new
  <2>3. c.pc = AfterWrite(s) /\ c.old = call[s].old
    BY DEF Idle
  <2> HIDE DEF c
  <2>4. call'[s] = c /\ \A t \in Sessions \ {s} : call'[t] = call[t]
    BY <1>0, <2>1 DEF Typed
  <2>5. \/ AfterWrite(s) = "creating"
        \/ /\ AfterWrite(s) \in {"listing old", "listing new"} /\ Of(s) # {}
           /\ AfterWrite(s) = "listing new" => Latest(s).content = call[s].old
    BY DEF AfterWrite, Keep
  <2>6. RowInv' /\ \A t \in Sessions : Of(t)' = Of(t)
    BY <1>0, <2>1, <2>3, <2>4, <2>5, RowsKept DEF Storing
  <2>7. Of(s) # {} => Latest(s) \in Of(s)
    BY <1>0, LatestIsLatest
  <2>8. AskInv(s)'
    BY <2>3, <2>4, <2>5 DEF AskInv
  <2>9. DoneInv(s)'
    BY <2>3, <2>4, <2>5, <2>6, <2>7 DEF DoneInv, Stored, Quiet
  <2>10. CallInv(s)'
    BY <2>8, <2>9 DEF CallInv
  <2>11. DiskMoves
    BY <2>1, <2>2 DEF DiskMoves
  <2>12. ASSUME NEW t \in Sessions \ {s} PROVE CallInv(t)'
    BY <1>0, <2>1, <2>4, <2>6, <2>11, OthersKept
  <2> QED
    BY <2>6, <2>10, <2>12
<1>7. ASSUME NEW s \in Sessions, Create(s)
      PROVE  RowInv' /\ \A t \in Sessions : CallInv(t)'
  <2> DEFINE pc == Keep(Empty, call[s].old)
  <2>1. pc \in {"listing old", "listing new"} /\ (pc = "listing new" => call[s].old = Empty)
    BY DEF Keep
  <2>2. call[s].old \in Contents /\ call[s].old.stamp <= stamp
    BY <1>0 DEF Typed, Calls
  <2>3. /\ Free(s, 0) # {} /\ Insert(s, 0, call[s].old) /\ Goto(s, pc)
        /\ UNCHANGED <<disk, clock, stamp, lastRead, seen, failed>>
    BY <1>7 DEF Create
  <2> HIDE DEF pc
  <2>4. /\ RowInv' /\ \A t \in Sessions \ {s} : CallInv(t)'
        /\ call'[s].pc = pc /\ call'[s].old = call[s].old /\ call'[s].new = call[s].new
        /\ \E n \in Nat :
             /\ n >= 0
             /\ Of(s)' = Of(s) \union {[session |-> s, version |-> n, content |-> call[s].old]}
    <3> DEFINE n == Min(Free(s, 0))
    <3>1. n \in Nat /\ n >= 0
      BY <2>3, FreeHasMin
    <3>2. versions' = versions \union {[session |-> s, version |-> n, content |-> call[s].old]}
      BY <2>3 DEF Insert
    <3> HIDE DEF n
    <3>3. /\ call'[s].pc = pc /\ call'[s].old = call[s].old /\ call'[s].new = call[s].new
          /\ \A t \in Sessions \ {s} : call'[t] = call[t]
      BY <1>0, <2>3, GoneOn
    <3>4. call'[s].pc \notin Storing
      BY <2>1, <3>3 DEF Storing
    <3>5. disk' = disk /\ stamp' = stamp /\ lastRead' = lastRead /\ failed' = failed
      BY <2>3
    <3>6. /\ RowInv' /\ \A t \in Sessions \ {s} : CallInv(t)'
          /\ Of(s)' = Of(s) \union {[session |-> s, version |-> n, content |-> call[s].old]}
      BY <2>2, <3>1, <3>2, <3>3, <3>4, <3>5, InsertKept
    <3> QED
      BY <3>1, <3>3, <3>6
  <2>5. CallInv(s)'
    BY <2>1, <2>4 DEF CallInv, AskInv, DoneInv, Stored, Quiet
  <2> QED
    BY <2>4, <2>5
<1>8. ASSUME NEW s \in Sessions, ListFiles(s)
      PROVE  RowInv' /\ \A t \in Sessions : CallInv(t)'
  <2>1. /\ call[s].pc \in {"listing old", "listing new"}
        /\ UNCHANGED <<disk, clock, stamp, lastRead, versions, seen, failed>>
        /\ call'[s].version = NextVersion /\ call'[s].old = call[s].old
        /\ call'[s].pc = IF call[s].pc = "listing old" THEN "storing old" ELSE "storing new"
        /\ \A t \in Sessions \ {s} : call'[t] = call[t]
    BY <1>0, <1>8 DEF ListFiles, record, Typed, Calls
  <2>2. \A v \in Of(s) : v.version < NextVersion
    BY <1>0, NextIsAbove DEF Of
  <2>3. RowInv' /\ \A t \in Sessions : Of(t)' = Of(t)
    BY <1>0, <2>1, <2>2, RowsKept
  <2>4. CallInv(s)'
    BY <1>0, <2>1, <2>3 DEF CallInv, AskInv, DoneInv, Stored, Quiet
  <2>5. ASSUME NEW t \in Sessions \ {s} PROVE CallInv(t)'
    BY <1>0, <2>1, <2>3, OthersKept DEF DiskMoves
  <2> QED
    BY <2>3, <2>4, <2>5
<1>9. ASSUME NEW s \in Sessions, StoreOld(s)
      PROVE  RowInv' /\ \A t \in Sessions : CallInv(t)'
  <2>1. /\ call[s].pc = "storing old" /\ Insert(s, call[s].version, call[s].old)
        /\ Goto(s, "listing new")
        /\ UNCHANGED <<disk, clock, stamp, lastRead, seen, failed>>
    BY <1>9 DEF StoreOld
  <2>2. /\ call[s].old \in Contents /\ call[s].old.stamp <= stamp /\ call[s].version \in Nat
    BY <1>0 DEF Typed, Calls
  <2>3. \A v \in Of(s) : v.version < call[s].version /\ v.version \in Nat
    BY <1>0, <2>1 DEF RowInv, Of
  <2>4. call[s].version \in Free(s, call[s].version)
    BY <2>2, <2>3 DEF Free
  <2>5. /\ RowInv' /\ \A t \in Sessions \ {s} : CallInv(t)'
        /\ call'[s].pc = "listing new" /\ call'[s].old = call[s].old /\ call'[s].new = call[s].new
        /\ \E n \in Nat :
             /\ n >= call[s].version
             /\ Of(s)' = Of(s) \union {[session |-> s, version |-> n, content |-> call[s].old]}
    <3> DEFINE n == Min(Free(s, call[s].version))
    <3>1. n \in Nat /\ n >= call[s].version
      BY <2>2, <2>4, FreeHasMin
    <3>2. versions' = versions \union {[session |-> s, version |-> n, content |-> call[s].old]}
      BY <2>1 DEF Insert
    <3> HIDE DEF n
    <3>3. /\ call'[s].pc = "listing new" /\ call'[s].old = call[s].old /\ call'[s].new = call[s].new
          /\ \A t \in Sessions \ {s} : call'[t] = call[t]
      BY <1>0, <2>1, GoneOn
    <3>4. call'[s].pc \notin Storing
      BY <3>3 DEF Storing
    <3>5. disk' = disk /\ stamp' = stamp /\ lastRead' = lastRead /\ failed' = failed
      BY <2>1
    <3>6. /\ RowInv' /\ \A t \in Sessions \ {s} : CallInv(t)'
          /\ Of(s)' = Of(s) \union {[session |-> s, version |-> n, content |-> call[s].old]}
      BY <2>2, <3>1, <3>2, <3>3, <3>4, <3>5, InsertKept
    <3> QED
      BY <3>1, <3>3, <3>6
  <2>6. CallInv(s)'
    <3>1. \E v \in Of(s)' : v.content = call[s].old
      <4>1. PICK n \in Nat :
               Of(s)' = Of(s) \union {[session |-> s, version |-> n, content |-> call[s].old]}
        BY <2>5
      <4> DEFINE r == [session |-> s, version |-> n, content |-> call[s].old]
      <4>2. r \in Of(s)' /\ r.content = call[s].old
        BY <4>1
      <4> QED
        BY <4>2
    <3> QED
      BY <2>5, <3>1 DEF CallInv, AskInv, DoneInv, Stored, Quiet
  <2> QED
    BY <2>5, <2>6
<1>10. ASSUME NEW s \in Sessions, StoreNew(s)
       PROVE  RowInv' /\ \A t \in Sessions : CallInv(t)'
  <2>1. /\ call[s].pc = "storing new" /\ Insert(s, call[s].version, call[s].new)
        /\ Goto(s, "recording")
        /\ UNCHANGED <<disk, clock, stamp, lastRead, seen, failed>>
    BY <1>10 DEF StoreNew
  <2>2. /\ call[s].new \in Contents /\ call[s].new.stamp <= stamp /\ call[s].version \in Nat
    BY <1>0 DEF Typed, Calls
  <2>3. \A v \in Of(s) : v.version < call[s].version /\ v.version \in Nat
    BY <1>0, <2>1 DEF RowInv, Of
  <2>4. call[s].version \in Free(s, call[s].version)
    BY <2>2, <2>3 DEF Free
  <2>5. /\ RowInv' /\ \A t \in Sessions \ {s} : CallInv(t)'
        /\ call'[s].pc = "recording" /\ call'[s].old = call[s].old /\ call'[s].new = call[s].new
        /\ \E n \in Nat :
             /\ n >= call[s].version
             /\ Of(s)' = Of(s) \union {[session |-> s, version |-> n, content |-> call[s].new]}
    <3> DEFINE n == Min(Free(s, call[s].version))
    <3>1. n \in Nat /\ n >= call[s].version
      BY <2>2, <2>4, FreeHasMin
    <3>2. versions' = versions \union {[session |-> s, version |-> n, content |-> call[s].new]}
      BY <2>1 DEF Insert
    <3> HIDE DEF n
    <3>3. /\ call'[s].pc = "recording" /\ call'[s].old = call[s].old /\ call'[s].new = call[s].new
          /\ \A t \in Sessions \ {s} : call'[t] = call[t]
      BY <1>0, <2>1, GoneOn
    <3>4. call'[s].pc \notin Storing
      BY <3>3 DEF Storing
    <3>5. disk' = disk /\ stamp' = stamp /\ lastRead' = lastRead /\ failed' = failed
      BY <2>1
    <3>6. /\ RowInv' /\ \A t \in Sessions \ {s} : CallInv(t)'
          /\ Of(s)' = Of(s) \union {[session |-> s, version |-> n, content |-> call[s].new]}
      BY <2>2, <3>1, <3>2, <3>3, <3>4, <3>5, InsertKept
    <3> QED
      BY <3>1, <3>3, <3>6
  <2>6. ASSUME s \notin failed, NEW m \in Of(s)', IsLatest(m, Of(s)')
        PROVE  m.content = call[s].new /\ HasOlder(m, Of(s)')
    <3>1. PICK n \in Nat :
             /\ n >= call[s].version
             /\ Of(s)' = Of(s) \union {[session |-> s, version |-> n, content |-> call[s].new]}
      BY <2>5
    <3>2. \A v \in Of(s) : v.version < n /\ v.version \in Nat
      BY <2>2, <2>3, <3>1
    <3>3. m = [session |-> s, version |-> n, content |-> call[s].new]
      <4> DEFINE r == [session |-> s, version |-> n, content |-> call[s].new]
      <4>1. r.version = n /\ Of(s)' = Of(s) \union {r}
        BY <3>1
      <4> HIDE DEF r
      <4>2. m \in Of(s) \union {r} /\ r.version <= m.version
        BY <2>6, <4>1 DEF IsLatest
      <4>3. m \notin Of(s)
        BY <3>2, <4>1, <4>2
      <4>4. m = r
        BY <4>2, <4>3
      <4> QED
        BY <4>4 DEF r
    <3>4. Of(s) # {}
      BY <1>0, <2>1, <2>6 DEF CallInv, DoneInv, Stored
    <3> QED
      BY <3>1, <3>2, <3>3, <3>4 DEF HasOlder
  <2>7. failed' = failed /\ Of(s) \subseteq Of(s)'
    BY <2>1, <2>5
  <2>8. CallInv(s)'
    BY <1>0, <2>1, <2>5, <2>6, <2>7 DEF CallInv, AskInv, DoneInv, Stored, Quiet
  <2> QED
    BY <2>5, <2>8
<1>11. ASSUME NEW s \in Sessions, CreateFails(s) \/ StoreFails(s) \/ Cancel(s)
       PROVE  RowInv' /\ \A t \in Sessions : CallInv(t)'
  <2>1. /\ UNCHANGED <<disk, clock, stamp, lastRead, versions, seen>>
        /\ failed' = failed \union {s}
        /\ call'[s].pc \in {"idle", "listing new", "recording"}
        /\ \A t \in Sessions \ {s} : call'[t] = call[t]
    <3>1. CASE CreateFails(s) \/ Cancel(s)
      BY <1>0, <3>1 DEF CreateFails, Cancel, Fail, End, record, Typed
    <3>2. CASE StoreFails(s)
      <4>1. /\ UNCHANGED <<disk, clock, stamp, lastRead, versions, seen>>
            /\ failed' = failed \union {s}
            /\ Goto(s, "listing new") \/ Goto(s, "recording")
        BY <3>2 DEF StoreFails, Fail, record
      <4> QED
        BY <1>0, <4>1 DEF Goto, Typed, Calls
    <3> QED
      BY <1>11, <3>1, <3>2
  <2>2. RowInv' /\ \A t \in Sessions : Of(t)' = Of(t)
    BY <1>0, <2>1, RowsKept DEF Storing
  <2>3. CallInv(s)'
    BY <2>1 DEF CallInv, AskInv, DoneInv
  <2>4. ASSUME NEW t \in Sessions \ {s} PROVE CallInv(t)'
    BY <1>0, <2>1, <2>2, OthersKept DEF DiskMoves
  <2> QED
    BY <2>2, <2>3, <2>4
<1> QED
  BY <1>1, <1>2, <1>3, <1>4, <1>6, <1>7, <1>8, <1>9, <1>10, <1>11 DEF Next

\* The invariant holds in every state.
THEOREM InvHolds == Spec => []IInv
BY InvInit, InvStep, PTL DEF Spec

-----------------------------------------------------------------------------

\* The variables of FileEdit keep their types, and the version numbers that
\* three attempts find are numbers.
THEOREM TypeCorrect == Spec => []TypeOK
<1>1. IInv => TypeOK
  BY DEF IInv, Typed, RowInv, TypeOK, Calls
<1> QED
  BY <1>1, InvHolds, PTL

\* A write replaces a content the session has not seen only if that is no later
\* than the recorded read (edit.go:213), or was made after the call looked.
THEOREM UnseenLossIsARace == Spec => LossNeedsRace
<1>1. ASSUME IInv, NEW s \in Sessions, call[s].pc = "asking", disk # Absent
      PROVE  disk.mtime <= lastRead[s] \/ disk.content.stamp > call[s].checked
  <2>1. disk.content.stamp \in Nat /\ call[s].checked \in Nat
    BY <1>1, StampsAreGiven DEF IInv, Typed, Files, Contents
  <2> QED
    BY <1>1, <2>1 DEF IInv, CallInv, AskInv
<1>2. IInv /\ [Next]_vars =>
        [\A s \in Sessions :
           /\ call[s].pc = "asking" /\ call'[s].pc # "asking" /\ disk' # disk
           /\ disk # Absent /\ disk.content # seen[s]
           => disk.mtime <= lastRead[s] \/ disk.content.stamp > call[s].checked]_vars
  BY <1>1
<1> QED
  BY <1>2, InvHolds, PTL DEF Spec, LossNeedsRace

\* A session that wrote the file, and nobody after it, may write it again
\* without reading it (edit.go:328).
THEOREM WritesCountAsReads == Spec => []OwnWriteIsRead
<1>1. IInv => OwnWriteIsRead
  <2> SUFFICES ASSUME IInv, NEW s \in Sessions \ failed,
                      call[s].pc = "idle", disk # Absent, disk.content = seen[s], Of(s) # {},
                      Unix(Latest(s).content) = Unix(seen[s])
               PROVE  ~Stale(s)
    BY DEF OwnWriteIsRead
  <2>1. Latest(s) \in Of(s) /\ IsLatest(Latest(s), Of(s))
    BY LatestIsLatest DEF IInv
  <2>2. disk.content.stamp = Latest(s).content.stamp
    <3>1. Latest(s).content \in Contents /\ seen[s] \in Contents
      BY <2>1 DEF IInv, RowInv, Typed, Of
    <3>2. \A c \in Contents : Unix(c).stamp = c.stamp
      BY DEF Unix, Contents
    <3>3. Latest(s).content.stamp = seen[s].stamp
      BY <3>1, <3>2
    <3> QED
      BY <3>3
  <2>3. disk.mtime <= lastRead[s]
    BY <2>1, <2>2 DEF IInv, CallInv, DoneInv, Quiet
  <2>4. disk.mtime \in Nat /\ lastRead[s] \in Nat
    BY IdleIsCall DEF IInv, Typed, Files
  <2> QED
    BY <2>3, <2>4 DEF Stale
<1> QED
  BY <1>1, InvHolds, PTL

\* The history of a session that lost no work ends with what its last call
\* wrote, and has what that call replaced (history/file.go:81).
THEOREM HistoryIsComplete == Spec => []WritesCanBeUndone
<1>1. IInv => WritesCanBeUndone
  <2> SUFFICES ASSUME IInv, NEW s \in Sessions \ failed
               PROVE  /\ call[s].pc = "recording" =>
                           /\ Latest(s).content = call[s].new
                           /\ call[s].old # Empty => \E v \in Of(s) : v.content = call[s].old
                      /\ call[s].pc = "idle" /\ Of(s) # {} /\ seen[s] = Latest(s).content
                           => \E v \in Of(s) : v.version < Latest(s).version
    BY DEF WritesCanBeUndone
  <2>1. DoneInv(s) /\ (Of(s) # {} => Latest(s) \in Of(s) /\ IsLatest(Latest(s), Of(s)))
    BY LatestIsLatest DEF IInv, CallInv
  <2> QED
    BY <2>1 DEF DoneInv, Stored, Quiet, HasOlder
<1> QED
  BY <1>1, InvHolds, PTL

=============================================================================

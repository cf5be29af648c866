------------------------------- MODULE FileEdit -------------------------------
(***************************************************************************)
(* One file, the tools that read and write it and what is remembered of it: *)
(* the view, edit, multiedit and write tools (internal/agent/tools), the    *)
(* time of the last read (internal/filetracker) and the versions kept for   *)
(* undo (internal/history).  A session runs one of these calls at a time,   *)
(* two sessions run at the same time, and the user's editor or a shell      *)
(* command changes or removes the file whenever it likes.                   *)
(*                                                                         *)
(* Abstracted: a content is the stamp of the change that made it and its    *)
(* line ending.  Deleting and replacing text, once or everywhere, and a     *)
(* list of edits differ only in the text they compute, so they are one kind *)
(* of call.  A call that its first checks refuse takes no step.  A write    *)
(* the operating system refuses ends like a denied one.                     *)
(***************************************************************************)
EXTENDS Integers, FiniteSets, FiniteSetsExt

CONSTANTS Sessions,
          MaxStamp,   \* bound: changes of the file, by anybody
          MaxTime,    \* bound: seconds of the clock
          MaxFaults,  \* bound: sessions with a call that is cancelled or whose insert fails
          InitialEndings, \* line endings of the file at the start, TRUE for CRLF
          Absent      \* a file that does not exist

ASSUME BoundsArePositive == /\ {MaxStamp, MaxTime, MaxFaults} \subseteq Nat \ {0}
                            /\ InitialEndings \subseteq BOOLEAN

VARIABLES disk,     \* the file: its content and mtime, or Absent
          clock,    \* seconds; read_at and the truncated mtime have no finer unit
          stamp,    \* the last stamp used
          lastRead, \* filetracker: the second of the session's last recorded read, 0 for none
          versions, \* history: the rows of the path
          call,     \* [Sessions -> the call in progress]
          seen,     \* history: the content the session last saw or wrote
          failed    \* history: sessions with a call that lost a part of its work

vars == <<disk, clock, stamp, lastRead, versions, call, seen, failed>>
record == <<lastRead, versions>>

Contents == [stamp : 0..MaxStamp, crlf : BOOLEAN]
Files == [content : Contents, mtime : 1..MaxTime] \union {Absent}
Empty == [stamp |-> 0, crlf |-> FALSE]

\* The phases of a call, named for what it does next.
Phases == {"idle", "viewing", "reading", "asking", "creating", "listing old", "storing old",
           "listing new", "storing new", "recording"}

\* "checked" is history: the last stamp given when the call looked at the file.
Idle == [pc |-> "idle", kind |-> "view", old |-> Empty, new |-> Empty, version |-> 0, checked |-> 0]

TypeOK ==
  /\ disk \in Files
  /\ clock \in 1..MaxTime /\ stamp \in 0..MaxStamp
  /\ lastRead \in [Sessions -> 0..MaxTime]
  /\ versions \subseteq [session : Sessions, version : Nat, content : Contents]
  /\ call \in [Sessions -> [pc : Phases, kind : {"view", "create", "edit", "write"},
                            old : Contents, new : Contents, version : Nat, checked : 0..MaxStamp]]
  /\ seen \in [Sessions -> Contents]
  /\ failed \subseteq Sessions

Init ==
  /\ \/ disk = Absent /\ stamp = 0
     \/ /\ stamp = 1
        /\ \E crlf \in InitialEndings : disk = [content |-> [stamp |-> 1, crlf |-> crlf], mtime |-> 1]
  /\ clock = 1
  /\ lastRead = [s \in Sessions |-> 0]
  /\ versions = {}
  /\ call = [s \in Sessions |-> Idle]
  /\ seen = [s \in Sessions |-> Empty]
  /\ failed = {}

-----------------------------------------------------------------------------
(* The file and the history.                                               *)

\* The content a change made now has, and a content with Unix line endings.
Fresh(crlf) == [stamp |-> stamp + 1, crlf |-> crlf]
Unix(c) == [c EXCEPT !.crlf = FALSE]

\* The rows of session s, and the row GetFileByPathAndSession returns.
Of(s) == {v \in versions : v.session = s}
Latest(s) == CHOOSE v \in Of(s) : \A u \in Of(s) : u.version <= v.version

\* Mutation of Stale: the comparison is the wrong way round.
StaleReversed(s) == disk.mtime < lastRead[s]

\* modTime.After(lastRead): both are whole seconds.
Stale(s) == disk.mtime > lastRead[s]

\* The version CreateVersion tries first: ListFilesByPath sees the rows of
\* every session.
NextVersion == IF versions = {} THEN 0 ELSE Max({v.version : v \in versions}) + 1

\* createWithVersion: a version the session has is a unique constraint that
\* fails, and the insert is tried with the next one, three times in all.
Free(s, first) == {n \in first..first + 2 : \A v \in Of(s) : v.version # n}

Insert(s, first, c) ==
  versions' = versions \union {[session |-> s, version |-> Min(Free(s, first)), content |-> c]}

\* Mutation of Keep: the old content is not compared with the history.
KeepNot(latest, old) == "listing new"

\* An old content the history does not end with is stored before the new one.
Keep(latest, old) == IF latest # old THEN "listing old" ELSE "listing new"

\* GetByPathAndSession, and what a call that has written does next.  Only the
\* session itself adds rows of its own, so it looks when it writes.
AfterWrite(s) ==
  IF call[s].kind = "create" \/ Of(s) = {} THEN "creating"
  ELSE Keep(Latest(s).content, call[s].old)

Fail(s) ==
  /\ failed' = failed \union {s}
  /\ Cardinality(failed') <= MaxFaults

Goto(s, phase) == call' = [call EXCEPT ![s].pc = phase]

End(s) == call' = [call EXCEPT ![s] = Idle]

-----------------------------------------------------------------------------
(* The calls.                                                              *)

\* The view tool reads the file ...
View(s) ==
  /\ call[s].pc = "idle"
  /\ disk # Absent
  /\ call' = [call EXCEPT ![s] = [Idle EXCEPT !.pc = "viewing", !.old = disk.content]]
  /\ UNCHANGED <<disk, clock, stamp, record, seen, failed>>

\* ... waits for the language servers, and then records the time.
ViewRecords(s) ==
  /\ call[s].pc = "viewing"
  /\ lastRead' = [lastRead EXCEPT ![s] = clock]
  /\ seen' = [seen EXCEPT ![s] = call[s].old]
  /\ End(s)
  /\ UNCHANGED <<disk, clock, stamp, versions, failed>>

\* A call has looked at the file, and goes on with what it has read so far.
Checked(s, phase, kind) ==
  /\ call[s].pc = "idle"
  /\ call' = [call EXCEPT ![s] = [Idle EXCEPT !.pc = phase, !.kind = kind, !.checked = stamp]]
  /\ UNCHANGED <<disk, clock, stamp, record, seen, failed>>

\* createNewFile, and a multiedit whose first edit creates the file: nothing is
\* read, and permission is asked.
CreateNewFile(s) ==
  /\ disk = Absent
  /\ Checked(s, "asking", "create")

\* replaceContent, deleteContent and a multiedit of an existing file: the
\* session has read it, and not before its last change.
Replace(s) ==
  /\ disk # Absent
  /\ lastRead[s] # 0
  /\ ~Stale(s)
  /\ Checked(s, "reading", "edit")

\* The write tool: a file that does not exist has no old content.
Write(s) ==
  \/ disk = Absent /\ Checked(s, "asking", "write")
  \/ disk # Absent /\ ~Stale(s) /\ Checked(s, "reading", "write")

\* os.ReadFile after the check, of whatever the file has become: an edit is
\* the content with a part replaced, the old content of a write goes to the
\* history only and the new one is the model's.  A write reads twice, and what
\* the first read is for, a content that is there already, changes nothing.
ReadFile(s) ==
  /\ call[s].pc = "reading"
  /\ call[s].kind = "edit" => disk # Absent
  /\ call' = [call EXCEPT
       ![s].pc = "asking",
       ![s].old = IF disk = Absent THEN Empty
                  ELSE IF call[s].kind = "edit" THEN Unix(disk.content) ELSE disk.content,
       ![s].new.crlf = call[s].kind = "edit" /\ disk.content.crlf]
  /\ UNCHANGED <<disk, clock, stamp, record, seen, failed>>

\* An edit of a file that is gone.
ReadFails(s) ==
  /\ call[s].pc = "reading"
  /\ call[s].kind = "edit" /\ disk = Absent
  /\ End(s)
  /\ UNCHANGED <<disk, clock, stamp, record, seen, failed>>

\* The user denies, or the call is cancelled while it waits.
Denied(s) ==
  /\ call[s].pc = "asking"
  /\ End(s)
  /\ UNCHANGED <<disk, clock, stamp, record, seen, failed>>

\* os.WriteFile, of whatever the file has become while the user was asked.
WriteFile(s) ==
  /\ call[s].pc = "asking"
  /\ stamp < MaxStamp
  /\ stamp' = stamp + 1
  /\ LET new == Fresh(call[s].new.crlf) IN
       /\ disk' = [content |-> new, mtime |-> clock]
       /\ seen' = [seen EXCEPT ![s] = new]
       /\ call' = [call EXCEPT ![s] = [Idle EXCEPT
            !.pc = AfterWrite(s),
            !.old = call[s].old, !.new = new]]
  /\ UNCHANGED <<clock, record, failed>>

\* files.Create with version 0.  The file a call has not found is the zero
\* File, whose content is empty.
Create(s) ==
  /\ call[s].pc = "creating"
  /\ Free(s, 0) # {}
  /\ Insert(s, 0, call[s].old)
  /\ Goto(s, Keep(Empty, call[s].old))
  /\ UNCHANGED <<disk, clock, stamp, lastRead, seen, failed>>

\* No version is free, or the database fails: the call returns an error, and
\* the file is written.
CreateFails(s) ==
  /\ call[s].pc = "creating"
  /\ Fail(s)
  /\ End(s)
  /\ UNCHANGED <<disk, clock, stamp, record, seen>>

\* CreateVersion lists the versions ...
ListFiles(s) ==
  /\ call[s].pc \in {"listing old", "listing new"}
  /\ call' = [call EXCEPT ![s].version = NextVersion,
                          ![s].pc = IF @ = "listing old" THEN "storing old" ELSE "storing new"]
  /\ UNCHANGED <<disk, clock, stamp, record, seen, failed>>

\* ... and inserts the next one in a transaction of its own.
StoreOld(s) ==
  /\ call[s].pc = "storing old"
  /\ Insert(s, call[s].version, call[s].old)
  /\ Goto(s, "listing new")
  /\ UNCHANGED <<disk, clock, stamp, lastRead, seen, failed>>

StoreNew(s) ==
  /\ call[s].pc = "storing new"
  /\ Insert(s, call[s].version, call[s].new)
  /\ Goto(s, "recording")
  /\ UNCHANGED <<disk, clock, stamp, lastRead, seen, failed>>

\* A version that cannot be stored is logged and the call goes on.
StoreFails(s) ==
  /\ \/ call[s].pc = "storing old" /\ Goto(s, "listing new")
     \/ call[s].pc = "storing new" /\ Goto(s, "recording")
  /\ Fail(s)
  /\ UNCHANGED <<disk, clock, stamp, record, seen>>

\* Mutation of RecordRead: only the view tool records a read.
RecordReadNot(s) ==
  /\ call[s].pc = "recording"
  /\ End(s)
  /\ UNCHANGED <<disk, clock, stamp, record, seen, failed>>

\* The call has read what it wrote.
RecordRead(s) ==
  /\ call[s].pc = "recording"
  /\ lastRead' = [lastRead EXCEPT ![s] = clock]
  /\ End(s)
  /\ UNCHANGED <<disk, clock, stamp, versions, seen, failed>>

-----------------------------------------------------------------------------
(* Everything else.                                                        *)

\* The user cancels the turn after the call has written or while view waits:
\* every query of the call fails from now on, so it changes nothing more.
Cancel(s) ==
  /\ call[s].pc \notin {"idle", "reading", "asking"}
  /\ Fail(s)
  /\ End(s)
  /\ UNCHANGED <<disk, clock, stamp, record, seen>>

\* The user's editor or a shell command saves the file, and keeps its line
\* ending.
Change ==
  /\ stamp < MaxStamp
  /\ stamp' = stamp + 1
  /\ disk' = [content |-> Fresh(disk # Absent /\ disk.content.crlf), mtime |-> clock]
  /\ UNCHANGED <<clock, record, call, seen, failed>>

Remove ==
  /\ disk # Absent
  /\ disk' = Absent
  /\ UNCHANGED <<clock, stamp, record, call, seen, failed>>

Tick ==
  /\ clock < MaxTime
  /\ clock' = clock + 1
  /\ UNCHANGED <<disk, stamp, record, call, seen, failed>>

Next ==
  \/ \E s \in Sessions :
       \/ View(s) \/ ViewRecords(s)
       \/ CreateNewFile(s) \/ Replace(s) \/ Write(s)
       \/ ReadFile(s) \/ ReadFails(s)
       \/ Denied(s) \/ WriteFile(s)
       \/ Create(s) \/ CreateFails(s)
       \/ ListFiles(s) \/ StoreOld(s) \/ StoreNew(s) \/ StoreFails(s)
       \/ RecordRead(s)
       \/ Cancel(s)
  \/ Change \/ Remove \/ Tick

Spec == Init /\ [][Next]_vars

-----------------------------------------------------------------------------
(* Properties.                                                             *)

\* A write replaces a content the session has not seen only if that content is
\* no later than the second of the recorded read (made while view waited, or in
\* the same second), or was made after the call looked at the file: before it
\* read the file, or while the user was asked.  Any other change is noticed.
LossNeedsRace ==
  [][\A s \in Sessions :
       /\ call[s].pc = "asking" /\ call'[s].pc # "asking" /\ disk' # disk
       /\ disk # Absent /\ disk.content # seen[s]
       => disk.mtime <= lastRead[s] \/ disk.content.stamp > call[s].checked]_vars

\* A session that wrote the file and nobody after it may write it again without
\* reading it: the write counts as a read, however long the user was asked.
OwnWriteIsRead ==
  \A s \in Sessions \ failed :
    call[s].pc = "idle" /\ disk # Absent /\ disk.content = seen[s] /\ Of(s) # {}
      /\ Unix(Latest(s).content) = Unix(seen[s])
      => ~Stale(s)

\* The session's history ends with what its last call wrote, and what that
\* call read and replaced is in it too: every write of a session can be undone,
\* whoever numbered versions of the path in between.
WritesCanBeUndone ==
  \A s \in Sessions \ failed :
    /\ call[s].pc = "recording" =>
         /\ Latest(s).content = call[s].new
         /\ call[s].old # Empty => \E v \in Of(s) : v.content = call[s].old
    /\ call[s].pc = "idle" /\ Of(s) # {} /\ seen[s] = Latest(s).content
         => \E v \in Of(s) : v.version < Latest(s).version

\* edit.go says of the history of a created file "Log error but don't fail the
\* operation": a call that was not cancelled does not fail after its write.
HistoryDoesNotFail ==
  \A s \in Sessions : call[s].pc = "creating" => Free(s, 0) # {}

=============================================================================

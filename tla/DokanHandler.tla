---------------------------- MODULE DokanHandler ----------------------------
(***************************************************************************)
(* The Dokan file system (crates/vfs/src/dokan.rs): callbacks run on the   *)
(* driver's threads and share the handle table, the chunk cache and the    *)
(* session, each under a RwLock of its own.                                *)
(*                                                                         *)
(* A step is what a thread does without letting go of a lock.  A lock kept *)
(* while waiting for another is in the thread's step: "load" and "ask"     *)
(* keep the handle table while they wait for the session, "drop" and       *)
(* "follow" keep the session while they wait for the handle table.         *)
(*                                                                         *)
(* A content is the set of the changes in it.  Reads and the chunk cache   *)
(* are in ChunkCache; levels, directories, attributes, sizes and read-only *)
(* mounts are left out.                                                    *)
(***************************************************************************)
CONSTANTS
  Files, Paths, Threads,
  Handles,    \* handle ids, each allocated once
  Writes,     \* changes programs make to contents, each at most once
  Cuts,       \* those of them that truncate (set_end_of_file)
  Absent,
  None        \* no uuid, no buffer, no handle

ASSUME PathAssumption == Paths # {}

VARIABLES
  file, drawn,  \* the vault, and the uuids used so far
  active,       \* the session's keys are there
  mounted,
  handle,       \* open handles
  thread,       \* what each thread is doing
  thrown        \* history: the kinds of unsaved writes older than an unmount that it dropped

vars == <<file, drawn, active, mounted, handle, thread, thrown>>

FileRec == [path : Paths, data : SUBSET Writes]

INSTANCE FileCatalog WITH Entries <- FileRec, Spoiled <- {}

Unused == [open |-> FALSE, used |-> FALSE]
Closed == [open |-> FALSE, used |-> TRUE]
AtRest == [call |-> "none"]

\* FileHandle::new.  saved and raced are history: what of the buffer is in the vault,
\* and whether a write was stored while a flush of the handle was committing.
NewHandle(uuid, path, access) ==
  [open |-> TRUE, uuid |-> uuid, path |-> path, access |-> access, buffer |-> None,
   dirty |-> FALSE, saved |-> None, raced |-> FALSE]

Init ==
  /\ drawn = {CHOOSE f \in Files : TRUE}  \* which one makes no difference
  /\ file = [f \in Files |-> IF f \in drawn
                             THEN [path |-> CHOOSE p \in Paths : TRUE, data |-> {}] ELSE Absent]
  /\ active = TRUE /\ mounted = TRUE
  /\ handle = [h \in Handles |-> Unused]
  /\ thread = [t \in Threads |-> AtRest]
  /\ thrown = {}

At(t, step) == thread[t].call # "none" /\ thread[t].step = step

HandlesRead  == \A u \in Threads : ~At(u, "load")
\* Mutated form: a flush keeps the handle table while it commits.
HandlesWrite_FlushKeeps == 
  \A u \in Threads : ~At(u, "load") /\ ~At(u, "ask") /\ ~At(u, "commit")
HandlesWrite == \A u \in Threads : ~At(u, "load") /\ ~At(u, "ask")
SessionFree  == \A u \in Threads : ~At(u, "drop") /\ ~At(u, "follow")

Goto(t, step) == thread' = [thread EXCEPT ![t].step = step]
Return(t)     == thread' = [thread EXCEPT ![t] = AtRest]

\* The next step needs none of the locals.
Proceed(t, step) == thread' = [thread EXCEPT ![t].step = step, ![t].uuid = None,
                                             ![t].data = {}, ![t].from = None]

\* find_entry: some file listed at the path.
ListedAt(p) == {f \in Files : file[f] # Absent /\ file[f].path = p}
Readable(f) == f \in Files /\ file[f] # Absent

-----------------------------------------------------------------------------
(***************************************************************************)
(* CreateFile, cleanup and the start of the other callbacks.               *)
(***************************************************************************)
\* An existing file, to read or to replace; only the second gives write access.
OpenExisting(p, h) ==
  /\ \E f \in ListedAt(p), access \in BOOLEAN :
       handle' = [handle EXCEPT ![h] = NewHandle(f, p, access)]

\* create_new_file: the vault has nothing of it before the first flush.
CreateNew(p, h) ==
  /\ ListedAt(p) = {}
  /\ handle' = [handle EXCEPT ![h] = NewHandle(None, p, TRUE)]

CreateFile(p, h) ==
  /\ active /\ SessionFree /\ HandlesWrite
  /\ handle[h] = Unused
  /\ OpenExisting(p, h) \/ CreateNew(p, h)
  /\ UNCHANGED <<file, drawn, active, mounted, thread, thrown>>

Cleanup(h) ==
  /\ HandlesWrite
  /\ handle[h].open
  /\ handle' = [handle EXCEPT ![h] = Closed]
  /\ UNCHANGED <<file, drawn, active, mounted, thread, thrown>>

Begin(t, rec) ==
  /\ mounted
  /\ thread[t] = AtRest
  /\ thread' = [thread EXCEPT ![t] = rec]
  /\ UNCHANGED <<file, drawn, active, mounted, handle, thrown>>

\* A change is made once (a bound), as far as its effect is still there.
Buffered == UNION {handle[h].buffer : h \in {g \in Handles : handle[g].open
                                                 /\ handle[g].buffer # None}}
Fresh(w) ==
  /\ w \notin Buffered
  /\ \A f \in Files : file[f] # Absent => w \notin file[f].data
  /\ \A t \in Threads : thread[t].call = "write" => thread[t].data # w

BeginCall(t, h) == handle[h].open /\
  \/ \E w \in Writes :
       /\ Fresh(w)
       /\ Begin(t, [call |-> "write", on |-> h, step |-> "check", uuid |-> None, data |-> w])
  \/ \E c \in {"flush", "close"} :
       Begin(t, [call |-> c, on |-> h, step |-> "copy", uuid |-> None, data |-> {},
                 from |-> None])
  \/ Begin(t, [call |-> "candelete", on |-> h, step |-> "hold", from |-> handle[h].path])
  \/ Begin(t, [call |-> "delete", on |-> h, step |-> "name", uuid |-> None,
               from |-> handle[h].path])
  \/ \E q \in Paths \ {handle[h].path}, replace \in BOOLEAN :
       Begin(t, [call |-> "move", on |-> h, step |-> "name", uuid |-> None,
                 from |-> handle[h].path, to |-> q, replace |-> replace])

-----------------------------------------------------------------------------
(***************************************************************************)
(* WriteFile and SetEndOfFile.                                             *)
(***************************************************************************)
Committing(h) == \E t \in Threads : thread[t].call \in {"flush", "close", "unmount"}
                   /\ thread[t].step \in {"commit", "mark"} /\ thread[t].on = h

\* Unmounting handle by handle, which is what force_unmount does not do.
Closes(t) == thread[t].call = "unmount" /\ "late" \in DOMAIN thread[t]

WriteCheck(t) ==
  LET h == handle[thread[t].on] IN
  /\ thread[t].call = "write" /\ At(t, "check")
  /\ HandlesRead
  /\ IF h.open /\ (h.open => h.access)
     THEN thread' = [thread EXCEPT ![t].step = "buffer", ![t].uuid = h.uuid]
     ELSE Return(t)
  /\ UNCHANGED <<file, drawn, active, mounted, handle, thrown>>

GoStore(t) == thread' = [thread EXCEPT ![t].step = "store", ![t].uuid = None]

\* The buffer is made with the handle table locked, from the uuid seen before.
WriteBuffer(t) ==
  LET h == thread[t].on IN
  /\ At(t, "buffer")
  /\ HandlesWrite
  /\ \/ /\ ~handle[h].open
        /\ Return(t) /\ UNCHANGED handle
     \/ /\ handle[h].open /\ handle[h].buffer # None
        /\ GoStore(t) /\ UNCHANGED handle
     \/ /\ handle[h].open /\ handle[h].buffer = None /\ thread[t].uuid = None
        /\ GoStore(t)
        /\ handle' = [handle EXCEPT ![h].buffer = {}, ![h].saved = {},
                                   ![h].raced = @ \/ Committing(h)]
     \/ /\ handle[h].open /\ handle[h].buffer = None /\ thread[t].uuid # None
        /\ Goto(t, "load") /\ UNCHANGED handle
  /\ UNCHANGED <<file, drawn, active, mounted, thrown>>

\* decrypt_file_content, waiting for the session with the handle table locked.
WriteLoad(t) ==
  LET h == thread[t].on  f == thread[t].uuid IN
  /\ At(t, "load")
  /\ SessionFree
  /\ IF active /\ Readable(f)
     THEN /\ GoStore(t)
          /\ handle' = [handle EXCEPT ![h].buffer = file[f].data, ![h].saved = file[f].data,
                                      ![h].raced = @ \/ Committing(h)]
     ELSE Return(t) /\ UNCHANGED handle
  /\ UNCHANGED <<file, drawn, active, mounted, thrown>>

WriteStore(t) ==
  LET h == thread[t].on  w == thread[t].data IN
  /\ At(t, "store")
  /\ HandlesWrite
  /\ IF handle[h].open /\ (handle[h].open => handle[h].buffer # None)
     THEN /\ handle' = [handle EXCEPT
               ![h].buffer = IF w \in Cuts THEN {w} ELSE @ \cup {w}, ![h].dirty = TRUE,
               ![h].saved = None, ![h].raced = @ \/ Committing(h)]
          /\ thread' = [u \in Threads |->
               CASE u = t -> AtRest
                 [] u # t /\ Closes(u) -> [thread[u] EXCEPT !.late = @ \cup {h}]
                 [] OTHER -> thread[u]]
     ELSE Return(t) /\ UNCHANGED handle
  /\ UNCHANGED <<file, drawn, active, mounted, thrown>>

-----------------------------------------------------------------------------
(***************************************************************************)
(* FlushFileBuffers and CloseFile: the buffer is copied, committed with    *)
(* only the session locked, and marked clean as it is by then.             *)
(***************************************************************************)
InClosing(t) == thread[t].call = "close" \/ (thread[t].call = "unmount" /\ thread[t].closing)

\* What follows a flush, by the callback that asked for it.
Flushed(t) ==
  CASE thread[t].call = "flush" -> Return(t)
    [] InClosing(t)             -> Proceed(t, "empty")
    [] OTHER                    -> Proceed(t, "next")

\* Mutated form: a failed commit is not noticed.
FlushFailed_Marked(t) == Goto(t, "mark")

FlushFailed(t) ==
  CASE thread[t].call # "unmount"                     -> Return(t)
    [] thread[t].call = "unmount" /\ thread[t].closing -> Proceed(t, "remove")
    [] OTHER -> thread' = [thread EXCEPT ![t].step = "next", ![t].failed = TRUE,
                             ![t].uuid = None, ![t].data = {}, ![t].from = None]

FlushCopy(t) ==
  LET h == handle[thread[t].on] IN
  /\ At(t, "copy")
  /\ HandlesRead
  /\ \/ h.open /\ (h.open => h.dirty)
        /\ thread' = [thread EXCEPT ![t].step = "commit", ![t].uuid = h.uuid,
                                    ![t].from = h.path, ![t].data = h.buffer]
     \/ h.open /\ (h.open => ~h.dirty) /\ Flushed(t)
     \/ ~h.open /\ FlushFailed(t)
  /\ UNCHANGED <<file, drawn, active, mounted, handle, thrown>>

\* commit_file_data: delete_file and import_bytes, of which either may fail.
FlushCommit(t) ==
  LET f == thread[t].uuid  deleted == f # None IN
  /\ At(t, "commit")
  /\ SessionFree
  /\ \/ /\ active /\ (deleted => Readable(f))
        /\ \E g \in Files \ drawn :
             /\ file' = [k \in Files |->
                           IF k = g THEN [path |-> thread[t].from, data |-> thread[t].data]
                           ELSE IF k = f THEN Absent ELSE file[k]]
             /\ drawn' = drawn \cup {g}
             /\ thread' = [thread EXCEPT ![t].step = "mark", ![t].uuid = g, 
                                                ![t].data = {}, ![t].from = None]
             /\ handle' = [handle EXCEPT ![thread[t].on] =
                             IF @.open THEN [@ EXCEPT !.saved = thread[t].data] ELSE @]
     \/ /\ active /\ deleted /\ Remove(f)
        /\ FlushFailed(t) /\ UNCHANGED <<drawn, handle>>
     \/ FlushFailed(t) /\ UNCHANGED <<file, drawn, handle>>
  /\ UNCHANGED <<active, mounted, thrown>>

FlushMark(t) ==
  LET h == thread[t].on IN
  /\ At(t, "mark")
  /\ HandlesWrite
  /\ handle' = IF handle[h].open
               THEN [handle EXCEPT ![h].dirty = FALSE, ![h].uuid = thread[t].uuid]
               ELSE handle
  /\ Flushed(t)
  /\ UNCHANGED <<file, drawn, active, mounted, thrown>>

\* late is history: the handles written since the unmount began.  What is in the buffer
\* of another one and not in the vault was written before.
OldWrite(t, h) ==
  /\ Closes(t) /\ handle[h].open
  /\ handle[h].buffer # None /\ handle[h].buffer # handle[h].saved
  /\ h \notin thread[t].late

\* What closing the handles hs drops: a raced write is one stored while a flush of its
\* handle was committing, and counted as clean since then.
Drops(t, hs) ==
  {IF handle[h].raced /\ ~handle[h].dirty THEN "raced" ELSE "settled" :
     h \in {k \in hs : OldWrite(t, k)}}

\* The end of close_file.
CloseEmpty(t) ==
  LET h == thread[t].on IN
  /\ At(t, "empty")
  /\ HandlesWrite
  /\ handle' = IF handle[h].open
               THEN [handle EXCEPT ![h].buffer = None, ![h].dirty = FALSE, ![h].saved = None,
                                         ![h].raced = FALSE]
               ELSE handle
  /\ IF thread[t].call = "close" THEN Return(t) ELSE Goto(t, "remove")
  /\ thrown' = thrown \cup Drops(t, {h})
  /\ UNCHANGED <<file, drawn, active, mounted>>

-----------------------------------------------------------------------------
(***************************************************************************)
(* DeleteFile, MoveFile and CanDeleteFile, of a file that is open.         *)
(***************************************************************************)
\* get_file_uuid: the handle's uuid, or else what is found at the path.
GetFileUuid(t) ==
  LET h == handle[thread[t].on]
      known == h.open /\ (h.open => h.uuid # None) IN
  IF known THEN {h.uuid} ELSE ListedAt(thread[t].from)

Collides(t) == thread[t].call = "move" /\ ~thread[t].replace /\ ListedAt(thread[t].to) # {}

Name(t) ==
  /\ At(t, "name")
  /\ HandlesRead /\ SessionFree
  /\ \/ /\ active /\ ~Collides(t)
        /\ \E f \in GetFileUuid(t) :
             thread' = [thread EXCEPT ![t].step = thread[t].call, ![t].uuid = f, ![t].from = None]
     \/ /\ ~active \/ Collides(t) \/ GetFileUuid(t) = {}
        /\ Return(t)
  /\ UNCHANGED <<file, drawn, active, mounted, handle, thrown>>

\* Both keep the session locked until the handle is dropped or follows.
DeleteRemove(t) ==
  LET f == thread[t].uuid IN
  /\ At(t, "delete")
  /\ SessionFree
  /\ \/ /\ active /\ Remove(f)
        /\ Goto(t, "drop")
     \/ ~(active /\ Readable(f)) /\ Return(t) /\ UNCHANGED file
  /\ UNCHANGED <<drawn, active, mounted, handle, thrown>>

DeleteDrop(t) ==
  /\ At(t, "drop")
  /\ HandlesWrite
  /\ handle' = [handle EXCEPT ![thread[t].on] = Closed]
  /\ Return(t)
  /\ UNCHANGED <<file, drawn, active, mounted, thrown>>

\* The file at the new path is deleted first, and stays so if the rename fails.
MoveRename(t) ==
  LET f == thread[t].uuid  q == thread[t].to
      gone == IF thread[t].replace THEN ListedAt(q) ELSE {} IN
  /\ At(t, "move")
  /\ SessionFree
  /\ IF active
     THEN \E g \in IF gone = {} THEN {None} ELSE gone :
            LET rest == [k \in Files |-> IF k = g THEN Absent ELSE file[k]] IN
            IF rest[f] # Absent
            THEN file' = [rest EXCEPT ![f].path = q] /\ Goto(t, "follow")
            ELSE file' = rest /\ Return(t)
     ELSE Return(t) /\ UNCHANGED file
  /\ UNCHANGED <<drawn, active, mounted, handle, thrown>>

MoveFollow(t) ==
  LET h == thread[t].on IN
  /\ At(t, "follow")
  /\ HandlesWrite
  /\ handle' = IF handle[h].open THEN [handle EXCEPT ![h].path = thread[t].to] ELSE handle
  /\ Return(t)
  /\ UNCHANGED <<file, drawn, active, mounted, thrown>>

CanDeleteHold(t) ==
  /\ At(t, "hold")
  /\ HandlesRead /\ SessionFree
  /\ IF active /\ ListedAt(thread[t].from) # {} /\ handle[thread[t].on].open
     THEN Goto(t, "ask") ELSE Return(t)
  /\ UNCHANGED <<file, drawn, active, mounted, handle, thrown>>

CanDeleteAsk(t) ==
  /\ At(t, "ask")
  /\ SessionFree
  /\ Return(t)
  /\ UNCHANGED <<file, drawn, active, mounted, handle, thrown>>

-----------------------------------------------------------------------------
(***************************************************************************)
(* Unmounting: flush what is dirty, close every handle, clear the cache,   *)
(* lock the session.  One thread at a time does it.                        *)
(***************************************************************************)
OpenHandles == {h \in Handles : handle[h].open}

BeginUnmount(t) ==
  /\ \A u \in Threads : thread[u].call # "unmount"
  /\ \/ HandlesRead /\ Begin(t, [call |-> "unmount", step |-> "next", closing |-> FALSE,
          failed |-> FALSE, todo |-> {h \in OpenHandles : handle[h].dirty},
          on |-> None, from |-> None, uuid |-> None, data |-> {},
          late |-> {}])
     \/ Begin(t, [call |-> "unmount", step |-> "force"])  \* force_unmount

\* Mutated form: unmount goes on after a flush failed.
UnmountNext_AnyFlush(t) ==
  LET todo == thread[t].todo IN
  /\ At(t, "next")
  /\ HandlesRead
  /\ \/ \E h \in todo : thread' = [thread EXCEPT ![t].step = "copy", ![t].on = h,
          ![t].todo = todo \ {h}]
     \/ /\ todo = {} /\ ~thread[t].closing
        /\ thread' = [thread EXCEPT ![t].closing = TRUE, ![t].todo = OpenHandles]
     \/ thread[t].closing /\ OpenHandles # {} /\ Return(t)  \* UnmountTimeout
     \/ /\ thread[t].closing
        /\ todo = {} \/ OpenHandles = {}
        /\ thread' = [thread EXCEPT ![t] = IF OpenHandles = {}
                                           THEN [call |-> "unmount", step |-> "wipe"]
                                           ELSE [@ EXCEPT !.step = "force"]]
  /\ UNCHANGED <<file, drawn, active, mounted, handle, thrown>>

UnmountNext(t) ==
  LET todo == thread[t].todo IN
  /\ At(t, "next")
  /\ HandlesRead
  /\ \/ \E h \in todo : thread' = [thread EXCEPT ![t].step = "copy", ![t].on = h,
          ![t].todo = todo \ {h}]
     \/ /\ todo = {} /\ ~thread[t].closing
        /\ IF thread[t].failed
           THEN Return(t)  \* FlushFailed
           ELSE thread' = [thread EXCEPT ![t].closing = TRUE, ![t].todo = OpenHandles]
     \/ thread[t].closing /\ OpenHandles # {} /\ Return(t)  \* UnmountTimeout
     \/ /\ thread[t].closing
        /\ todo = {} \/ OpenHandles = {}
        /\ thread' = [thread EXCEPT ![t] = IF OpenHandles = {}
                                           THEN [call |-> "unmount", step |-> "wipe"]
                                           ELSE [@ EXCEPT !.step = "force"]]
  /\ UNCHANGED <<file, drawn, active, mounted, handle, thrown>>

\* cleanup, whether or not close_file could flush.
UnmountRemove(t) ==
  LET h == thread[t].on IN
  /\ At(t, "remove")
  /\ HandlesWrite
  /\ thrown' = thrown \cup Drops(t, {h})
  /\ handle' = [handle EXCEPT ![h] = Closed]
  /\ Goto(t, "next")
  /\ UNCHANGED <<file, drawn, active, mounted>>

ForceClose(t) ==
  /\ At(t, "force")
  /\ HandlesWrite
  /\ handle' = [h \in Handles |-> IF handle[h].open THEN Closed ELSE handle[h]]
  /\ thrown' = thrown \cup Drops(t, Handles)
  /\ thread' = [thread EXCEPT ![t] = [call |-> "unmount", step |-> "wipe"]]
  /\ UNCHANGED <<file, drawn, active, mounted>>

WipeKeys(t) ==
  /\ At(t, "wipe")
  /\ SessionFree
  /\ active' = FALSE
  /\ Goto(t, "release")
  /\ UNCHANGED <<file, drawn, mounted, handle, thrown>>

ReleaseLetter(t) ==
  /\ At(t, "release")
  /\ mounted' = FALSE
  /\ Return(t)
  /\ UNCHANGED <<file, drawn, active, handle, thrown>>

Step(t) ==
  \/ WriteCheck(t) \/ WriteBuffer(t) \/ WriteLoad(t) \/ WriteStore(t)
  \/ FlushCopy(t) \/ FlushCommit(t) \/ FlushMark(t) \/ CloseEmpty(t)
  \/ Name(t) \/ DeleteRemove(t) \/ DeleteDrop(t) \/ MoveRename(t) \/ MoveFollow(t)
  \/ CanDeleteHold(t) \/ CanDeleteAsk(t)
  \/ UnmountNext(t) \/ UnmountRemove(t) \/ ForceClose(t)
  \/ WipeKeys(t) \/ ReleaseLetter(t)

Next ==
  \/ \E h \in Handles : Cleanup(h) \/ \E p \in Paths : CreateFile(p, h)
  \/ \E t \in Threads : Step(t) \/ BeginUnmount(t) \/ \E h \in Handles : BeginCall(t, h)

\* A thread that waits for a lock gets it some time.
Spec == Init /\ [][Next]_vars /\ \A t \in Threads : SF_vars(Step(t))

-----------------------------------------------------------------------------
(***************************************************************************)
(* Properties.                                                             *)
(***************************************************************************)
\* A clean buffer is what the last flush put into the vault, or what was read from
\* it, unless a write was stored while a flush was committing: failed commits
\* and other threads' calls do not make a handle forget its writes.
CleanIsSaved ==
  \A h \in Handles : handle[h].open =>
    handle[h].buffer = None \/ handle[h].dirty \/ handle[h].raced
    \/ handle[h].buffer = handle[h].saved

\* unmount never drops what a handle's buffer has and the vault has not, when the last
\* write to the handle was acknowledged before unmount began: whatever fails and
\* whoever interferes, except for a write that was stored while a flush of the
\* handle was committing and that the flush then marked clean.
UnmountKeepsWrites == "settled" \notin thrown

\* What flush_all_pending_writes says of itself: it commits all modified data to the
\* vault before unmounting.  So no unmount drops a write older than itself.  Known to
\* be violated: a flush marks clean what was stored while it committed (dokan.rs:1917).
UnmountKeepsEveryWrite == thrown = {}

\* The only deadlock: a first write or can_delete_file keeps the handle table and waits
\* for the session, which a delete or a move of an open file keeps, waiting
\* for the handle table.
Deadlocked ==
  /\ \E t \in Threads : At(t, "load") \/ At(t, "ask")
  /\ \E t \in Threads : At(t, "drop") \/ At(t, "follow")

\* Every callback returns, or runs into that deadlock.
CallsEnd ==
  \A t \in Threads : thread[t] # AtRest ~> (thread[t] = AtRest \/ Deadlocked)
=============================================================================

------------------------- MODULE DokanHandlerProofs -------------------------
(***************************************************************************)
(* Proofs about the Dokan file system, for every number of threads,        *)
(* handles, files and writes: a clean handle has nothing that is not in    *)
(* the vault, and unmount drops no write that was acknowledged before,     *)
(* in both cases but for writes stored during a flush of their handle.     *)
(***************************************************************************)
EXTENDS DokanHandler, TLAPS

HandleRec ==
  [open : {TRUE}, uuid : Files \cup {None}, path : Paths, access : BOOLEAN,
   buffer : (SUBSET Writes) \cup {None}, dirty : BOOLEAN,
   saved : (SUBSET Writes) \cup {None}, raced : BOOLEAN]

\* What a thread has, by callback; the two callbacks that wait with a file in hand have
\* one.
WriteRec ==
  [call : {"write"}, on : Handles, step : {"check", "buffer", "load", "store"},
   uuid : Files \cup {None}, data : Writes]
FlushRec ==
  [call : {"flush", "close"}, on : Handles, step : {"copy", "commit", "mark", "empty"},
   uuid : Files \cup {None}, data : SUBSET Writes, from : Paths \cup {None}]
CanDeleteRec == [call : {"candelete"}, on : Handles, step : {"hold", "ask"}, from : Paths]
DeleteRec ==
  [call : {"delete"}, on : Handles, step : {"name", "delete", "drop"},
   uuid : Files \cup {None}, from : Paths \cup {None}]
MoveRec ==
  [call : {"move"}, on : Handles, step : {"name", "move", "follow"},
   uuid : Files \cup {None}, from : Paths \cup {None}, to : Paths, replace : BOOLEAN]
UnmountRec ==
  [call : {"unmount"}, closing : BOOLEAN, failed : BOOLEAN, todo : SUBSET Handles,
   step : {"next", "copy", "commit", "mark", "empty", "remove", "force"},
   on : Handles \cup {None}, uuid : Files \cup {None}, data : SUBSET Writes,
   from : Paths \cup {None}, late : SUBSET Handles]
WipeRec == [call : {"unmount"}, step : {"force", "wipe", "release"}]

ThreadRec ==
  {AtRest} \cup WriteRec \cup FlushRec \cup CanDeleteRec \cup DeleteRec \cup MoveRec
  \cup UnmountRec \cup WipeRec

\* What a thread needs for its next step.
Placed(t) ==
  /\ At(t, "move") => thread[t].uuid \in Files
  /\ At(t, "commit") => thread[t].from \in Paths
  /\ At(t, "empty") => thread[t].call # "flush"
  /\ \A s \in {"copy", "commit", "mark", "empty", "remove"} :
       At(t, s) => thread[t].on \in Handles

Typed ==
  /\ file \in [Files -> {Absent} \cup FileRec]
  /\ handle \in [Handles -> {Unused, Closed} \cup HandleRec]
  /\ thread \in [Threads -> ThreadRec]
  /\ \A h \in Handles : handle[h].open /\ handle[h].dirty => handle[h].buffer \in SUBSET Writes
  /\ \A t \in Threads : Placed(t)

\* A thread between the copy of a handle's buffer and the end of its flush.
InFlush(t, h) ==
  /\ thread[t].call \in {"flush", "close", "unmount"}
  /\ thread[t].step \in {"commit", "mark"}
  /\ thread[t].on = h

\* As long as no write is stored meanwhile, the buffer is what is committed, and then
\* what is in the vault.
FlushOK(t) ==
  \A h \in Handles :
    InFlush(t, h) /\ handle[h].open /\ handle[h].buffer # None /\ ~handle[h].raced
    => IF thread[t].step = "commit" THEN thread[t].data = handle[h].buffer
                                    ELSE handle[h].saved = handle[h].buffer

\* While a thread unmounts, a handle that is dirty and was not written since then is yet
\* to be flushed; when the handles are being closed there is none.
UnmountOK(t) ==
  Closes(t) =>
    /\ thread[t].step \in {"empty", "remove", "force"} => thread[t].closing
    /\ \A h \in Handles : handle[h].open /\ handle[h].dirty /\ h \notin thread[t].late =>
         /\ ~thread[t].closing
         /\ \/ thread[t].failed
            \/ h \in thread[t].todo
            \/ thread[t].on = h /\ thread[t].step \in {"copy", "commit", "mark"}

DokanInv ==
  /\ Typed
  /\ CleanIsSaved
  /\ \A t \in Threads : FlushOK(t) /\ UnmountOK(t)
  /\ "settled" \notin thrown

-----------------------------------------------------------------------------
(***************************************************************************)
(* Records.                                                                *)
(***************************************************************************)
\* The handles that are open, and a new one.
LEMMA HandleFacts ==
  /\ Unused.open = FALSE /\ Closed.open = FALSE
  /\ \A r \in HandleRec : r.open = TRUE
  /\ \A f \in Files \cup {None}, p \in Paths, a \in BOOLEAN :
       /\ NewHandle(f, p, a) \in HandleRec
       /\ NewHandle(f, p, a).buffer = None /\ NewHandle(f, p, a).dirty = FALSE
<1>1. Unused.open = FALSE /\ Closed.open = FALSE
  BY DEF Unused, Closed
<1>2. \A r \in HandleRec : r.open = TRUE
  BY DEF HandleRec
<1>3. \A f \in Files \cup {None}, p \in Paths, a \in BOOLEAN :
        /\ NewHandle(f, p, a) \in HandleRec
        /\ NewHandle(f, p, a).buffer = None /\ NewHandle(f, p, a).dirty = FALSE
  BY DEF NewHandle, HandleRec
<1> QED
  BY <1>1, <1>2, <1>3

\* The step of a thread tells its callback.
LEMMA ThreadFacts ==
  ASSUME NEW r \in ThreadRec, r.call # "none"
  PROVE  /\ r.step \in {"check", "buffer", "load", "store"} => r \in WriteRec
         /\ r.step \in {"copy", "commit", "mark", "empty"} => r \in FlushRec \cup UnmountRec
         /\ r.step \in {"next", "remove"} => r \in UnmountRec
         /\ r.step \in {"hold", "ask"} => r \in CanDeleteRec
         /\ r.step = "name" => r \in DeleteRec \cup MoveRec
         /\ r.step \in {"delete", "drop"} => r \in DeleteRec
         /\ r.step \in {"move", "follow"} => r \in MoveRec
         /\ r.step = "force" => r \in UnmountRec \cup WipeRec
         /\ r.step \in {"wipe", "release"} => r \in WipeRec
<1>1. r \in WriteRec \cup FlushRec \cup CanDeleteRec \cup DeleteRec \cup MoveRec
            \cup UnmountRec \cup WipeRec
  BY DEF ThreadRec, AtRest
<1> QED
  BY <1>1 DEF WriteRec, FlushRec, CanDeleteRec, DeleteRec, MoveRec, UnmountRec, WipeRec

\* Its callback, and which of the unmounts go through the handles.
LEMMA CallFacts ==
  /\ \A r \in WriteRec : r.call = "write"
  /\ \A r \in FlushRec : r.call \in {"flush", "close"}
  /\ \A r \in UnmountRec : r.call = "unmount" /\ "late" \in DOMAIN r
  /\ \A r \in WipeRec : r.call = "unmount" /\ "late" \notin DOMAIN r
                        /\ r.step \notin {"copy", "commit", "mark", "empty", "remove", "move"}
  /\ AtRest.call = "none"
<1>1. /\ \A r \in WriteRec : r.call = "write"
      /\ \A r \in FlushRec : r.call \in {"flush", "close"}
  BY DEF WriteRec, FlushRec
<1>2. \A r \in UnmountRec : r.call = "unmount" /\ "late" \in DOMAIN r
  BY DEF UnmountRec
<1>3. \A r \in WipeRec : r.call = "unmount" /\ "late" \notin DOMAIN r
                         /\ r.step \notin {"copy", "commit", "mark", "empty", "remove", "move"}
  BY DEF WipeRec
<1>4. AtRest.call = "none"
  BY DEF AtRest
<1> QED
  BY <1>1, <1>2, <1>3, <1>4

-----------------------------------------------------------------------------
(***************************************************************************)
(* What a step has to leave alone.                                         *)
(***************************************************************************)
\* A handle changes so that no thread that flushes it is mistaken: it is not made
\* dirty, and what a flush in progress has of it is its buffer as before.
Calm(h) ==
  handle'[h].open =>
    /\ handle'[h].dirty => /\ handle[h].open /\ handle[h].dirty
                           /\ handle'[h].buffer \in SUBSET Writes
    /\ handle'[h].buffer = None \/ handle'[h].dirty \/ handle'[h].raced
       \/ handle'[h].buffer = handle'[h].saved
    /\ Committing(h) /\ handle'[h].buffer # None /\ ~handle'[h].raced =>
         /\ handle[h].open /\ handle'[h].buffer = handle[h].buffer /\ ~handle[h].raced
         /\ handle'[h].saved \in {handle[h].saved, handle[h].buffer}

\* A handle that a step does not touch, and one that it closes, are calm.
LEMMA CalmHandles ==
  ASSUME DokanInv, NEW h \in Handles
  PROVE  /\ handle'[h] = handle[h] => Calm(h)
         /\ handle'[h] = Closed => Calm(h)
  BY HandleFacts DEF Calm, DokanInv, Typed, CleanIsSaved

\* Where the handles stay calm, the invariant has to be shown of the threads that move.
LEMMA OthersKeep ==
  ASSUME DokanInv,
         file' \in [Files -> {Absent} \cup FileRec],
         handle' \in [Handles -> {Unused, Closed} \cup HandleRec],
         thread' \in [Threads -> ThreadRec],
         \A h \in Handles : Calm(h),
         \A u \in Threads : \/ thread'[u] = thread[u]
                            \/ Placed(u)' /\ FlushOK(u)' /\ UnmountOK(u)',
         "settled" \notin thrown'
  PROVE  DokanInv'
<1>1. ASSUME NEW u \in Threads, thread'[u] = thread[u] PROVE Placed(u)'
  BY <1>1 DEF DokanInv, Typed, Placed, At
<1>2. ASSUME NEW u \in Threads, thread'[u] = thread[u] PROVE FlushOK(u)'
  <2> SUFFICES ASSUME NEW h \in Handles, InFlush(u, h)', handle'[h].open,
                      handle'[h].buffer # None, ~handle'[h].raced
               PROVE  IF thread'[u].step = "commit" THEN thread'[u].data = handle'[h].buffer
                                                    ELSE handle'[h].saved = handle'[h].buffer
    BY DEF FlushOK
  <2>1. InFlush(u, h) /\ thread'[u] = thread[u] /\ Committing(h)
    BY <1>2 DEF InFlush, Committing
  <2>2. /\ handle[h].open /\ handle'[h].buffer = handle[h].buffer /\ ~handle[h].raced
        /\ handle'[h].saved \in {handle[h].saved, handle[h].buffer}
    BY <2>1 DEF Calm
  <2> QED
    BY <2>1, <2>2 DEF DokanInv, FlushOK
<1>3. ASSUME NEW u \in Threads, thread'[u] = thread[u] PROVE UnmountOK(u)'
  <2>1. thread'[u] = thread[u] /\ UnmountOK(u)
    BY <1>3 DEF DokanInv
  <2>2. \A h \in Handles : handle'[h].open /\ handle'[h].dirty => handle[h].open /\ handle[h].dirty
    BY DEF Calm
  <2> QED
    BY <2>1, <2>2 DEF UnmountOK, Closes
<1>4. CleanIsSaved'
  BY DEF Calm, CleanIsSaved
<1>5. \A h \in Handles : handle'[h].open /\ handle'[h].dirty => handle'[h].buffer \in SUBSET Writes
  BY DEF Calm
<1>6. \A u \in Threads : Placed(u)'
  BY <1>1
<1> QED
  BY <1>2, <1>3, <1>4, <1>5, <1>6 DEF DokanInv, Typed

\* A thread that neither flushes nor closes handles has nothing to keep.
LEMMA ThreadAtEase ==
  ASSUME NEW t \in Threads,
         thread'[t] \in {AtRest} \cup WriteRec \cup CanDeleteRec \cup DeleteRec \cup MoveRec
                        \cup WipeRec,
         thread'[t] # AtRest /\ thread'[t].step = "move" => thread'[t].uuid \in Files
  PROVE  Placed(t)' /\ FlushOK(t)' /\ UnmountOK(t)'
<1>1. CASE thread'[t] = AtRest
  BY <1>1, CallFacts DEF Placed, FlushOK, UnmountOK, At, InFlush, Closes
<1>2. CASE thread'[t] \in WriteRec \cup CanDeleteRec \cup DeleteRec \cup MoveRec
  <2>1. /\ thread'[t].call \notin {"none", "flush", "close", "unmount"}
        /\ thread'[t].step \notin {"copy", "commit", "mark", "empty", "remove"}
        /\ thread'[t] # AtRest
    BY <1>2, CallFacts DEF WriteRec, CanDeleteRec, DeleteRec, MoveRec
  <2> QED
    BY <2>1 DEF Placed, FlushOK, UnmountOK, At, InFlush, Closes
<1>3. CASE thread'[t] \in WipeRec
  <2>1. thread'[t].step \in {"force", "wipe", "release"}
    BY <1>3 DEF WipeRec
  <2> QED
    BY <1>3, <2>1, CallFacts DEF Placed, FlushOK, UnmountOK, At, InFlush, Closes
<1> QED
  BY <1>1, <1>2, <1>3

\* So it is with one that is done.
LEMMA ThreadDone ==
  ASSUME NEW t \in Threads, DokanInv, Return(t)
  PROVE  /\ thread' \in [Threads -> ThreadRec]
         /\ \A u \in Threads \ {t} : thread'[u] = thread[u]
         /\ thread'[t] = AtRest
         /\ Placed(t)' /\ FlushOK(t)' /\ UnmountOK(t)'
<1>1. /\ thread' \in [Threads -> ThreadRec] /\ thread'[t] = AtRest
      /\ \A u \in Threads \ {t} : thread'[u] = thread[u]
  BY DEF Return, ThreadRec, DokanInv, Typed
<1> QED
  BY <1>1, CallFacts, ThreadAtEase

\* A step that only ends its callback.
LEMMA OnlyReturns ==
  ASSUME NEW t \in Threads, DokanInv, Return(t), UNCHANGED <<file, handle, thrown>>
  PROVE  DokanInv'
<1>1. /\ file' \in [Files -> {Absent} \cup FileRec]
      /\ handle' \in [Handles -> {Unused, Closed} \cup HandleRec]
      /\ "settled" \notin thrown'
  BY DEF DokanInv, Typed
<1>2. \A h \in Handles : Calm(h)
  BY CalmHandles
<1> QED
  BY <1>1, <1>2, ThreadDone, OthersKeep

\* Or one that goes on, at ease.
LEMMA OnlyMovesOn ==
  ASSUME NEW t \in Threads, DokanInv,
         NEW r \in WriteRec \cup CanDeleteRec \cup DeleteRec \cup MoveRec \cup WipeRec,
         r.step = "move" => r.uuid \in Files,
         thread' = [thread EXCEPT ![t] = r],
         file' \in [Files -> {Absent} \cup FileRec],
         handle' \in [Handles -> {Unused, Closed} \cup HandleRec],
         \A h \in Handles : Calm(h),
         "settled" \notin thrown'
  PROVE  DokanInv'
<1>1. /\ thread' \in [Threads -> ThreadRec] /\ thread'[t] = r
      /\ \A u \in Threads \ {t} : thread'[u] = thread[u]
  BY DEF ThreadRec, DokanInv, Typed
<1>2. Placed(t)' /\ FlushOK(t)' /\ UnmountOK(t)'
  BY <1>1, ThreadAtEase
<1> QED
  BY <1>1, <1>2, OthersKeep

-----------------------------------------------------------------------------
(***************************************************************************)
(* CreateFile, cleanup and the start of the callbacks.                     *)
(***************************************************************************)
\* At the start, nothing is open.
LEMMA DokanInit == Init => DokanInv
<1> SUFFICES ASSUME Init PROVE DokanInv
  OBVIOUS
<1>1. (CHOOSE p \in Paths : TRUE) \in Paths
  BY PathAssumption
<1>2. [path |-> CHOOSE p \in Paths : TRUE, data |-> {}] \in FileRec
  BY <1>1 DEF FileRec
<1>3. file \in [Files -> {Absent} \cup FileRec]
  BY <1>2 DEF Init
<1>4. /\ handle \in [Handles -> {Unused, Closed} \cup HandleRec]
      /\ \A h \in Handles : ~handle[h].open
  BY HandleFacts DEF Init
<1>5. thread \in [Threads -> ThreadRec] /\ \A t \in Threads : thread[t] = AtRest
  BY DEF Init, ThreadRec
<1>6. \A t \in Threads : Placed(t) /\ FlushOK(t) /\ UnmountOK(t)
  BY <1>4, <1>5, CallFacts DEF Placed, FlushOK, UnmountOK, At, InFlush, Closes
<1> QED
  BY <1>3, <1>4, <1>5, <1>6 DEF Init, DokanInv, Typed, CleanIsSaved

\* A new handle has no buffer.
LEMMA CreateFileStep == ASSUME NEW p \in Paths, NEW h \in Handles
                        PROVE  DokanInv /\ CreateFile(p, h) => DokanInv'
<1> SUFFICES ASSUME DokanInv, CreateFile(p, h) PROVE DokanInv'
  OBVIOUS
<1>1. PICK f \in Files \cup {None}, access \in BOOLEAN :
        handle' = [handle EXCEPT ![h] = NewHandle(f, p, access)]
  BY DEF CreateFile, OpenExisting, CreateNew, ListedAt
<1>2. /\ handle' \in [Handles -> {Unused, Closed} \cup HandleRec]
      /\ handle'[h].buffer = None /\ handle'[h].dirty = FALSE
      /\ \A k \in Handles \ {h} : handle'[k] = handle[k]
  BY <1>1, HandleFacts DEF DokanInv, Typed
<1>3. \A k \in Handles : Calm(k)
  <2>1. Calm(h)
    BY <1>2 DEF Calm
  <2> QED
    BY <1>2, <2>1, CalmHandles
<1>4. UNCHANGED <<file, thread, thrown>>
  BY DEF CreateFile
<1> QED
  BY <1>2, <1>3, <1>4, OthersKeep DEF DokanInv, Typed

\* cleanup closes a handle.
LEMMA CleanupStep == ASSUME NEW h \in Handles PROVE DokanInv /\ Cleanup(h) => DokanInv'
<1> SUFFICES ASSUME DokanInv, Cleanup(h) PROVE DokanInv'
  OBVIOUS
<1>1. /\ handle' \in [Handles -> {Unused, Closed} \cup HandleRec]
      /\ handle'[h] = Closed
      /\ \A k \in Handles \ {h} : handle'[k] = handle[k]
  BY DEF Cleanup, DokanInv, Typed
<1>2. \A k \in Handles : Calm(k)
  BY <1>1, CalmHandles
<1>3. UNCHANGED <<file, thread, thrown>>
  BY DEF Cleanup
<1> QED
  BY <1>1, <1>2, <1>3, OthersKeep DEF DokanInv, Typed

\* A callback that begins has done nothing yet.
LEMMA BeginStep ==
  ASSUME NEW t \in Threads, NEW rec \in ThreadRec, DokanInv, Begin(t, rec),
         rec.step \notin {"commit", "mark", "empty", "remove", "move"},
         rec.step = "copy" => rec.on \in Handles,
         rec.call # "unmount" \/ "late" \notin DOMAIN rec
           \/ /\ rec.step = "next"
              /\ \A h \in Handles : handle[h].open /\ handle[h].dirty => h \in rec.todo
              /\ ~rec.closing
  PROVE  DokanInv'
<1>1. /\ thread' \in [Threads -> ThreadRec] /\ thread'[t] = rec
      /\ \A u \in Threads \ {t} : thread'[u] = thread[u]
      /\ UNCHANGED <<file, handle, thrown>>
  BY DEF Begin, DokanInv, Typed
<1>2. \A h \in Handles : Calm(h)
  BY <1>1, CalmHandles
<1>3. Placed(t)' /\ FlushOK(t)'
  BY <1>1 DEF Placed, FlushOK, At, InFlush
<1>4. UnmountOK(t)'
  BY <1>1 DEF UnmountOK, Closes
<1> QED
  BY <1>1, <1>2, <1>3, <1>4, OthersKeep DEF DokanInv, Typed

\* The calls a program makes.
LEMMA BeginCallStep == ASSUME NEW t \in Threads, NEW h \in Handles
                       PROVE  DokanInv /\ BeginCall(t, h) => DokanInv'
<1> SUFFICES ASSUME DokanInv, BeginCall(t, h) PROVE DokanInv'
  OBVIOUS
<1>1. handle[h] \in HandleRec /\ handle[h].path \in Paths
  BY HandleFacts DEF BeginCall, DokanInv, Typed, HandleRec
<1>2. ASSUME NEW w \in Writes,
             Begin(t, [call |-> "write", on |-> h, step |-> "check", uuid |-> None, data |-> w])
      PROVE  DokanInv'
  <2> DEFINE rec == [call |-> "write", on |-> h, step |-> "check", uuid |-> None, data |-> w]
  <2>1. rec \in ThreadRec /\ rec.step = "check" /\ rec.call = "write"
    BY DEF ThreadRec, WriteRec
  <2> QED
    BY <1>2, <2>1, BeginStep
<1>3. ASSUME NEW c \in {"flush", "close"},
             Begin(t, [call |-> c, on |-> h, step |-> "copy", uuid |-> None, data |-> {},
                       from |-> None])
      PROVE  DokanInv'
  <2> DEFINE rec == [call |-> c, on |-> h, step |-> "copy", uuid |-> None, data |-> {},
                     from |-> None]
  <2>1. rec \in ThreadRec /\ rec.step = "copy" /\ rec.on = h /\ rec.call # "unmount"
    BY DEF ThreadRec, FlushRec
  <2> QED
    BY <1>3, <2>1, BeginStep
<1>4. ASSUME Begin(t, [call |-> "candelete", on |-> h, step |-> "hold", from |-> handle[h].path])
      PROVE  DokanInv'
  <2> DEFINE rec == [call |-> "candelete", on |-> h, step |-> "hold", from |-> handle[h].path]
  <2>1. rec \in ThreadRec /\ rec.step = "hold" /\ rec.call = "candelete"
    BY <1>1 DEF ThreadRec, CanDeleteRec
  <2> QED
    BY <1>4, <2>1, BeginStep
<1>5. ASSUME Begin(t, [call |-> "delete", on |-> h, step |-> "name", uuid |-> None,
                       from |-> handle[h].path])
      PROVE  DokanInv'
  <2> DEFINE rec == [call |-> "delete", on |-> h, step |-> "name", uuid |-> None,
                     from |-> handle[h].path]
  <2>1. rec \in ThreadRec /\ rec.step = "name" /\ rec.call = "delete"
    BY <1>1 DEF ThreadRec, DeleteRec
  <2> QED
    BY <1>5, <2>1, BeginStep
<1>6. ASSUME NEW q \in Paths, NEW replace \in BOOLEAN,
             Begin(t, [call |-> "move", on |-> h, step |-> "name", uuid |-> None,
                       from |-> handle[h].path, to |-> q, replace |-> replace])
      PROVE  DokanInv'
  <2> DEFINE rec == [call |-> "move", on |-> h, step |-> "name", uuid |-> None,
                     from |-> handle[h].path, to |-> q, replace |-> replace]
  <2>1. rec \in ThreadRec /\ rec.step = "name" /\ rec.call = "move"
    BY <1>1 DEF ThreadRec, MoveRec
  <2> QED
    BY <1>6, <2>1, BeginStep
<1> QED
  BY <1>2, <1>3, <1>4, <1>5, <1>6 DEF BeginCall

\* unmount, which flushes what is dirty by then, and force_unmount, which does not.
LEMMA BeginUnmountStep == ASSUME NEW t \in Threads
                          PROVE  DokanInv /\ BeginUnmount(t) => DokanInv'
<1> SUFFICES ASSUME DokanInv, BeginUnmount(t) PROVE DokanInv'
  OBVIOUS
<1> DEFINE todo == {h \in OpenHandles : handle[h].dirty}
           rec == [call |-> "unmount", step |-> "next", closing |-> FALSE, failed |-> FALSE,
                   todo |-> todo, on |-> None, from |-> None, uuid |-> None, data |-> {},
                   late |-> {}]
           force == [call |-> "unmount", step |-> "force"]
<1>1. todo \in SUBSET Handles
  BY DEF OpenHandles
<1>2. \A h \in Handles : handle[h].open /\ handle[h].dirty => h \in todo
  BY DEF OpenHandles
<1>3. CASE Begin(t, rec)
  <2> HIDE DEF todo
  <2>1. rec \in ThreadRec /\ rec.step = "next" /\ rec.todo = todo /\ rec.closing = FALSE
    BY <1>1 DEF ThreadRec, UnmountRec
  <2> QED
    BY <1>2, <1>3, <2>1, BeginStep
<1>4. CASE Begin(t, force)
  <2>1. force \in ThreadRec /\ force.step = "force" /\ "late" \notin DOMAIN force
    BY DEF ThreadRec, WipeRec
  <2> QED
    BY <1>4, <2>1, BeginStep
<1> QED
  BY <1>3, <1>4 DEF BeginUnmount

-----------------------------------------------------------------------------
(***************************************************************************)
(* WriteFile and SetEndOfFile.                                             *)
(***************************************************************************)
\* A write looks the handle up, and remembers its uuid.
LEMMA WriteCheckStep == ASSUME NEW t \in Threads
                        PROVE  DokanInv /\ WriteCheck(t) => DokanInv'
<1> SUFFICES ASSUME DokanInv, WriteCheck(t) PROVE DokanInv'
  OBVIOUS
<1> DEFINE h == handle[thread[t].on]
           r == [thread[t] EXCEPT !.step = "buffer", !.uuid = h.uuid]
<1>1. UNCHANGED <<file, handle, thrown>>
  BY DEF WriteCheck
<1>2. thread[t] \in WriteRec
  BY ThreadFacts DEF WriteCheck, At, DokanInv, Typed
<1>3. CASE Return(t)
  BY <1>1, <1>3, OnlyReturns
<1>4. CASE h.open /\ thread' = [thread EXCEPT ![t].step = "buffer", ![t].uuid = h.uuid]
  <2>1. h \in HandleRec
    BY <1>2, <1>4, HandleFacts DEF DokanInv, Typed, WriteRec
  <2>2. r \in WriteRec /\ r.step = "buffer"
    BY <1>2, <2>1 DEF WriteRec, HandleRec
  <2>3. thread' = [thread EXCEPT ![t] = r]
    BY <1>4
  <2>4. \A k \in Handles : Calm(k)
    BY <1>1, CalmHandles
  <2> HIDE DEF r
  <2> QED
    BY <1>1, <2>2, <2>3, <2>4, OnlyMovesOn DEF DokanInv, Typed
<1> QED
  BY <1>3, <1>4 DEF WriteCheck

\* A handle that is given a buffer has what the vault has, and a flush in progress
\* counts as overtaken.
LEMMA CalmBuffer ==
  ASSUME DokanInv, NEW h \in Handles, handle[h].open, NEW d \in SUBSET Writes,
         handle' = [handle EXCEPT ![h].buffer = d, ![h].saved = d, ![h].raced = @ \/ Committing(h)]
  PROVE  /\ handle' \in [Handles -> {Unused, Closed} \cup HandleRec]
         /\ \A k \in Handles : Calm(k)
<1>1. handle[h] \in HandleRec
  BY HandleFacts DEF DokanInv, Typed
<1> DEFINE r == [handle[h] EXCEPT !.buffer = d, !.saved = d, !.raced = @ \/ Committing(h)]
<1>2. r \in HandleRec /\ r.buffer = d /\ r.saved = d /\ r.dirty = handle[h].dirty
      /\ (Committing(h) => r.raced)
  BY <1>1 DEF HandleRec, Committing
<1>3. handle'[h] = r /\ \A k \in Handles \ {h} : handle'[k] = handle[k]
  BY DEF DokanInv, Typed
<1> HIDE DEF r
<1>4. handle' \in [Handles -> {Unused, Closed} \cup HandleRec]
  BY <1>2, <1>3 DEF DokanInv, Typed
<1>5. Calm(h)
  BY <1>2, <1>3 DEF Calm
<1> QED
  BY <1>3, <1>4, <1>5, CalmHandles

\* The buffer of a new file, or of one that has to be loaded first.
LEMMA WriteBufferStep == ASSUME NEW t \in Threads
                         PROVE  DokanInv /\ WriteBuffer(t) => DokanInv'
<1> SUFFICES ASSUME DokanInv, WriteBuffer(t) PROVE DokanInv'
  OBVIOUS
<1> DEFINE h == thread[t].on
           store == [thread[t] EXCEPT !.step = "store", !.uuid = None]
           load == [thread[t] EXCEPT !.step = "load"]
<1>1. UNCHANGED <<file, thrown>>
  BY DEF WriteBuffer
<1>2. thread[t] \in WriteRec /\ h \in Handles
  BY ThreadFacts DEF WriteBuffer, At, DokanInv, Typed, WriteRec
<1>3. store \in WriteRec /\ store.step = "store" /\ load \in WriteRec /\ load.step = "load"
  BY <1>2 DEF WriteRec
<1>4. CASE Return(t) /\ UNCHANGED handle
  BY <1>1, <1>4, OnlyReturns
<1>5. CASE GoStore(t) /\ UNCHANGED handle
  <2>1. thread' = [thread EXCEPT ![t] = store]
    BY <1>5 DEF GoStore
  <2>2. \A k \in Handles : Calm(k)
    BY <1>5, CalmHandles
  <2> HIDE DEF store
  <2> QED
    BY <1>1, <1>3, <1>5, <2>1, <2>2, OnlyMovesOn DEF DokanInv, Typed
<1>6. CASE /\ handle[h].open /\ GoStore(t)
           /\ handle' = [handle EXCEPT ![h].buffer = {}, ![h].saved = {},
                                       ![h].raced = @ \/ Committing(h)]
  <2>1. thread' = [thread EXCEPT ![t] = store]
    BY <1>6 DEF GoStore
  <2>2. /\ handle' \in [Handles -> {Unused, Closed} \cup HandleRec]
        /\ \A k \in Handles : Calm(k)
    <3>1. {} \in SUBSET Writes
      OBVIOUS
    <3> QED
      BY <1>2, <1>6, <3>1, CalmBuffer
  <2> HIDE DEF store
  <2> QED
    BY <1>1, <1>3, <2>1, <2>2, OnlyMovesOn DEF DokanInv, Typed
<1>7. CASE Goto(t, "load") /\ UNCHANGED handle
  <2>1. thread' = [thread EXCEPT ![t] = load]
    BY <1>7 DEF Goto
  <2>2. \A k \in Handles : Calm(k)
    BY <1>7, CalmHandles
  <2> HIDE DEF load
  <2> QED
    BY <1>1, <1>3, <1>7, <2>1, <2>2, OnlyMovesOn DEF DokanInv, Typed
<1> QED
  BY <1>4, <1>5, <1>6, <1>7 DEF WriteBuffer

\* The buffer of a file that is there.
LEMMA WriteLoadStep == ASSUME NEW t \in Threads
                       PROVE  DokanInv /\ WriteLoad(t) => DokanInv'
<1> SUFFICES ASSUME DokanInv, WriteLoad(t) PROVE DokanInv'
  OBVIOUS
<1> DEFINE h == thread[t].on
           f == thread[t].uuid
           store == [thread[t] EXCEPT !.step = "store", !.uuid = None]
<1>1. UNCHANGED <<file, thrown>>
  BY DEF WriteLoad
<1>2. thread[t] \in WriteRec /\ h \in Handles
  BY ThreadFacts DEF WriteLoad, At, DokanInv, Typed, WriteRec
<1>3. store \in WriteRec /\ store.step = "store"
  BY <1>2 DEF WriteRec
<1>4. CASE Return(t) /\ UNCHANGED handle
  BY <1>1, <1>4, OnlyReturns
<1>5. CASE /\ Readable(f) /\ GoStore(t)
           /\ handle' = [handle EXCEPT ![h].buffer = file[f].data, ![h].saved = file[f].data,
                                       ![h].raced = @ \/ Committing(h)]
  <2>1. thread' = [thread EXCEPT ![t] = store]
    BY <1>5 DEF GoStore
  <2>2. file[f].data \in SUBSET Writes
    BY <1>5 DEF Readable, DokanInv, Typed, FileRec
  <2>3. /\ handle' \in [Handles -> {Unused, Closed} \cup HandleRec]
        /\ \A k \in Handles : Calm(k)
    <3>1. CASE handle[h].open
      BY <1>2, <1>5, <2>2, <3>1, CalmBuffer
    <3>2. CASE ~handle[h].open
      <4>1. handle[h] \in {Unused, Closed}
        BY <1>2, <3>2, HandleFacts DEF DokanInv, Typed
      <4>2. handle'[h] = handle[h]
        <5> DEFINE d == file[f].data
                   raced == handle[h].raced \/ Committing(h)
        <5>1. handle'[h] = [handle[h] EXCEPT !.buffer = d, !.saved = d, !.raced = raced]
          BY <1>2, <1>5 DEF DokanInv, Typed
        <5> HIDE DEF d, raced
        <5> QED
          BY <4>1, <5>1 DEF Unused, Closed
      <4>3. handle' \in [Handles -> {Unused, Closed} \cup HandleRec]
            /\ \A k \in Handles : handle'[k] = handle[k]
        BY <1>2, <1>5, <4>2 DEF DokanInv, Typed
      <4> QED
        BY <4>3, CalmHandles
    <3> QED
      BY <3>1, <3>2
  <2> HIDE DEF store
  <2> QED
    BY <1>1, <1>3, <2>1, <2>3, OnlyMovesOn DEF DokanInv, Typed
<1> QED
  BY <1>4, <1>5 DEF WriteLoad

\* A thread that goes through the handles.
LEMMA ClosesFacts ==
  ASSUME NEW u \in Threads, thread[u] \in ThreadRec, Closes(u)
  PROVE  thread[u] \in UnmountRec
<1>1. thread[u].call = "unmount" /\ "late" \in DOMAIN thread[u]
  BY DEF Closes
<1>2. thread[u] \notin {AtRest} \cup WriteRec \cup FlushRec \cup WipeRec
  BY <1>1, CallFacts
<1>3. thread[u] \notin CanDeleteRec \cup DeleteRec \cup MoveRec
  BY <1>1 DEF CanDeleteRec, DeleteRec, MoveRec
<1> QED
  BY <1>2, <1>3 DEF ThreadRec

\* A write is stored: the handle is dirty, a flush in progress counts as overtaken, and
\* an unmount in progress as begun before it.
LEMMA WriteStoreStep == ASSUME NEW t \in Threads
                        PROVE  DokanInv /\ WriteStore(t) => DokanInv'
<1> SUFFICES ASSUME DokanInv, WriteStore(t) PROVE DokanInv'
  OBVIOUS
<1> DEFINE h == thread[t].on
           w == thread[t].data
           b == IF w \in Cuts THEN {w} ELSE handle[h].buffer \cup {w}
           new == [handle[h] EXCEPT !.buffer = b, !.dirty = TRUE, !.saved = None,
                                    !.raced = @ \/ Committing(h)]
<1>1. UNCHANGED <<file, thrown>>
  BY DEF WriteStore
<1>2. thread[t] \in WriteRec /\ h \in Handles /\ w \in Writes /\ thread[t].call = "write"
  BY ThreadFacts DEF WriteStore, At, DokanInv, Typed, WriteRec
<1>3. CASE Return(t) /\ UNCHANGED handle
  BY <1>1, <1>3, OnlyReturns
<1>4. CASE /\ handle[h].open /\ handle[h].buffer # None
           /\ handle' = [handle EXCEPT
                ![h].buffer = IF w \in Cuts THEN {w} ELSE @ \cup {w}, ![h].dirty = TRUE,
                ![h].saved = None, ![h].raced = @ \/ Committing(h)]
           /\ thread' = [u \in Threads |->
                CASE u = t -> AtRest
                  [] u # t /\ Closes(u) -> [thread[u] EXCEPT !.late = @ \cup {h}]
                  [] OTHER -> thread[u]]
  <2>1. handle[h] \in HandleRec /\ handle[h].buffer \in SUBSET Writes
    BY <1>2, <1>4, HandleFacts DEF DokanInv, Typed, HandleRec
  <2>2. /\ handle'[h] = new
        /\ \A k \in Handles \ {h} : handle'[k] = handle[k]
        /\ DOMAIN handle' = Handles
    BY <1>2, <1>4 DEF DokanInv, Typed
  <2>3. b \in SUBSET Writes
    BY <1>2, <2>1
  <2>4. /\ new \in HandleRec /\ new.buffer = b /\ new.dirty = TRUE
        /\ Committing(h) => new.raced
    <3> HIDE DEF b
    <3> QED
      BY <2>1, <2>3 DEF HandleRec, Committing
  <2> HIDE DEF b, new
  <2>5. handle' \in [Handles -> {Unused, Closed} \cup HandleRec]
    BY <1>4, <2>2, <2>4 DEF DokanInv, Typed
  <2>6. thread'[t] = AtRest
    BY <1>4
  <2>7. ASSUME NEW u \in Threads, u # t, Closes(u)
        PROVE  /\ thread[u] \in UnmountRec /\ thread'[u] \in UnmountRec
               /\ thread'[u] = [thread[u] EXCEPT !.late = @ \cup {h}]
               /\ thread'[u].call = thread[u].call /\ thread'[u].step = thread[u].step
               /\ thread'[u].on = thread[u].on /\ thread'[u].data = thread[u].data
               /\ thread'[u].from = thread[u].from /\ thread'[u].uuid = thread[u].uuid
               /\ thread'[u].closing = thread[u].closing /\ thread'[u].failed = thread[u].failed
               /\ thread'[u].todo = thread[u].todo
               /\ thread'[u].late = thread[u].late \cup {h}
    <3>1. thread[u] \in UnmountRec
      BY <2>7, ClosesFacts DEF DokanInv, Typed
    <3>2. thread'[u] = [thread[u] EXCEPT !.late = @ \cup {h}]
      BY <1>4, <2>7
    <3> QED
      BY <1>2, <3>1, <3>2 DEF UnmountRec
  <2>8. ASSUME NEW u \in Threads, u # t, ~Closes(u) PROVE thread'[u] = thread[u]
    BY <1>4, <2>8
  <2>9. thread' \in [Threads -> ThreadRec]
    <3>1. \A u \in Threads : thread'[u] \in ThreadRec
      BY <2>6, <2>7, <2>8 DEF ThreadRec, DokanInv, Typed
    <3>2. thread' = [u \in Threads |-> thread'[u]]
      BY <1>4
    <3> QED
      BY <3>1, <3>2
  <2>10. ASSUME NEW u \in Threads PROVE Placed(u)'
    <3>1. CASE u = t
      BY <2>6, <3>1, CallFacts DEF Placed, At
    <3>2. CASE u # t
      BY <2>7, <2>8, <3>2 DEF DokanInv, Typed, Placed, At
    <3> QED
      BY <3>1, <3>2
  <2>11. ASSUME NEW u \in Threads PROVE FlushOK(u)'
    <3> SUFFICES ASSUME NEW k \in Handles, InFlush(u, k)', handle'[k].open,
                        handle'[k].buffer # None, ~handle'[k].raced
                 PROVE  IF thread'[u].step = "commit" THEN thread'[u].data = handle'[k].buffer
                                                      ELSE handle'[k].saved = handle'[k].buffer
      BY DEF FlushOK
    <3>1. u # t
      BY <2>6, CallFacts DEF InFlush
    <3>2. InFlush(u, k) /\ thread'[u].step = thread[u].step /\ thread'[u].data = thread[u].data
      BY <2>7, <2>8, <3>1 DEF InFlush
    <3>3. k # h
      BY <2>2, <2>4, <3>2 DEF InFlush, Committing
    <3> QED
      BY <2>2, <3>2, <3>3 DEF DokanInv, FlushOK
  <2>12. ASSUME NEW u \in Threads PROVE UnmountOK(u)'
    <3> SUFFICES ASSUME Closes(u)' PROVE UnmountOK(u)'
      BY DEF UnmountOK
    <3>1. u # t /\ Closes(u)
      BY <2>6, <2>7, <2>8, CallFacts DEF Closes
    <3>2. UnmountOK(u)
      BY DEF DokanInv
    <3> QED
      BY <2>2, <2>7, <3>1, <3>2 DEF UnmountOK
  <2>13. CleanIsSaved'
    BY <2>2, <2>4 DEF CleanIsSaved, DokanInv
  <2>14. \A k \in Handles : handle'[k].open /\ handle'[k].dirty => handle'[k].buffer \in SUBSET Writes
    BY <2>2, <2>3, <2>4 DEF DokanInv, Typed
  <2> QED
    BY <1>1, <2>5, <2>9, <2>10, <2>11, <2>12, <2>13, <2>14 DEF DokanInv, Typed
<1> QED
  BY <1>3, <1>4 DEF WriteStore

-----------------------------------------------------------------------------
(***************************************************************************)
(* FlushFileBuffers and CloseFile.                                         *)
(***************************************************************************)
\* What follows a flush that leaves its handle clean.
LEMMA FlushedFacts ==
  ASSUME NEW t \in Threads, DokanInv, At(t, "copy") \/ At(t, "mark"), Flushed(t),
         \A h \in Handles : handle'[h].open /\ handle'[h].dirty =>
           handle[h].open /\ handle[h].dirty /\ h # thread[t].on
  PROVE  /\ thread' \in [Threads -> ThreadRec]
         /\ \A u \in Threads \ {t} : thread'[u] = thread[u]
         /\ Placed(t)' /\ FlushOK(t)' /\ UnmountOK(t)'
<1>1. thread[t] \in FlushRec \cup UnmountRec /\ thread[t].on \in Handles
  BY ThreadFacts DEF At, DokanInv, Typed, Placed
<1>2. CASE thread[t].call = "flush"
  <2>1. Return(t)
    BY <1>2 DEF Flushed, InClosing, Return, Proceed
  <2> QED
    BY <2>1, ThreadDone
<1>3. CASE thread[t].call = "close"
  <2> DEFINE r == [thread[t] EXCEPT !.step = "empty", !.uuid = None, !.data = {}, !.from = None]
  <2>1. thread[t] \in FlushRec /\ thread' = [thread EXCEPT ![t] = r]
    BY <1>1, <1>3, CallFacts DEF Flushed, InClosing, Proceed
  <2>2. r \in FlushRec /\ r.step = "empty" /\ r.on = thread[t].on /\ r.call = "close"
    BY <1>3, <2>1 DEF FlushRec
  <2> HIDE DEF r
  <2>3. /\ thread' \in [Threads -> ThreadRec] /\ thread'[t] = r
        /\ \A u \in Threads \ {t} : thread'[u] = thread[u]
    BY <2>1, <2>2 DEF ThreadRec, DokanInv, Typed
  <2> QED
    BY <1>1, <2>2, <2>3 DEF Placed, FlushOK, UnmountOK, At, InFlush, Closes
<1>4. CASE thread[t].call = "unmount"
  <2> DEFINE next == IF thread[t].closing THEN "empty" ELSE "next"
             r == [thread[t] EXCEPT !.step = next, !.uuid = None, !.data = {}, !.from = None]
  <2>1. thread[t] \in UnmountRec
    BY <1>1, <1>4, CallFacts
  <2>2. thread' = [thread EXCEPT ![t] = r]
    BY <1>4 DEF Flushed, InClosing, Proceed
  <2>3. /\ r \in UnmountRec /\ r.step = next /\ r.on = thread[t].on /\ r.call = "unmount"
        /\ r.closing = thread[t].closing /\ r.failed = thread[t].failed
        /\ r.todo = thread[t].todo /\ r.late = thread[t].late
        /\ next \in {"empty", "next"} /\ (next = "empty" <=> r.closing)
    BY <2>1 DEF UnmountRec
  <2> HIDE DEF r, next
  <2>4. /\ thread' \in [Threads -> ThreadRec] /\ thread'[t] = r
        /\ \A u \in Threads \ {t} : thread'[u] = thread[u]
    BY <2>2, <2>3 DEF ThreadRec, DokanInv, Typed
  <2>5. Placed(t)' /\ FlushOK(t)'
    BY <1>1, <2>3, <2>4 DEF Placed, FlushOK, At, InFlush
  <2>6. UnmountOK(t)'
    <3>1. Closes(t) /\ UnmountOK(t)
      BY <2>1, CallFacts DEF Closes, DokanInv
    <3> QED
      BY <2>3, <2>4, <3>1 DEF UnmountOK
  <2> QED
    BY <2>4, <2>5, <2>6
<1> QED
  BY <1>1, <1>2, <1>3, <1>4, CallFacts

\* What follows one that fails: an unmount that has not begun to close notes it.
LEMMA FlushFailedFacts ==
  ASSUME NEW t \in Threads, DokanInv, At(t, "copy") \/ At(t, "commit"), FlushFailed(t),
         \A h \in Handles : handle'[h] = handle[h]
  PROVE  /\ thread' \in [Threads -> ThreadRec]
         /\ \A u \in Threads \ {t} : thread'[u] = thread[u]
         /\ Placed(t)' /\ FlushOK(t)' /\ UnmountOK(t)'
<1>1. thread[t] \in FlushRec \cup UnmountRec /\ thread[t].on \in Handles
  BY ThreadFacts DEF At, DokanInv, Typed, Placed
<1>2. CASE thread[t].call # "unmount"
  <2>1. Return(t)
    BY <1>2 DEF FlushFailed, InClosing, Return, Proceed
  <2> QED
    BY <2>1, ThreadDone
<1>3. CASE thread[t].call = "unmount"
  <2> DEFINE next == IF thread[t].closing THEN "remove" ELSE "next"
             failed == IF thread[t].closing THEN thread[t].failed ELSE TRUE
             r == [thread[t] EXCEPT !.step = next, !.failed = failed,
                                    !.uuid = None, !.data = {}, !.from = None]
  <2>1. thread[t] \in UnmountRec
    BY <1>1, <1>3, CallFacts
  <2>2. thread' = [thread EXCEPT ![t] = r]
    <3>1. CASE thread[t].closing
      <4>1. r = [thread[t] EXCEPT !.step = "remove", !.uuid = None, !.data = {}, !.from = None]
        BY <2>1, <3>1 DEF UnmountRec
      <4> QED
        BY <1>3, <3>1, <4>1 DEF FlushFailed, InClosing, Proceed
    <3>2. CASE ~thread[t].closing
      BY <1>3, <3>2 DEF FlushFailed, InClosing
    <3> QED
      BY <3>1, <3>2
  <2>3. /\ r \in UnmountRec /\ r.step = next /\ r.on = thread[t].on /\ r.call = "unmount"
        /\ r.closing = thread[t].closing /\ (~r.closing => r.failed)
        /\ r.todo = thread[t].todo /\ r.late = thread[t].late
        /\ next \in {"remove", "next"} /\ (next = "remove" <=> r.closing)
    BY <2>1 DEF UnmountRec
  <2> HIDE DEF r, next, failed
  <2>4. /\ thread' \in [Threads -> ThreadRec] /\ thread'[t] = r
        /\ \A u \in Threads \ {t} : thread'[u] = thread[u]
    BY <2>2, <2>3 DEF ThreadRec, DokanInv, Typed
  <2>5. Placed(t)' /\ FlushOK(t)'
    BY <1>1, <2>3, <2>4 DEF Placed, FlushOK, At, InFlush
  <2>6. UnmountOK(t)'
    <3>1. Closes(t) /\ UnmountOK(t)
      BY <2>1, CallFacts DEF Closes, DokanInv
    <3> QED
      BY <2>3, <2>4, <3>1 DEF UnmountOK
  <2> QED
    BY <2>4, <2>5, <2>6
<1> QED
  BY <1>2, <1>3

\* The copy: what will be committed is the buffer.
LEMMA FlushCopyStep == ASSUME NEW t \in Threads
                       PROVE  DokanInv /\ FlushCopy(t) => DokanInv'
<1> SUFFICES ASSUME DokanInv, FlushCopy(t) PROVE DokanInv'
  OBVIOUS
<1> DEFINE h == handle[thread[t].on]
           r == [thread[t] EXCEPT !.step = "commit", !.uuid = h.uuid, !.from = h.path,
                                  !.data = h.buffer]
<1>1. At(t, "copy") /\ UNCHANGED <<file, handle, thrown>>
  BY DEF FlushCopy
<1>2. thread[t] \in FlushRec \cup UnmountRec /\ thread[t].on \in Handles
  BY <1>1, ThreadFacts DEF At, DokanInv, Typed, Placed
<1>3. \A k \in Handles : Calm(k)
  BY <1>1, CalmHandles
<1>4. CASE h.open /\ h.dirty /\ thread' = [thread EXCEPT ![t] = r]
  <2>1. h \in HandleRec /\ h.buffer \in SUBSET Writes
    BY <1>2, <1>4, HandleFacts DEF DokanInv, Typed
  <2>2. h.uuid \in Files \cup {None} /\ h.path \in Paths
    BY <2>1 DEF HandleRec
  <2>3. /\ r \in FlushRec \cup UnmountRec /\ (r \in UnmountRec <=> thread[t] \in UnmountRec)
        /\ r.step = "commit" /\ r.on = thread[t].on /\ r.from = h.path /\ r.data = h.buffer
        /\ r.call = thread[t].call
    <3>1. CASE thread[t] \in FlushRec
      <4>1. /\ r \in FlushRec /\ r.step = "commit" /\ r.on = thread[t].on /\ r.from = h.path
            /\ r.data = h.buffer /\ r.call = thread[t].call
        BY <2>1, <2>2, <3>1 DEF FlushRec
      <4> QED
        BY <3>1, <4>1, CallFacts
    <3>2. CASE thread[t] \in UnmountRec
      BY <2>1, <2>2, <3>2 DEF UnmountRec
    <3> QED
      BY <1>2, <3>1, <3>2
  <2>4. thread[t] \in UnmountRec =>
          r.closing = thread[t].closing /\ r.failed = thread[t].failed
          /\ r.todo = thread[t].todo /\ r.late = thread[t].late
    BY DEF UnmountRec
  <2> HIDE DEF r
  <2>5. /\ thread' \in [Threads -> ThreadRec] /\ thread'[t] = r
        /\ \A u \in Threads \ {t} : thread'[u] = thread[u]
    BY <1>4, <2>3 DEF ThreadRec, DokanInv, Typed
  <2>6. Placed(t)' /\ FlushOK(t)'
    BY <1>1, <1>2, <2>2, <2>3, <2>5 DEF Placed, FlushOK, At, InFlush
  <2>7. UnmountOK(t)'
    <3>1. Closes(t)' => r \in UnmountRec
      BY <2>3, <2>5, CallFacts DEF Closes
    <3>2. r \in UnmountRec => Closes(t) /\ UnmountOK(t)
      BY <2>3, CallFacts DEF Closes, DokanInv
    <3> QED
      BY <1>1, <2>3, <2>4, <2>5, <3>1, <3>2 DEF UnmountOK, At
  <2> QED
    BY <1>1, <1>3, <2>5, <2>6, <2>7, OthersKeep DEF DokanInv, Typed
<1>5. CASE h.open /\ ~h.dirty /\ Flushed(t)
  <2>1. /\ thread' \in [Threads -> ThreadRec]
        /\ \A u \in Threads \ {t} : thread'[u] = thread[u]
        /\ Placed(t)' /\ FlushOK(t)' /\ UnmountOK(t)'
    BY <1>1, <1>5, FlushedFacts
  <2> QED
    BY <1>1, <1>3, <2>1, OthersKeep DEF DokanInv, Typed
<1>6. CASE FlushFailed(t)
  <2>1. /\ thread' \in [Threads -> ThreadRec]
        /\ \A u \in Threads \ {t} : thread'[u] = thread[u]
        /\ Placed(t)' /\ FlushOK(t)' /\ UnmountOK(t)'
    BY <1>1, <1>6, FlushFailedFacts
  <2> QED
    BY <1>1, <1>3, <2>1, OthersKeep DEF DokanInv, Typed
<1> QED
  BY <1>4, <1>5, <1>6 DEF FlushCopy

\* The commit, which may fail before or after the old file is deleted.
LEMMA FlushCommitStep == ASSUME NEW t \in Threads
                         PROVE  DokanInv /\ FlushCommit(t) => DokanInv'
<1> SUFFICES ASSUME DokanInv, FlushCommit(t) PROVE DokanInv'
  OBVIOUS
<1> DEFINE h == thread[t].on
           data == thread[t].data
           f == thread[t].uuid
<1>1. At(t, "commit") /\ UNCHANGED thrown
  BY DEF FlushCommit
<1>2. /\ thread[t] \in FlushRec \cup UnmountRec /\ h \in Handles /\ thread[t].from \in Paths
      /\ data \in SUBSET Writes
  BY <1>1, ThreadFacts DEF At, DokanInv, Typed, Placed, FlushRec, UnmountRec
<1>3. InFlush(t, h) /\ Committing(h)
  BY <1>1, <1>2, CallFacts DEF At, InFlush, Committing
<1>4. ASSUME NEW g \in Files \ drawn,
             file' = [k \in Files |->
                        IF k = g THEN [path |-> thread[t].from, data |-> data]
                        ELSE IF k = f THEN Absent ELSE file[k]],
             thread' = [thread EXCEPT ![t].step = "mark", ![t].uuid = g,
                                      ![t].data = {}, ![t].from = None],
             handle' = [handle EXCEPT ![h] = IF @.open THEN [@ EXCEPT !.saved = data] ELSE @]
      PROVE  DokanInv'
  <2> DEFINE r == [thread[t] EXCEPT !.step = "mark", !.uuid = g, !.data = {}, !.from = None]
             new == [handle[h] EXCEPT !.saved = data]
  <2>1. file' \in [Files -> {Absent} \cup FileRec]
    <3>1. [path |-> thread[t].from, data |-> data] \in FileRec
      BY <1>2 DEF FileRec
    <3> QED
      BY <1>4, <3>1 DEF DokanInv, Typed
  <2>2. /\ r \in FlushRec \cup UnmountRec /\ (r \in UnmountRec <=> thread[t] \in UnmountRec)
        /\ r.step = "mark" /\ r.on = h /\ r.call = thread[t].call
    <3>1. CASE thread[t] \in FlushRec
      <4>1. r \in FlushRec /\ r.step = "mark" /\ r.on = h /\ r.call = thread[t].call
        BY <3>1 DEF FlushRec
      <4> QED
        BY <3>1, <4>1, CallFacts
    <3>2. CASE thread[t] \in UnmountRec
      BY <3>2 DEF UnmountRec
    <3> QED
      BY <1>2, <3>1, <3>2
  <2>3. thread[t] \in UnmountRec =>
          r.closing = thread[t].closing /\ r.failed = thread[t].failed
          /\ r.todo = thread[t].todo /\ r.late = thread[t].late
    BY DEF UnmountRec
  <2> HIDE DEF r
  <2>4. /\ thread' \in [Threads -> ThreadRec] /\ thread'[t] = r
        /\ \A u \in Threads \ {t} : thread'[u] = thread[u]
    BY <1>4, <2>2 DEF ThreadRec, DokanInv, Typed, r
  <2>5. handle[h].open =>
          /\ handle'[h] = new /\ new \in HandleRec /\ new.saved = data /\ new.open
          /\ new.buffer = handle[h].buffer /\ new.dirty = handle[h].dirty
          /\ new.raced = handle[h].raced
    <3>1. handle[h].open => handle[h] \in HandleRec /\ handle'[h] = new
      BY <1>2, <1>4, HandleFacts DEF DokanInv, Typed
    <3>2. handle[h] \in HandleRec =>
            /\ new \in HandleRec /\ new.saved = data /\ new.open
            /\ new.buffer = handle[h].buffer /\ new.dirty = handle[h].dirty
            /\ new.raced = handle[h].raced
      BY <1>2 DEF HandleRec
    <3> QED
      BY <3>1, <3>2
  <2> HIDE DEF new
  <2>6. /\ ~handle[h].open => handle'[h] = handle[h]
        /\ \A k \in Handles \ {h} : handle'[k] = handle[k]
    BY <1>2, <1>4 DEF DokanInv, Typed
  <2>7. handle' \in [Handles -> {Unused, Closed} \cup HandleRec]
    BY <1>2, <1>4, <2>5, <2>6 DEF DokanInv, Typed
  <2>8. handle[h].open /\ handle[h].buffer # None /\ ~handle[h].raced => data = handle[h].buffer
    BY <1>1, <1>2, <1>3 DEF DokanInv, FlushOK, At
  <2>9. \A k \in Handles : Calm(k)
    <3>1. handle[h].open => Calm(h)
      BY <1>2, <2>5, <2>8 DEF Calm, DokanInv, Typed
    <3> QED
      BY <2>6, <3>1, CalmHandles
  <2>10. Placed(t)'
    BY <1>2, <2>2, <2>4 DEF Placed, At
  <2>11. FlushOK(t)'
    BY <2>2, <2>4, <2>5, <2>6, <2>8 DEF FlushOK, InFlush
  <2>12. UnmountOK(t)'
    <3>1. Closes(t)' => r \in UnmountRec
      BY <2>2, <2>4, CallFacts DEF Closes
    <3>2. r \in UnmountRec => Closes(t) /\ UnmountOK(t)
      BY <2>2, CallFacts DEF Closes, DokanInv
    <3>3. \A k \in Handles : handle'[k].open /\ handle'[k].dirty => handle[k].open /\ handle[k].dirty
      BY <2>9 DEF Calm
    <3> QED
      BY <1>1, <2>2, <2>3, <2>4, <3>1, <3>2, <3>3 DEF UnmountOK, At
  <2> QED
    BY <1>1, <2>1, <2>4, <2>7, <2>9, <2>10, <2>11, <2>12, OthersKeep DEF DokanInv
<1>5. ASSUME FlushFailed(t), Remove(f) \/ UNCHANGED file, UNCHANGED handle PROVE DokanInv'
  <2>1. file' \in [Files -> {Absent} \cup FileRec]
    BY <1>5 DEF Remove, DokanInv, Typed
  <2>2. /\ thread' \in [Threads -> ThreadRec]
        /\ \A u \in Threads \ {t} : thread'[u] = thread[u]
        /\ Placed(t)' /\ FlushOK(t)' /\ UnmountOK(t)'
    BY <1>1, <1>5, FlushFailedFacts
  <2>3. \A k \in Handles : Calm(k)
    BY <1>5, CalmHandles
  <2> QED
    BY <1>1, <1>5, <2>1, <2>2, <2>3, OthersKeep DEF DokanInv, Typed
<1> QED
  BY <1>4, <1>5 DEF FlushCommit

\* The mark: the vault has the buffer, or a write overtook the flush.
LEMMA FlushMarkStep == ASSUME NEW t \in Threads
                       PROVE  DokanInv /\ FlushMark(t) => DokanInv'
<1> SUFFICES ASSUME DokanInv, FlushMark(t) PROVE DokanInv'
  OBVIOUS
<1> DEFINE h == thread[t].on
           new == [handle[h] EXCEPT !.dirty = FALSE, !.uuid = thread[t].uuid]
<1>1. At(t, "mark") /\ Flushed(t) /\ UNCHANGED <<file, thrown>>
  BY DEF FlushMark
<1>2. /\ thread[t] \in FlushRec \cup UnmountRec /\ h \in Handles
      /\ thread[t].uuid \in Files \cup {None}
  BY <1>1, ThreadFacts DEF At, DokanInv, Typed, Placed, FlushRec, UnmountRec
<1>3. InFlush(t, h) /\ Committing(h)
  BY <1>1, <1>2, CallFacts DEF At, InFlush, Committing
<1>4. handle[h].open =>
        /\ handle'[h] = new /\ new \in HandleRec /\ new.dirty = FALSE /\ new.open
        /\ new.buffer = handle[h].buffer /\ new.saved = handle[h].saved
        /\ new.raced = handle[h].raced
  <2>1. handle[h].open => handle[h] \in HandleRec /\ handle'[h] = new
    BY <1>2, HandleFacts DEF FlushMark, DokanInv, Typed
  <2>2. handle[h] \in HandleRec =>
          /\ new \in HandleRec /\ new.dirty = FALSE /\ new.open
          /\ new.buffer = handle[h].buffer /\ new.saved = handle[h].saved
          /\ new.raced = handle[h].raced
    BY <1>2 DEF HandleRec
  <2> QED
    BY <2>1, <2>2
<1> HIDE DEF new
<1>5. /\ ~handle[h].open => handle'[h] = handle[h]
      /\ \A k \in Handles \ {h} : handle'[k] = handle[k]
  BY <1>2 DEF FlushMark, DokanInv, Typed
<1>6. handle' \in [Handles -> {Unused, Closed} \cup HandleRec]
  <2>1. handle' = [k \in Handles |-> handle'[k]]
    BY DEF FlushMark, DokanInv, Typed
  <2>2. \A k \in Handles : handle'[k] \in {Unused, Closed} \cup HandleRec
    BY <1>4, <1>5 DEF DokanInv, Typed
  <2> QED
    BY <2>1, <2>2
<1>7. handle[h].open /\ handle[h].buffer # None /\ ~handle[h].raced
      => handle[h].saved = handle[h].buffer
  BY <1>1, <1>2, <1>3 DEF DokanInv, FlushOK, At
<1>8. \A k \in Handles : Calm(k)
  <2>1. handle[h].open => Calm(h)
    BY <1>2, <1>4, <1>7 DEF Calm
  <2> QED
    BY <1>5, <2>1, CalmHandles
<1>9. \A k \in Handles : handle'[k].open /\ handle'[k].dirty =>
        handle[k].open /\ handle[k].dirty /\ k # h
  BY <1>4, <1>5
<1>10. /\ thread' \in [Threads -> ThreadRec]
       /\ \A u \in Threads \ {t} : thread'[u] = thread[u]
       /\ Placed(t)' /\ FlushOK(t)' /\ UnmountOK(t)'
  BY <1>1, <1>9, FlushedFacts
<1> QED
  BY <1>1, <1>6, <1>8, <1>10, OthersKeep DEF DokanInv, Typed

\* What an unmount drops of a handle not written since it began is a raced write: a dirty
\* handle would still have to be flushed, and a clean one is saved or raced.
LEMMA OnlyRacedAreDropped ==
  ASSUME NEW t \in Threads, DokanInv, At(t, "empty") \/ At(t, "remove") \/ At(t, "force"),
         NEW hs \in SUBSET Handles, thrown' = thrown \cup Drops(t, hs)
  PROVE  "settled" \notin thrown'
<1>1. ASSUME NEW h \in hs, OldWrite(t, h) PROVE handle[h].raced /\ ~handle[h].dirty
  <2>1. /\ Closes(t) /\ handle[h].open /\ h \notin thread[t].late
        /\ handle[h].buffer # None /\ handle[h].buffer # handle[h].saved
    BY <1>1 DEF OldWrite
  <2>2. UnmountOK(t) /\ CleanIsSaved
    BY DEF DokanInv
  <2>3. ~handle[h].dirty
    BY <2>1, <2>2 DEF UnmountOK, At
  <2> QED
    BY <2>1, <2>2, <2>3 DEF CleanIsSaved
<1>2. "settled" \notin Drops(t, hs)
  BY <1>1 DEF Drops
<1> QED
  BY <1>2 DEF DokanInv

\* close_file drops the buffer.
LEMMA CloseEmptyStep == ASSUME NEW t \in Threads
                        PROVE  DokanInv /\ CloseEmpty(t) => DokanInv'
<1> SUFFICES ASSUME DokanInv, CloseEmpty(t) PROVE DokanInv'
  OBVIOUS
<1> DEFINE h == thread[t].on
           new == [handle[h] EXCEPT !.buffer = None, !.dirty = FALSE, !.saved = None,
                                    !.raced = FALSE]
<1>1. At(t, "empty") /\ UNCHANGED file
  BY DEF CloseEmpty
<1>2. thread[t] \in FlushRec \cup UnmountRec /\ h \in Handles
  BY <1>1, ThreadFacts DEF At, DokanInv, Typed, Placed
<1>3. handle[h].open =>
        handle'[h] = new /\ new \in HandleRec /\ new.dirty = FALSE /\ new.buffer = None
  <2>1. handle[h].open => handle[h] \in HandleRec /\ handle'[h] = new
    BY <1>2, HandleFacts DEF CloseEmpty, DokanInv, Typed
  <2>2. handle[h] \in HandleRec => new \in HandleRec /\ new.dirty = FALSE /\ new.buffer = None
    BY DEF HandleRec
  <2> QED
    BY <2>1, <2>2
<1> HIDE DEF new
<1>4. /\ ~handle[h].open => handle'[h] = handle[h]
      /\ \A k \in Handles \ {h} : handle'[k] = handle[k]
  BY <1>2 DEF CloseEmpty, DokanInv, Typed
<1>5. handle' \in [Handles -> {Unused, Closed} \cup HandleRec]
  <2>1. handle' = [k \in Handles |-> handle'[k]]
    BY DEF CloseEmpty, DokanInv, Typed
  <2>2. \A k \in Handles : handle'[k] \in {Unused, Closed} \cup HandleRec
    BY <1>3, <1>4 DEF DokanInv, Typed
  <2> QED
    BY <2>1, <2>2
<1>6. \A k \in Handles : Calm(k)
  <2>1. handle[h].open => Calm(h)
    BY <1>3 DEF Calm
  <2> QED
    BY <1>4, <2>1, CalmHandles
<1>7. /\ thread' \in [Threads -> ThreadRec]
      /\ \A u \in Threads \ {t} : thread'[u] = thread[u]
      /\ Placed(t)' /\ FlushOK(t)' /\ UnmountOK(t)'
  <2>1. CASE Return(t)
    BY <2>1, ThreadDone
  <2>2. CASE thread[t].call # "close" /\ Goto(t, "remove")
    <3> DEFINE r == [thread[t] EXCEPT !.step = "remove"]
    <3>1. thread[t] \in UnmountRec
      <4>1. thread[t] \in FlushRec => thread[t].call = "flush"
        BY <2>2, CallFacts
      <4>2. thread[t] \in FlushRec => FALSE
        BY <1>1, <4>1 DEF DokanInv, Typed, Placed
      <4> QED
        BY <1>2, <4>2
    <3>2. /\ r \in UnmountRec /\ r.step = "remove" /\ r.on = h /\ r.call = "unmount"
          /\ r.closing = thread[t].closing /\ r.failed = thread[t].failed
          /\ r.todo = thread[t].todo /\ r.late = thread[t].late
      BY <3>1 DEF UnmountRec
    <3>3. thread' = [thread EXCEPT ![t] = r]
      BY <2>2 DEF Goto
    <3> HIDE DEF r
    <3>4. /\ thread' \in [Threads -> ThreadRec] /\ thread'[t] = r
          /\ \A u \in Threads \ {t} : thread'[u] = thread[u]
      BY <3>2, <3>3 DEF ThreadRec, DokanInv, Typed
    <3>5. Closes(t) /\ UnmountOK(t)
      BY <3>1, CallFacts DEF Closes, DokanInv
    <3>6. \A k \in Handles : handle'[k].open /\ handle'[k].dirty => handle[k].open /\ handle[k].dirty
      BY <1>6 DEF Calm
    <3>7. UnmountOK(t)'
      BY <1>1, <3>2, <3>4, <3>5, <3>6 DEF UnmountOK, At
    <3>8. Placed(t)' /\ FlushOK(t)'
      BY <1>2, <3>2, <3>4 DEF Placed, FlushOK, At, InFlush
    <3> QED
      BY <3>4, <3>7, <3>8
  <2> QED
    BY <2>1, <2>2 DEF CloseEmpty
<1>8. "settled" \notin thrown'
  BY <1>1, <1>2, OnlyRacedAreDropped DEF CloseEmpty
<1> QED
  BY <1>1, <1>5, <1>6, <1>7, <1>8, OthersKeep DEF DokanInv, Typed

-----------------------------------------------------------------------------
(***************************************************************************)
(* DeleteFile, MoveFile and CanDeleteFile.                                 *)
(***************************************************************************)
\* Both find the file before they touch it.
LEMMA NameStep == ASSUME NEW t \in Threads PROVE DokanInv /\ Name(t) => DokanInv'
<1> SUFFICES ASSUME DokanInv, Name(t) PROVE DokanInv'
  OBVIOUS
<1>1. At(t, "name") /\ UNCHANGED <<file, handle, thrown>>
  BY DEF Name
<1>2. thread[t] \in DeleteRec \cup MoveRec
  BY <1>1, ThreadFacts DEF At, DokanInv, Typed
<1>3. CASE Return(t)
  BY <1>1, <1>3, OnlyReturns
<1>4. ASSUME NEW f \in GetFileUuid(t),
             thread' = [thread EXCEPT ![t].step = thread[t].call, ![t].uuid = f, ![t].from = None]
      PROVE  DokanInv'
  <2> DEFINE r == [thread[t] EXCEPT !.step = thread[t].call, !.uuid = f, !.from = None]
  <2>1. f \in Files
    <3>1. thread[t].on \in Handles
      BY <1>2 DEF DeleteRec, MoveRec
    <3>2. handle[thread[t].on].open => handle[thread[t].on].uuid \in Files \cup {None}
      BY <3>1, HandleFacts DEF DokanInv, Typed, HandleRec
    <3> QED
      BY <3>2 DEF GetFileUuid, ListedAt
  <2>2. r \in DeleteRec \cup MoveRec /\ r.uuid = f
    BY <1>2, <2>1 DEF DeleteRec, MoveRec
  <2>3. thread' = [thread EXCEPT ![t] = r]
    BY <1>4
  <2>4. \A k \in Handles : Calm(k)
    BY <1>1, CalmHandles
  <2> HIDE DEF r
  <2> QED
    BY <1>1, <2>1, <2>2, <2>3, <2>4, OnlyMovesOn DEF DokanInv, Typed
<1> QED
  BY <1>3, <1>4 DEF Name

\* A thread of one of these callbacks that takes its next step.
LEMMA GotoStep ==
  ASSUME NEW t \in Threads, DokanInv, NEW s \in {"drop", "follow", "ask", "release"}, Goto(t, s),
         thread[t] \in DeleteRec \cup MoveRec \cup CanDeleteRec \cup WipeRec,
         thread[t] \in DeleteRec => s = "drop",
         thread[t] \in MoveRec => s = "follow",
         thread[t] \in CanDeleteRec => s = "ask",
         thread[t] \in WipeRec => s = "release",
         file' \in [Files -> {Absent} \cup FileRec],
         UNCHANGED <<handle, thrown>>
  PROVE  DokanInv'
<1> DEFINE r == [thread[t] EXCEPT !.step = s]
<1>1. r \in DeleteRec \cup MoveRec \cup CanDeleteRec \cup WipeRec /\ r.step # "move"
  BY DEF DeleteRec, MoveRec, CanDeleteRec, WipeRec
<1>2. thread' = [thread EXCEPT ![t] = r]
  BY DEF Goto
<1>3. \A k \in Handles : Calm(k)
  BY CalmHandles
<1> HIDE DEF r
<1> QED
  BY <1>1, <1>2, <1>3, OnlyMovesOn DEF DokanInv, Typed

\* A callback that ends with its handles calm.
LEMMA ReturnStep ==
  ASSUME NEW t \in Threads, DokanInv, Return(t),
         file' \in [Files -> {Absent} \cup FileRec],
         handle' \in [Handles -> {Unused, Closed} \cup HandleRec],
         \A h \in Handles : Calm(h),
         UNCHANGED thrown
  PROVE  DokanInv'
  BY ThreadDone, OthersKeep DEF DokanInv

\* The file is deleted.
LEMMA DeleteRemoveStep == ASSUME NEW t \in Threads
                          PROVE  DokanInv /\ DeleteRemove(t) => DokanInv'
<1> SUFFICES ASSUME DokanInv, DeleteRemove(t) PROVE DokanInv'
  OBVIOUS
<1>1. UNCHANGED <<handle, thrown>> /\ thread[t] \in DeleteRec
  BY ThreadFacts DEF DeleteRemove, At, DokanInv, Typed
<1>2. CASE Remove(thread[t].uuid) /\ Goto(t, "drop")
  <2>1. file' \in [Files -> {Absent} \cup FileRec]
    BY <1>2 DEF Remove, DokanInv, Typed
  <2>2. thread[t] \notin MoveRec \cup CanDeleteRec \cup WipeRec
    BY <1>1 DEF DeleteRec, MoveRec, CanDeleteRec, WipeRec
  <2> QED
    BY <1>1, <1>2, <2>1, <2>2, GotoStep
<1>3. CASE Return(t) /\ UNCHANGED file
  BY <1>1, <1>3, OnlyReturns
<1> QED
  BY <1>2, <1>3 DEF DeleteRemove

\* Its handle goes.
LEMMA DeleteDropStep == ASSUME NEW t \in Threads
                        PROVE  DokanInv /\ DeleteDrop(t) => DokanInv'
<1> SUFFICES ASSUME DokanInv, DeleteDrop(t) PROVE DokanInv'
  OBVIOUS
<1>1. UNCHANGED <<file, thrown>> /\ Return(t)
  BY DEF DeleteDrop
<1>2. /\ handle' \in [Handles -> {Unused, Closed} \cup HandleRec]
      /\ \A k \in Handles : handle'[k] \in {handle[k], Closed}
  BY DEF DeleteDrop, DokanInv, Typed
<1>3. \A k \in Handles : Calm(k)
  BY <1>2, CalmHandles
<1> QED
  BY <1>1, <1>2, <1>3, ReturnStep DEF DokanInv, Typed

\* A rename, which deletes what it replaces first.
LEMMA MoveRenameStep == ASSUME NEW t \in Threads
                        PROVE  DokanInv /\ MoveRename(t) => DokanInv'
<1> SUFFICES ASSUME DokanInv, MoveRename(t) PROVE DokanInv'
  OBVIOUS
<1> DEFINE f == thread[t].uuid
           q == thread[t].to
<1>1. /\ UNCHANGED <<handle, thrown>> /\ thread[t] \in MoveRec /\ f \in Files /\ q \in Paths
      /\ At(t, "move")
  BY ThreadFacts DEF MoveRename, At, DokanInv, Typed, Placed, MoveRec
<1>2. CASE Return(t) /\ UNCHANGED file
  BY <1>1, <1>2, OnlyReturns
<1>3. ASSUME NEW g,
             LET rest == [k \in Files |-> IF k = g THEN Absent ELSE file[k]] IN
             IF rest[f] # Absent
             THEN file' = [rest EXCEPT ![f].path = q] /\ Goto(t, "follow")
             ELSE file' = rest /\ Return(t)
      PROVE  DokanInv'
  <2> DEFINE rest == [k \in Files |-> IF k = g THEN Absent ELSE file[k]]
  <2>1. rest \in [Files -> {Absent} \cup FileRec]
    BY DEF DokanInv, Typed
  <2> HIDE DEF rest
  <2>2. CASE rest[f] # Absent /\ file' = [rest EXCEPT ![f].path = q] /\ Goto(t, "follow")
    <3>1. rest[f] \in FileRec
      BY <1>1, <2>1, <2>2
    <3>2. [rest[f] EXCEPT !.path = q] \in FileRec
      BY <1>1, <3>1 DEF FileRec
    <3>3. file' \in [Files -> {Absent} \cup FileRec]
      BY <1>1, <2>1, <2>2, <3>2
    <3>4. thread[t] \notin DeleteRec \cup CanDeleteRec \cup WipeRec
      BY <1>1 DEF DeleteRec, MoveRec, CanDeleteRec, WipeRec
    <3> QED
      BY <1>1, <2>2, <3>3, <3>4, GotoStep
  <2>3. CASE file' = rest /\ Return(t)
    <3>1. \A k \in Handles : Calm(k)
      BY <1>1, CalmHandles
    <3> QED
      BY <1>1, <2>1, <2>3, <3>1, ReturnStep DEF DokanInv, Typed
  <2> QED
    BY <1>3, <2>2, <2>3 DEF rest
<1> QED
  BY <1>2, <1>3 DEF MoveRename

\* The handle follows its file.
LEMMA MoveFollowStep == ASSUME NEW t \in Threads
                        PROVE  DokanInv /\ MoveFollow(t) => DokanInv'
<1> SUFFICES ASSUME DokanInv, MoveFollow(t) PROVE DokanInv'
  OBVIOUS
<1> DEFINE h == thread[t].on
           new == [handle[h] EXCEPT !.path = thread[t].to]
<1>1. UNCHANGED <<file, thrown>> /\ Return(t) /\ At(t, "follow")
  BY DEF MoveFollow
<1>2. thread[t] \in MoveRec /\ h \in Handles /\ thread[t].to \in Paths
  BY <1>1, ThreadFacts DEF At, DokanInv, Typed, MoveRec
<1>3. CASE handle[h].open
  <2>1. handle[h] \in HandleRec
    BY <1>2, <1>3, HandleFacts DEF DokanInv, Typed
  <2>2. /\ new \in HandleRec /\ new.buffer = handle[h].buffer /\ new.saved = handle[h].saved
        /\ new.dirty = handle[h].dirty /\ new.raced = handle[h].raced
    BY <1>2, <2>1 DEF HandleRec
  <2>3. /\ handle'[h] = new /\ \A k \in Handles \ {h} : handle'[k] = handle[k]
        /\ DOMAIN handle' = Handles
    BY <1>2, <1>3 DEF MoveFollow, DokanInv, Typed
  <2> HIDE DEF new
  <2>4. handle' \in [Handles -> {Unused, Closed} \cup HandleRec]
    BY <1>3, <2>2, <2>3 DEF MoveFollow, DokanInv, Typed
  <2>5. Calm(h)
    BY <1>2, <1>3, <2>2, <2>3 DEF Calm, DokanInv, Typed, CleanIsSaved
  <2>6. \A k \in Handles : Calm(k)
    BY <2>3, <2>5, CalmHandles
  <2> QED
    BY <1>1, <2>4, <2>6, ReturnStep DEF DokanInv, Typed
<1>4. CASE ~handle[h].open
  <2>1. handle' = handle
    BY <1>4 DEF MoveFollow
  <2> QED
    BY <1>1, <2>1, OnlyReturns
<1> QED
  BY <1>3, <1>4

\* can_delete_file only looks.
LEMMA CanDeleteStep == ASSUME NEW t \in Threads
                       PROVE  DokanInv /\ (CanDeleteHold(t) \/ CanDeleteAsk(t)) => DokanInv'
<1>1. ASSUME DokanInv, CanDeleteHold(t) PROVE DokanInv'
  <2>1. UNCHANGED <<file, handle, thrown>> /\ thread[t] \in CanDeleteRec
    BY <1>1, ThreadFacts DEF CanDeleteHold, At, DokanInv, Typed
  <2>2. thread[t] \notin DeleteRec \cup MoveRec \cup WipeRec
    BY <2>1 DEF DeleteRec, MoveRec, CanDeleteRec, WipeRec
  <2>3. CASE Goto(t, "ask")
    BY <1>1, <2>1, <2>2, <2>3, GotoStep DEF DokanInv, Typed
  <2>4. CASE Return(t)
    BY <1>1, <2>1, <2>4, OnlyReturns
  <2> QED
    BY <1>1, <2>3, <2>4 DEF CanDeleteHold
<1>2. ASSUME DokanInv, CanDeleteAsk(t) PROVE DokanInv'
  BY <1>2, OnlyReturns DEF CanDeleteAsk
<1> QED
  BY <1>1, <1>2

-----------------------------------------------------------------------------
(***************************************************************************)
(* Unmounting.                                                             *)
(***************************************************************************)
\* The next handle, the step from flushing to closing, and the end.
LEMMA UnmountNextStep == ASSUME NEW t \in Threads
                         PROVE  DokanInv /\ UnmountNext(t) => DokanInv'
<1> SUFFICES ASSUME DokanInv, UnmountNext(t) PROVE DokanInv'
  OBVIOUS
<1> DEFINE todo == thread[t].todo
<1>1. At(t, "next") /\ UNCHANGED <<file, handle, thrown>>
  BY DEF UnmountNext
<1>2. thread[t] \in UnmountRec /\ todo \in SUBSET Handles
  BY <1>1, ThreadFacts DEF At, DokanInv, Typed, UnmountRec
<1>3. Closes(t) /\ UnmountOK(t) /\ thread[t].step = "next"
  BY <1>1, <1>2, CallFacts DEF Closes, DokanInv, At
<1>4. \A k \in Handles : Calm(k)
  BY <1>1, CalmHandles
<1>5. ASSUME NEW r \in UnmountRec, thread' = [thread EXCEPT ![t] = r],
             r.step \in {"next", "copy", "force"}, r.step = "copy" => r.on \in Handles,
             UnmountOK(t)'
      PROVE  DokanInv'
  <2>1. /\ thread' \in [Threads -> ThreadRec] /\ thread'[t] = r
        /\ \A u \in Threads \ {t} : thread'[u] = thread[u]
    BY <1>5 DEF ThreadRec, DokanInv, Typed
  <2>2. Placed(t)' /\ FlushOK(t)'
    BY <1>5, <2>1 DEF Placed, FlushOK, At, InFlush
  <2> QED
    BY <1>1, <1>4, <1>5, <2>1, <2>2, OthersKeep DEF DokanInv, Typed
<1>6. ASSUME NEW h \in todo,
             thread' = [thread EXCEPT ![t].step = "copy", ![t].on = h, ![t].todo = todo \ {h}]
      PROVE  DokanInv'
  <2> DEFINE r == [thread[t] EXCEPT !.step = "copy", !.on = h, !.todo = todo \ {h}]
  <2>1. /\ r \in UnmountRec /\ r.step = "copy" /\ r.on = h /\ r.todo = todo \ {h}
        /\ r.closing = thread[t].closing /\ r.failed = thread[t].failed
        /\ r.late = thread[t].late
    BY <1>2 DEF UnmountRec
  <2>2. thread' = [thread EXCEPT ![t] = r] /\ thread'[t] = r
    BY <1>6 DEF DokanInv, Typed
  <2> HIDE DEF r
  <2>3. UnmountOK(t)'
    BY <1>1, <1>3, <2>1, <2>2 DEF UnmountOK
  <2> QED
    BY <1>2, <1>5, <2>1, <2>2, <2>3
<1>7. CASE /\ todo = {} /\ ~thread[t].closing /\ ~thread[t].failed
           /\ thread' = [thread EXCEPT ![t].closing = TRUE, ![t].todo = OpenHandles]
  <2> DEFINE r == [thread[t] EXCEPT !.closing = TRUE, !.todo = OpenHandles]
  <2>1. r \in UnmountRec /\ r.step = "next" /\ r.closing /\ r.late = thread[t].late
    BY <1>2, <1>3 DEF UnmountRec, OpenHandles
  <2>2. thread' = [thread EXCEPT ![t] = r] /\ thread'[t] = r
    BY <1>7 DEF DokanInv, Typed
  <2> HIDE DEF r
  <2>3. \A h \in Handles : handle[h].open /\ handle[h].dirty => h \in thread[t].late
    BY <1>3, <1>7 DEF UnmountOK
  <2>4. UnmountOK(t)'
    BY <1>1, <2>1, <2>2, <2>3 DEF UnmountOK
  <2> QED
    BY <1>5, <2>1, <2>2, <2>4
<1>8. CASE Return(t)
  BY <1>1, <1>8, OnlyReturns
<1>9. CASE thread' = [thread EXCEPT ![t] = [call |-> "unmount", step |-> "wipe"]]
  <2> DEFINE r == [call |-> "unmount", step |-> "wipe"]
  <2>1. r \in WipeRec /\ r.step # "move"
    BY DEF WipeRec
  <2> HIDE DEF r
  <2>2. thread' = [thread EXCEPT ![t] = r]
    BY <1>9 DEF r
  <2> QED
    BY <1>1, <1>4, <2>1, <2>2, OnlyMovesOn DEF DokanInv, Typed
<1>10. CASE /\ thread[t].closing
            /\ thread' = [thread EXCEPT ![t] = [@ EXCEPT !.step = "force"]]
  <2> DEFINE r == [thread[t] EXCEPT !.step = "force"]
  <2>1. /\ r \in UnmountRec /\ r.step = "force" /\ r.closing = thread[t].closing
        /\ r.late = thread[t].late
    BY <1>2 DEF UnmountRec
  <2>2. thread' = [thread EXCEPT ![t] = r] /\ thread'[t] = r
    BY <1>10 DEF DokanInv, Typed
  <2> HIDE DEF r
  <2>3. UnmountOK(t)'
    BY <1>1, <1>3, <1>10, <2>1, <2>2 DEF UnmountOK
  <2> QED
    BY <1>5, <2>1, <2>2, <2>3
<1> QED
  BY <1>6, <1>7, <1>8, <1>9, <1>10 DEF UnmountNext

\* A handle is closed, flushed or not.
LEMMA UnmountRemoveStep == ASSUME NEW t \in Threads
                           PROVE  DokanInv /\ UnmountRemove(t) => DokanInv'
<1> SUFFICES ASSUME DokanInv, UnmountRemove(t) PROVE DokanInv'
  OBVIOUS
<1> DEFINE h == thread[t].on
           r == [thread[t] EXCEPT !.step = "next"]
<1>1. At(t, "remove") /\ UNCHANGED file
  BY DEF UnmountRemove
<1>2. thread[t] \in UnmountRec /\ h \in Handles
  BY <1>1, ThreadFacts DEF At, DokanInv, Typed, Placed
<1>3. Closes(t) /\ UnmountOK(t)
  BY <1>2, CallFacts DEF Closes, DokanInv
<1>4. "settled" \notin thrown'
  BY <1>1, <1>2, OnlyRacedAreDropped DEF UnmountRemove
<1>5. /\ handle' \in [Handles -> {Unused, Closed} \cup HandleRec]
      /\ \A k \in Handles : handle'[k] \in {handle[k], Closed}
  BY DEF UnmountRemove, DokanInv, Typed
<1>6. \A k \in Handles : Calm(k)
  BY <1>5, CalmHandles
<1>7. /\ r \in UnmountRec /\ r.step = "next" /\ r.closing = thread[t].closing
      /\ r.late = thread[t].late
  BY <1>2 DEF UnmountRec
<1>8. thread' = [thread EXCEPT ![t] = r]
  BY DEF UnmountRemove, Goto
<1> HIDE DEF r
<1>9. /\ thread' \in [Threads -> ThreadRec] /\ thread'[t] = r
      /\ \A u \in Threads \ {t} : thread'[u] = thread[u]
  BY <1>7, <1>8 DEF ThreadRec, DokanInv, Typed
<1>10. Placed(t)' /\ FlushOK(t)'
  BY <1>7, <1>9 DEF Placed, FlushOK, At, InFlush
<1>11. UnmountOK(t)'
  BY <1>1, <1>3, <1>5, <1>7, <1>9, HandleFacts DEF UnmountOK, At
<1> QED
  BY <1>1, <1>4, <1>5, <1>6, <1>9, <1>10, <1>11, OthersKeep DEF DokanInv, Typed

\* What is still open is closed.
LEMMA ForceCloseStep == ASSUME NEW t \in Threads
                        PROVE  DokanInv /\ ForceClose(t) => DokanInv'
<1> SUFFICES ASSUME DokanInv, ForceClose(t) PROVE DokanInv'
  OBVIOUS
<1> DEFINE r == [call |-> "unmount", step |-> "wipe"]
<1>1. At(t, "force") /\ UNCHANGED file /\ thread' = [thread EXCEPT ![t] = r]
  BY DEF ForceClose
<1>2. "settled" \notin thrown'
  BY <1>1, OnlyRacedAreDropped DEF ForceClose
<1>3. /\ handle' \in [Handles -> {Unused, Closed} \cup HandleRec]
      /\ \A k \in Handles : handle'[k] \in {handle[k], Closed}
  BY DEF ForceClose, DokanInv, Typed
<1>4. \A k \in Handles : Calm(k)
  BY <1>3, CalmHandles
<1>5. r \in WipeRec /\ r.step # "move"
  BY DEF WipeRec
<1> HIDE DEF r
<1> QED
  BY <1>1, <1>2, <1>3, <1>4, <1>5, OnlyMovesOn DEF DokanInv, Typed

\* The keys are wiped, and the drive letter is given back.
LEMMA LastSteps == ASSUME NEW t \in Threads
                   PROVE  DokanInv /\ (WipeKeys(t) \/ ReleaseLetter(t)) => DokanInv'
<1>1. ASSUME DokanInv, WipeKeys(t) PROVE DokanInv'
  <2>1. UNCHANGED <<file, handle, thrown>> /\ thread[t] \in WipeRec /\ Goto(t, "release")
    BY <1>1, ThreadFacts DEF WipeKeys, At, DokanInv, Typed
  <2>2. thread[t] \notin DeleteRec \cup MoveRec \cup CanDeleteRec
    BY <2>1 DEF DeleteRec, MoveRec, CanDeleteRec, WipeRec
  <2> QED
    BY <1>1, <2>1, <2>2, GotoStep DEF DokanInv, Typed
<1>2. ASSUME DokanInv, ReleaseLetter(t) PROVE DokanInv'
  BY <1>2, OnlyReturns DEF ReleaseLetter
<1> QED
  BY <1>1, <1>2

-----------------------------------------------------------------------------
(***************************************************************************)
(* The theorems.                                                           *)
(***************************************************************************)
\* Every step of a thread keeps the invariant.
LEMMA ThreadStep == ASSUME NEW t \in Threads PROVE DokanInv /\ Step(t) => DokanInv'
<1> SUFFICES ASSUME DokanInv, Step(t) PROVE DokanInv'
  OBVIOUS
<1>1. WriteCheck(t) \/ WriteBuffer(t) \/ WriteLoad(t) \/ WriteStore(t) => DokanInv'
  BY WriteCheckStep, WriteBufferStep, WriteLoadStep, WriteStoreStep
<1>2. FlushCopy(t) \/ FlushCommit(t) \/ FlushMark(t) \/ CloseEmpty(t) => DokanInv'
  BY FlushCopyStep, FlushCommitStep, FlushMarkStep, CloseEmptyStep
<1>3. Name(t) \/ DeleteRemove(t) \/ DeleteDrop(t) \/ MoveRename(t) \/ MoveFollow(t) => DokanInv'
  BY NameStep, DeleteRemoveStep, DeleteDropStep, MoveRenameStep, MoveFollowStep
<1>4. CanDeleteHold(t) \/ CanDeleteAsk(t) => DokanInv'
  BY CanDeleteStep
<1>5. UnmountNext(t) \/ UnmountRemove(t) \/ ForceClose(t) => DokanInv'
  BY UnmountNextStep, UnmountRemoveStep, ForceCloseStep
<1>6. WipeKeys(t) \/ ReleaseLetter(t) => DokanInv'
  BY LastSteps
<1> QED
  BY <1>1, <1>2, <1>3, <1>4, <1>5, <1>6 DEF Step

\* So does every step of the file system.
LEMMA DokanStep == DokanInv /\ [Next]_vars => DokanInv'
<1> SUFFICES ASSUME DokanInv, [Next]_vars PROVE DokanInv'
  OBVIOUS
<1>1. ASSUME NEW h \in Handles, Cleanup(h) PROVE DokanInv'
  BY <1>1, CleanupStep
<1>2. ASSUME NEW h \in Handles, NEW p \in Paths, CreateFile(p, h) PROVE DokanInv'
  BY <1>2, CreateFileStep
<1>3. ASSUME NEW t \in Threads, Step(t) PROVE DokanInv'
  BY <1>3, ThreadStep
<1>4. ASSUME NEW t \in Threads, BeginUnmount(t) PROVE DokanInv'
  BY <1>4, BeginUnmountStep
<1>5. ASSUME NEW t \in Threads, NEW h \in Handles, BeginCall(t, h) PROVE DokanInv'
  BY <1>5, BeginCallStep
<1>6. CASE UNCHANGED vars
  <2>1. UNCHANGED <<file, handle, thread, thrown>>
    BY <1>6 DEF vars
  <2>2. \A h \in Handles : Calm(h)
    BY <2>1, CalmHandles
  <2> QED
    BY <2>1, <2>2, OthersKeep DEF DokanInv, Typed
<1> QED
  BY <1>1, <1>2, <1>3, <1>4, <1>5, <1>6 DEF Next

\* The invariant holds in every reachable state; the fairness of Spec plays no part.
LEMMA DokanAlways == Spec => []DokanInv
  BY DokanInit, DokanStep, PTL DEF Spec

\* A handle that counts as clean has nothing that is not in the vault, unless a write
\* was stored while a flush of it was committing: flushes of two threads, commits
\* that fail and calls on other handles make none forget its writes.
THEOREM CleanHandlesAreSaved == Spec => []CleanIsSaved
<1>1. DokanInv => CleanIsSaved
  BY DEF DokanInv
<1> QED
  BY <1>1, DokanAlways, PTL

\* unmount drops nothing from the buffer of a handle last written before it began that is
\* not in the vault, whatever fails and whatever other threads do, but for a
\* write stored while a flush of the handle was committing.
THEOREM UnmountLosesNothing == Spec => []UnmountKeepsWrites
<1>1. DokanInv => UnmountKeepsWrites
  BY DEF DokanInv, UnmountKeepsWrites
<1> QED
  BY <1>1, DokanAlways, PTL

-----------------------------------------------------------------------------
(***************************************************************************)
(* The vault below.  The session's lock is kept for a delete and the       *)
(* import or rename after it, which is one step here and two of the        *)
(* catalogue.                                                              *)
(***************************************************************************)
\* One step of the catalogue, or none.
CatalogStep(before, after) ==
  \/ after = before
  \/ \E f \in Files :
       \/ before[f] # Absent /\ after = [before EXCEPT ![f] = Absent]
       \/ \E e \in FileRec :
            before[f] \in FileRec \cup {Absent} /\ after = [before EXCEPT ![f] = e]

CatalogSteps ==
  \E between \in [Files -> {Absent} \cup FileRec] :
    CatalogStep(file, between) /\ CatalogStep(between, file')

\* What is meant by it: with the actions of FileCatalog.
LEMMA CatalogStepIs == file \in [Files -> {Absent} \cup FileRec] =>
                         (CatalogStep(file, file') <=> [CatalogNext]_file)
<1> SUFFICES ASSUME file \in [Files -> {Absent} \cup FileRec]
             PROVE  CatalogStep(file, file') <=> [CatalogNext]_file
  OBVIOUS
<1>1. ASSUME NEW f \in Files
      PROVE  Remove(f) <=> file[f] # Absent /\ file' = [file EXCEPT ![f] = Absent]
  BY DEF Remove
<1>2. ASSUME NEW f \in Files, NEW e \in FileRec
      PROVE  Add(f, e) \/ Alter(f, e)
               <=> file[f] \in FileRec \cup {Absent} /\ file' = [file EXCEPT ![f] = e]
  BY DEF Add, Alter
<1> QED
  BY <1>1, <1>2 DEF CatalogStep, CatalogNext

\* A file removed, if it was there.
LEMMA Removal ==
  ASSUME file \in [Files -> {Absent} \cup FileRec], NEW g
  PROVE  LET rest == [k \in Files |-> IF k = g THEN Absent ELSE file[k]] IN
         rest \in [Files -> {Absent} \cup FileRec] /\ CatalogStep(file, rest)
<1> DEFINE rest == [k \in Files |-> IF k = g THEN Absent ELSE file[k]]
<1>1. rest \in [Files -> {Absent} \cup FileRec]
  OBVIOUS
<1>2. CASE g \in Files /\ file[g] # Absent
  <2>1. rest = [file EXCEPT ![g] = Absent]
    BY <1>2
  <2> HIDE DEF rest
  <2> QED
    BY <1>2, <2>1 DEF CatalogStep
<1>3. CASE ~(g \in Files /\ file[g] # Absent)
  <2>1. rest = file
    BY <1>3
  <2> QED
    BY <2>1 DEF CatalogStep
<1> QED
  BY <1>1, <1>2, <1>3

\* The three steps that change the vault.
LEMMA DokanInCatalog == DokanInv /\ [Next]_vars => [CatalogSteps]_file
<1> SUFFICES ASSUME DokanInv, [Next]_vars, file' # file PROVE CatalogSteps
  OBVIOUS
<1>1. /\ file \in [Files -> {Absent} \cup FileRec]
      /\ thread \in [Threads -> ThreadRec]
      /\ \A t \in Threads : Placed(t)
  BY DEF DokanInv, Typed
<1>2. \A after : CatalogStep(after, after)
  BY DEF CatalogStep
<1>3. ASSUME NEW f, Remove(f) PROVE CatalogSteps
  <2>1. f \in Files
    <3>1. f \notin Files => file' = file
      BY <1>1, <1>3 DEF Remove
    <3> QED
      BY <3>1
  <2>2. CatalogStep(file, file')
    BY <1>3, <2>1 DEF Remove, CatalogStep
  <2> QED
    BY <1>1, <1>2, <2>2 DEF CatalogSteps
<1>4. ASSUME NEW t \in Threads, FlushCommit(t) PROVE CatalogSteps
  <2> DEFINE f == thread[t].uuid
             rest == [k \in Files |-> IF k = f THEN Absent ELSE file[k]]
  <2>1. CASE active /\ f # None /\ Remove(f)
    BY <1>3, <2>1
  <2>2. CASE \E g \in Files \ drawn :
               file' = [k \in Files |->
                          IF k = g THEN [path |-> thread[t].from, data |-> thread[t].data]
                          ELSE IF k = f THEN Absent ELSE file[k]]
    <3> DEFINE e == [path |-> thread[t].from, data |-> thread[t].data]
    <3>1. PICK g \in Files : file' = [k \in Files |-> IF k = g THEN e ELSE IF k = f THEN Absent ELSE file[k]]
      BY <2>2
    <3>2. e \in FileRec
      <4>1. At(t, "commit")
        BY <1>4 DEF FlushCommit
      <4>2. thread[t] \in FlushRec \cup UnmountRec /\ thread[t].from \in Paths
        BY <1>1, <4>1, ThreadFacts DEF At, Placed
      <4>3. thread[t].data \in SUBSET Writes
        BY <4>2 DEF FlushRec, UnmountRec
      <4> QED
        BY <4>2, <4>3 DEF FileRec
    <3>3. rest \in [Files -> {Absent} \cup FileRec] /\ CatalogStep(file, rest)
      BY <1>1, Removal
    <3> HIDE DEF e
    <3>4. file' = [rest EXCEPT ![g] = e]
      BY <3>1
    <3> HIDE DEF rest
    <3>5. CatalogStep(rest, file')
      BY <3>2, <3>3, <3>4 DEF CatalogStep
    <3> QED
      BY <3>3, <3>5 DEF CatalogSteps
  <2> QED
    BY <1>4, <2>1, <2>2 DEF FlushCommit
<1>5. ASSUME NEW t \in Threads, DeleteRemove(t) PROVE CatalogSteps
  <2>1. Remove(thread[t].uuid)
    BY <1>5 DEF DeleteRemove
  <2> QED
    BY <1>3, <2>1
<1>6. ASSUME NEW t \in Threads, MoveRename(t) PROVE CatalogSteps
  <2> DEFINE f == thread[t].uuid
             q == thread[t].to
             rest(g) == [k \in Files |-> IF k = g THEN Absent ELSE file[k]]
  <2>1. f \in Files /\ q \in Paths
    BY <1>1, <1>6, ThreadFacts DEF MoveRename, At, Placed, MoveRec
  <2>2. PICK g : \/ rest(g)[f] # Absent /\ file' = [rest(g) EXCEPT ![f].path = q]
                 \/ rest(g)[f] = Absent /\ file' = rest(g)
    <3>1. CASE active
      BY <1>6, <3>1 DEF MoveRename
    <3>2. CASE ~active
      BY <1>6, <3>2 DEF MoveRename
    <3> QED
      BY <3>1, <3>2
  <2>3. rest(g) \in [Files -> {Absent} \cup FileRec] /\ CatalogStep(file, rest(g))
    BY <1>1, Removal
  <2> DEFINE r == rest(g)
  <2> HIDE DEF rest
  <2>4. CASE r[f] # Absent
    <3>1. r[f] \in FileRec
      BY <2>1, <2>3, <2>4
    <3>2. [r[f] EXCEPT !.path = q] \in FileRec
      BY <2>1, <3>1 DEF FileRec
    <3>3. file' = [r EXCEPT ![f] = [r[f] EXCEPT !.path = q]]
      BY <2>2, <2>4
    <3>4. CatalogStep(r, file')
      BY <2>1, <3>1, <3>2, <3>3 DEF CatalogStep
    <3> QED
      BY <2>3, <3>4 DEF CatalogSteps
  <2>5. CASE r[f] = Absent
    BY <1>2, <2>2, <2>3, <2>5 DEF CatalogSteps
  <2> QED
    BY <2>4, <2>5
<1>7. \E t \in Threads : FlushCommit(t) \/ DeleteRemove(t) \/ MoveRename(t)
  <2>1. ASSUME NEW h \in Handles, NEW p \in Paths, Cleanup(h) \/ CreateFile(p, h)
        PROVE  UNCHANGED file
    BY <2>1 DEF Cleanup, CreateFile
  <2>2. ASSUME NEW t \in Threads, BeginUnmount(t) \/ \E h \in Handles : BeginCall(t, h)
        PROVE  UNCHANGED file
    BY <2>2 DEF BeginUnmount, BeginCall, Begin
  <2>3. ASSUME NEW t \in Threads, Step(t)
        PROVE  UNCHANGED file \/ FlushCommit(t) \/ DeleteRemove(t) \/ MoveRename(t)
    BY <2>3 DEF Step, WriteCheck, WriteBuffer, WriteLoad, WriteStore, FlushCopy, FlushMark,
                CloseEmpty, Name, DeleteDrop, MoveFollow, CanDeleteHold, CanDeleteAsk,
                UnmountNext, UnmountRemove, ForceClose, WipeKeys, ReleaseLetter
  <2> QED
    BY <2>1, <2>2, <2>3, PathAssumption DEF Next, vars
<1> QED
  BY <1>4, <1>5, <1>6, <1>7

\* What the file system does to the files of a vault is what files.rs can do: a deletion,
\* and then at most one import or rename, whichever threads run and whatever
\* fails between the locks.
THEOREM DokanUsesTheCatalog == Spec => [][CatalogSteps]_file
<1> QED
  BY DokanAlways, DokanInCatalog, PTL DEF Spec
=============================================================================

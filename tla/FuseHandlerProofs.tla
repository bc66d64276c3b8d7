-------------------------- MODULE FuseHandlerProofs --------------------------
(***************************************************************************)
(* Proofs about the FUSE file system, for every number of files, paths and *)
(* open handles, and contents of any length: a path never leads to another *)
(* file, what was reported as saved stays, and no commit overwrites what   *)
(* its buffer has not seen.                                                *)
(***************************************************************************)
EXTENDS FuseHandler, SequenceTheorems, TLAPS

HandleRec ==
  [open : {TRUE}, path : Paths, uuid : Files \cup {None}, data : Data, modified : BOOLEAN,
   isNew : BOOLEAN, blind : BOOLEAN, touched : SUBSET Positions]

JobRec == [on : Handles, by : {"fsync", "release"}, step : {"delete", "import"}]

\* Every uuid that the vault, the table or a handle has was drawn.
Typed ==
  /\ file \in [Files -> {Absent} \cup FileRec \cup Broken]
  /\ drawn \in SUBSET Files
  /\ inode \in [Paths -> drawn \cup {Absent, None}]
  /\ handle \in [Handles -> {Closed} \cup HandleRec]
  /\ job \in {NoJob} \cup JobRec
  /\ saved \in [Paths -> Data \cup {None}]
  /\ \A f \in Files : file[f] # Absent => f \in drawn
  /\ \A h \in Handles : handle[h].open => handle[h].uuid \in drawn \cup {None}
  /\ job # NoJob => /\ handle[job.on].open
                    /\ job.step = "delete" => handle[job.on].uuid \in drawn

\* The file that holds what was saved at a path is open for writing at no other path,
\* so that no commit brings it back elsewhere.
Holds(f, p) ==
  /\ file[f] = [path |-> p, data |-> saved[p]]
  /\ \A h \in Handles : handle[h].open /\ handle[h].uuid = f => handle[h].path = p

SavedInv ==
  \A p \in Paths : saved[p] # None /\ ~(job.step = "import" /\ handle[job.on].path = p) =>
    \E f \in Files : Holds(f, p)

FuseInv == Typed /\ PathNamesItsFile /\ SavedInv /\ NoLostUpdate

-----------------------------------------------------------------------------
(***************************************************************************)
(* Contents, files and records.                                            *)
(***************************************************************************)
\* A content of at most MaxLength blocks.
LEMMA DataFacts ==
  /\ 0 \in Nat /\ MaxLength \in Nat
  /\ \A d \in Data : Len(d) \in 0..MaxLength /\ d \in [1..Len(d) -> Blocks \cup {0}]
  /\ \A n \in 0..MaxLength : \A d \in [1..n -> Blocks \cup {0}] : d \in Data /\ Len(d) = n
  /\ <<>> \in Data
<1>1. MaxLength \in Nat
  BY BlockAssumption
<1>2. ASSUME NEW n \in 0..MaxLength, NEW d \in [1..n -> Blocks \cup {0}]
      PROVE  d \in Data /\ Len(d) = n
  <2>1. d \in Data
    BY DEF Data
  <2>2. n \in Nat
    BY <1>1
  <2>3. d \in Seq(Blocks \cup {0})
    BY <2>2, SeqDef
  <2>4. Len(d) \in Nat /\ DOMAIN d = 1..Len(d) /\ DOMAIN d = 1..n
    BY <2>3, LenProperties
  <2>5. Len(d) = n
    BY <2>2, <2>4
  <2> QED
    BY <2>1, <2>5
<1>3. ASSUME NEW d \in Data PROVE Len(d) \in 0..MaxLength /\ d \in [1..Len(d) -> Blocks \cup {0}]
  <2>1. PICK n \in 0..MaxLength : d \in [1..n -> Blocks \cup {0}]
    BY DEF Data
  <2> QED
    BY <1>2, <2>1
<1>4. <<>> \in Data
  <2>1. <<>> \in [1..0 -> Blocks \cup {0}] /\ 0 \in 0..MaxLength
    BY <1>1
  <2> QED
    BY <1>2, <2>1
<1> QED
  BY <1>1, <1>2, <1>3, <1>4

\* A file that can be read is not one that was spoiled, and neither is none.
LEMMA FileFacts ==
  /\ \A r \in FileRec : r \notin Broken /\ r # Absent /\ r.path \in Paths /\ r.data \in Data
  /\ \A r \in Broken : r \notin FileRec /\ r # Absent /\ r.path \in Paths
  /\ Closed.open = FALSE /\ NoJob.step = "idle" /\ NoJob \notin JobRec
  /\ Absent # None /\ Absent \notin Files /\ None \notin Files
<1>1. \A r \in Broken : r.data = Unreadable /\ r.path \in Paths
  BY DEF Broken
<1>2. \A r \in FileRec : r.data # Unreadable /\ r.path \in Paths /\ r.data \in Data
  BY FileAssumption DEF FileRec
<1>3. Closed.open = FALSE
  BY DEF Closed
<1>4. NoJob.step = "idle" /\ NoJob \notin JobRec
  BY DEF NoJob, JobRec
<1> QED
  BY <1>1, <1>2, <1>3, <1>4, FileAssumption

\* An open handle, and the job's.
LEMMA HandleFacts ==
  ASSUME Typed
  PROVE  /\ \A h \in Handles : handle[h].open => handle[h] \in HandleRec
         /\ \A h \in Handles : ~handle[h].open => handle[h] = Closed
         /\ job # NoJob => job \in JobRec /\ job.on \in Handles /\ handle[job.on] \in HandleRec
         /\ job.step # "idle" => job # NoJob
  BY FileFacts DEF Typed, HandleRec, JobRec

-----------------------------------------------------------------------------
(***************************************************************************)
(* What a step has to leave alone.                                         *)
(***************************************************************************)
\* No handle is opened, and those that stay open keep their file, path and buffer.
OnlyCloses ==
  /\ handle' \in [Handles -> {Closed} \cup HandleRec]
  /\ \A h \in Handles : handle'[h].open => handle'[h] = handle[h]

\* Where no content changes, the buffers agree with the files as before.
LEMMA BuffersAgree ==
  ASSUME Typed, NoLostUpdate, OnlyCloses,
         \A f \in drawn : file'[f] \in FileRec =>
           file[f] \in FileRec /\ file'[f].data = file[f].data
  PROVE  NoLostUpdate'
<1> SUFFICES ASSUME NEW h \in Handles, handle'[h].open, ~handle'[h].blind,
                    Readable(handle[h].uuid)',
                    NEW n \in Positions \ handle'[h].touched
             PROVE  BlockAt(handle'[h].data, n) = BlockAt(file'[handle'[h].uuid].data, n)
  BY DEF NoLostUpdate
<1>1. handle'[h] = handle[h] /\ handle[h].open
  BY DEF OnlyCloses
<1>2. handle[h].uuid \in drawn
  BY <1>1, FileAssumption DEF Typed, Readable
<1>3. Readable(handle[h].uuid) /\ file'[handle[h].uuid].data = file[handle[h].uuid].data
  BY <1>1, <1>2 DEF Readable, Typed
<1> QED
  BY <1>1, <1>3 DEF NoLostUpdate

\* Where the file that holds it stays, what was saved stays.
LEMMA SavedStays ==
  ASSUME Typed, SavedInv,
         \A h \in Handles : handle'[h].open =>
           handle[h].open /\ handle'[h].uuid = handle[h].uuid /\ handle'[h].path = handle[h].path,
         \A p \in Paths : saved'[p] # None /\ ~(job'.step = "import" /\ handle'[job'.on].path = p)
           => /\ saved'[p] = saved[p]
              /\ ~(job.step = "import" /\ handle[job.on].path = p)
              /\ \A f \in Files : Holds(f, p) => file'[f] = file[f]
  PROVE  SavedInv'
<1> SUFFICES ASSUME NEW p \in Paths, saved'[p] # None,
                    ~(job'.step = "import" /\ handle'[job'.on].path = p)
             PROVE  \E f \in Files : Holds(f, p)'
  BY DEF SavedInv
<1>1. PICK f \in Files : Holds(f, p)
  BY DEF SavedInv
<1>2. file'[f] = file[f] /\ saved'[p] = saved[p]
  BY <1>1
<1> QED
  BY <1>1, <1>2 DEF Holds

\* Where paths lose inodes only and no file moves, a path still names its file.
LEMMA PathsStay ==
  ASSUME Typed, PathNamesItsFile,
         \A p \in Paths : inode'[p] \in {inode[p], Absent, None},
         \A f \in drawn : file'[f] # Absent => file[f] # Absent /\ file'[f].path = file[f].path
  PROVE  PathNamesItsFile'
<1> SUFFICES ASSUME NEW p \in Paths, HasFile(p)' PROVE file'[inode'[p]].path = p
  BY DEF PathNamesItsFile
<1>1. inode'[p] = inode[p] /\ inode[p] \in drawn
  BY FileFacts DEF HasFile, Typed
<1>2. HasFile(p) /\ file'[inode[p]].path = file[inode[p]].path
  BY <1>1 DEF HasFile, Typed
<1> QED
  BY <1>1, <1>2 DEF PathNamesItsFile

\* Closing the job's handle, or keeping it, leaves the others as they are.
LEMMA Finished ==
  ASSUME Typed, NEW h \in Handles, NEW by, Finish(h, by)
  PROVE  OnlyCloses /\ job' = NoJob
  BY FileFacts DEF Finish, OnlyCloses, Typed

-----------------------------------------------------------------------------
(***************************************************************************)
(* The callbacks.                                                          *)
(***************************************************************************)
\* The initial states: nothing is open, and what the vault has is what is promised.
LEMMA FuseInit == Init => FuseInv
<1> SUFFICES ASSUME Init PROVE FuseInv
  OBVIOUS
<1>1. [n \in Positions |-> 0] \in Data
  <2>1. [n \in 1..MaxLength |-> 0] \in [1..MaxLength -> Blocks \cup {0}]
    OBVIOUS
  <2> QED
    BY <2>1, DataFacts DEF Positions
<1>2. [path : Paths, data : {[n \in Positions |-> 0]}] \subseteq FileRec
  BY <1>1 DEF FileRec
<1>3. ASSUME NEW p \in Paths, saved[p] # None
      PROVE  \E f \in Files : Holds(f, p) /\ saved[p] \in Data
  <2>1. ListedAt(p) # {} /\ saved[p] = file[CHOOSE f \in Files : f \in ListedAt(p)].data
    BY <1>3 DEF Init
  <2>2. \E f \in Files : f \in ListedAt(p)
    BY <2>1 DEF ListedAt
  <2>3. PICK f \in Files : f \in ListedAt(p) /\ saved[p] = file[f].data
    BY <2>1, <2>2
  <2>4. file[f] \in [path : Paths, data : {[n \in Positions |-> 0]}] /\ file[f].path = p
    BY <2>3 DEF ListedAt, Init
  <2>5. file[f] = [path |-> p, data |-> saved[p]] /\ saved[p] \in Data
    BY <1>1, <2>3, <2>4
  <2>6. \A h \in Handles : ~handle[h].open
    BY FileFacts DEF Init
  <2> QED
    BY <2>5, <2>6 DEF Holds
<1>4. saved \in [Paths -> Data \cup {None}]
  BY <1>3 DEF Init
<1>5. Typed
  BY <1>2, <1>4, FileFacts DEF Typed, Init
<1>6. PathNamesItsFile
  BY FileFacts DEF PathNamesItsFile, HasFile, Init
<1>7. NoLostUpdate
  BY FileFacts DEF NoLostUpdate, Init
<1> QED
  BY <1>3, <1>5, <1>6, <1>7 DEF FuseInv, SavedInv

\* refresh_inodes: the entries it adds are files that are listed at their paths.
LEMMA RefreshStep == FuseInv /\ Refresh => FuseInv'
<1> SUFFICES ASSUME FuseInv, Refresh PROVE FuseInv'
  OBVIOUS
<1>1. ASSUME NEW p \in Paths
      PROVE  inode'[p] = inode[p] \/ inode'[p] \in ListedAt(p)
  BY DEF Refresh, FuseInv, Typed
<1>2. \A p \in Paths : ListedAt(p) \subseteq drawn
  BY DEF ListedAt, FuseInv, Typed
<1>3. inode' \in [Paths -> drawn \cup {Absent, None}]
  BY <1>1, <1>2 DEF Refresh, FuseInv, Typed
<1>4. Typed'
  BY <1>3 DEF Refresh, FuseInv, Typed
<1>5. PathNamesItsFile'
  BY <1>1 DEF Refresh, FuseInv, PathNamesItsFile, HasFile, ListedAt
<1>6. SavedInv'
  BY DEF Refresh, FuseInv, SavedInv, Holds
<1>7. NoLostUpdate'
  BY DEF Refresh, FuseInv, NoLostUpdate, Readable
<1> QED
  BY <1>4, <1>5, <1>6, <1>7 DEF FuseInv

\* A handle that is opened has the file of its path, or nothing that can be lost.
LEMMA HandleOpened ==
  ASSUME FuseInv, Idle, NEW h \in Handles, NEW p \in Paths, NEW u \in drawn \cup {None},
         NEW d \in Data, NEW isNew \in BOOLEAN, NEW blind \in BOOLEAN,
         NewHandle(h, p, u, d, isNew, blind),
         u \in drawn /\ file[u] # Absent => file[u].path = p,
         u \in drawn /\ ~blind => Readable(u) /\ d = file[u].data,
         UNCHANGED <<file, drawn, job, saved>>
  PROVE  /\ handle' \in [Handles -> {Closed} \cup HandleRec]
         /\ \A k \in Handles : handle'[k].open => handle'[k].uuid \in drawn \cup {None}
         /\ SavedInv'
         /\ NoLostUpdate'
<1>1. /\ \A k \in Handles \ {h} : handle'[k] = handle[k]
      /\ handle'[h] = [open |-> TRUE, path |-> p, uuid |-> u, data |-> d, modified |-> isNew,
                       isNew |-> isNew, blind |-> blind, touched |-> {}]
      /\ DOMAIN handle' = Handles
  BY DEF NewHandle, FuseInv, Typed
<1>2. handle'[h] \in HandleRec
  <2>1. u \in Files \cup {None}
    BY DEF FuseInv, Typed
  <2> QED
    BY <1>1, <2>1 DEF HandleRec
<1>3. handle' \in [Handles -> {Closed} \cup HandleRec]
  BY <1>1, <1>2 DEF NewHandle, FuseInv, Typed
<1>4. SavedInv'
  <2> SUFFICES ASSUME NEW q \in Paths, saved[q] # None
               PROVE  \E f \in Files : Holds(f, q)'
    BY DEF SavedInv
  <2>1. job.step = "idle"
    BY FileFacts DEF Idle
  <2>2. PICK f \in Files : Holds(f, q)
    BY <2>1 DEF FuseInv, SavedInv
  <2>3. file[f].path = q /\ file[f] # Absent
    <3>1. file[f] = [path |-> q, data |-> saved[q]]
      BY <2>2 DEF Holds
    <3>2. file[f] \in FileRec
      BY <3>1 DEF FileRec, FuseInv, Typed
    <3> QED
      BY <3>1, <3>2, FileFacts
  <2>4. u = f => p = q
    BY <2>3, FileFacts
  <2> QED
    BY <1>1, <2>2, <2>4 DEF Holds
<1>5. NoLostUpdate'
  <2> SUFFICES ASSUME NEW k \in Handles, handle'[k].open, ~handle'[k].blind,
                      Readable(handle'[k].uuid),
                      NEW n \in Positions \ handle'[k].touched
               PROVE  BlockAt(handle'[k].data, n) = BlockAt(file[handle'[k].uuid].data, n)
    BY DEF NoLostUpdate, Readable
  <2>1. CASE k = h
    BY <1>1, <2>1, FileFacts DEF Readable
  <2>2. CASE k # h
    BY <1>1, <2>2 DEF FuseInv, NoLostUpdate
  <2> QED
    BY <2>1, <2>2
<1> QED
  BY <1>1, <1>3, <1>4, <1>5 DEF FuseInv, Typed

\* Opening for writing.
LEMMA OpenStep == ASSUME NEW p \in Paths, NEW h \in Handles
                  PROVE  FuseInv /\ Open(p, h) => FuseInv'
<1> SUFFICES ASSUME FuseInv, Open(p, h) PROVE FuseInv'
  OBVIOUS
<1>1. inode[p] \in drawn \cup {None}
  BY DEF Open, FuseInv, Typed
<1>2. inode[p] \in drawn /\ file[inode[p]] # Absent => file[inode[p]].path = p
  BY DEF FuseInv, PathNamesItsFile, HasFile, Typed
<1>3. <<>> \in Data
  BY DataFacts
<1>4. PICK d \in Data, blind \in BOOLEAN :
        /\ NewHandle(h, p, inode[p], d, FALSE, blind)
        /\ ~blind => Readable(inode[p]) /\ d = file[inode[p]].data
  BY <1>3, FileFacts DEF Open, Readable
<1>5. /\ handle' \in [Handles -> {Closed} \cup HandleRec]
      /\ \A k \in Handles : handle'[k].open => handle'[k].uuid \in drawn \cup {None}
      /\ SavedInv'
      /\ NoLostUpdate'
  BY <1>1, <1>2, <1>4, HandleOpened DEF Open
<1>6. Typed'
  BY <1>5 DEF Open, Idle, FuseInv, Typed
<1>7. PathNamesItsFile'
  BY DEF Open, FuseInv, PathNamesItsFile, HasFile
<1> QED
  BY <1>5, <1>6, <1>7 DEF FuseInv

\* Creating: the handle has no file yet.
LEMMA CreateStep == ASSUME NEW p \in Paths, NEW h \in Handles
                    PROVE  FuseInv /\ Create(p, h) => FuseInv'
<1> SUFFICES ASSUME FuseInv, Create(p, h) PROVE FuseInv'
  OBVIOUS
<1>1. <<>> \in Data
  BY DataFacts
<1>2. None \notin drawn
  BY FileFacts DEF FuseInv, Typed
<1>3. /\ handle' \in [Handles -> {Closed} \cup HandleRec]
      /\ \A k \in Handles : handle'[k].open => handle'[k].uuid \in drawn \cup {None}
      /\ SavedInv'
      /\ NoLostUpdate'
  BY <1>1, <1>2, HandleOpened DEF Create
<1>4. Typed'
  BY <1>3 DEF Create, Idle, FuseInv, Typed
<1>5. \A q \in Paths : inode'[q] \in {inode[q], Absent, None}
  BY DEF Create, FuseInv, Typed
<1>6. PathNamesItsFile'
  BY <1>5, PathsStay DEF Create, FuseInv
<1> QED
  BY <1>3, <1>4, <1>6 DEF FuseInv

\* A buffer changes at the positions that count as touched, and nowhere else.
LEMMA BufferChanged ==
  ASSUME FuseInv, NEW h \in Handles, handle[h].open, NEW d \in Data,
         NEW touched \in SUBSET Positions, Change(h, d, touched),
         \A n \in Positions \ touched : BlockAt(d, n) = BlockAt(handle[h].data, n)
  PROVE  FuseInv'
<1>1. handle[h] \in HandleRec
  BY HandleFacts DEF FuseInv
<1>2. handle'[h] = [handle[h] EXCEPT !.data = d, !.modified = TRUE, !.touched = @ \cup touched]
  BY DEF Change, FuseInv, Typed
<1>3. /\ handle'[h] \in HandleRec
      /\ handle'[h].open /\ handle'[h].path = handle[h].path /\ handle'[h].uuid = handle[h].uuid
      /\ handle'[h].data = d /\ handle'[h].blind = handle[h].blind
      /\ handle'[h].touched = handle[h].touched \cup touched
  BY <1>1, <1>2 DEF HandleRec
<1>4. \A k \in Handles \ {h} : handle'[k] = handle[k]
  BY DEF Change, FuseInv, Typed
<1>5. handle' \in [Handles -> {Closed} \cup HandleRec]
  BY <1>3, <1>4 DEF Change, FuseInv, Typed
<1>6. Typed'
  BY <1>3, <1>4, <1>5 DEF Change, Idle, FuseInv, Typed
<1>7. PathNamesItsFile'
  BY DEF Change, FuseInv, PathNamesItsFile, HasFile
<1>8. SavedInv'
  <2>1. job.step = "idle" /\ job'.step = "idle"
    BY FileFacts DEF Change, Idle
  <2> QED
    BY <1>3, <1>4, <2>1, SavedStays DEF Change, FuseInv
<1>9. NoLostUpdate'
  <2> SUFFICES ASSUME NEW k \in Handles, handle'[k].open, ~handle'[k].blind,
                      Readable(handle'[k].uuid),
                      NEW n \in Positions \ handle'[k].touched
               PROVE  BlockAt(handle'[k].data, n) = BlockAt(file[handle'[k].uuid].data, n)
    BY DEF NoLostUpdate, Readable, Change
  <2>1. CASE k = h
    BY <1>3, <2>1 DEF FuseInv, NoLostUpdate
  <2>2. CASE k # h
    BY <1>4, <2>2 DEF FuseInv, NoLostUpdate
  <2> QED
    BY <2>1, <2>2
<1> QED
  BY <1>6, <1>7, <1>8, <1>9 DEF FuseInv

\* Writing a block: what it fills a gap with counts as written.
LEMMA WriteStep == ASSUME NEW h \in Handles, NEW n \in Positions, NEW b \in Blocks
                   PROVE  FuseInv /\ Write(h, n, b) => FuseInv'
<1> SUFFICES ASSUME FuseInv, Write(h, n, b) PROVE FuseInv'
  OBVIOUS
<1> DEFINE old == handle[h].data
           m == Len(old)
           size == IF n > m THEN n ELSE m
           new == WriteAt(old, n, b)
           touched == {n} \cup {k \in Positions : m < k /\ k < n}
<1>1. old \in Data
  BY HandleFacts DEF FuseInv, Write, HandleRec
<1>2. m \in 0..MaxLength /\ old \in [1..m -> Blocks \cup {0}] /\ MaxLength \in Nat
  BY <1>1, DataFacts
<1>3. new = [k \in 1..size |-> IF k = n THEN b ELSE IF k <= m THEN old[k] ELSE 0]
  BY DEF WriteAt
<1> HIDE DEF m, old
<1>4. size \in 0..MaxLength
  BY <1>2 DEF Positions
<1>5. new \in [1..size -> Blocks \cup {0}]
  BY <1>2, <1>3, <1>4
<1>6. new \in Data /\ Len(new) = size
  BY <1>4, <1>5, DataFacts
<1>7. ASSUME NEW k \in Positions \ touched PROVE BlockAt(new, k) = BlockAt(old, k)
  <2>1. k \in Nat /\ n \in Nat /\ k # n /\ ~(m < k /\ k < n)
    BY <1>2 DEF Positions
  <2>2. CASE k <= m
    <3>1. k <= size /\ k \in 1..size
      BY <1>2, <2>1, <2>2 DEF Positions
    <3>2. new[k] = old[k]
      BY <1>3, <2>1, <2>2, <3>1
    <3> QED
      BY <1>6, <2>2, <3>1, <3>2 DEF BlockAt, m
  <2>3. CASE ~(k <= m)
    <3>1. ~(k <= size)
      BY <1>2, <2>1, <2>3
    <3> QED
      BY <1>6, <2>3, <3>1 DEF BlockAt, m
  <2> QED
    BY <2>2, <2>3
<1>8. handle[h].open /\ Change(h, new, touched) /\ touched \in SUBSET Positions
  BY DEF Write, old, m
<1> HIDE DEF new, touched
<1> QED
  BY <1>6, <1>7, <1>8, BufferChanged DEF old

\* Truncating and extending.
LEMMA SetEndOfFileStep == ASSUME NEW h \in Handles, NEW n \in Sizes
                          PROVE  FuseInv /\ SetEndOfFile(h, n) => FuseInv'
<1> SUFFICES ASSUME FuseInv, SetEndOfFile(h, n) PROVE FuseInv'
  OBVIOUS
<1> DEFINE old == handle[h].data
           m == Len(old)
           new == [k \in 1..n |-> IF k <= m THEN old[k] ELSE 0]
           touched == {k \in Positions : k > n \/ k > m}
<1>1. old \in Data
  BY HandleFacts DEF FuseInv, SetEndOfFile, HandleRec
<1>2. /\ m \in 0..MaxLength /\ old \in [1..m -> Blocks \cup {0}] /\ MaxLength \in Nat
      /\ n \in 0..MaxLength
  BY <1>1, DataFacts, BlockAssumption
<1>3. handle[h].open /\ Change(h, new, touched) /\ touched \in SUBSET Positions
  BY DEF SetEndOfFile
<1> HIDE DEF m, old
<1>4. new \in [1..n -> Blocks \cup {0}]
  BY <1>2
<1>5. new \in Data /\ Len(new) = n
  BY <1>2, <1>4, DataFacts
<1>6. ASSUME NEW k \in Positions \ touched PROVE BlockAt(new, k) = BlockAt(old, k)
  <2>1. k \in Nat /\ k <= n /\ k <= m /\ k \in 1..n
    BY <1>2 DEF Positions
  <2>2. new[k] = old[k]
    BY <2>1
  <2> QED
    BY <1>5, <2>1, <2>2 DEF BlockAt, m
<1> HIDE DEF new, touched
<1> QED
  BY <1>3, <1>5, <1>6, BufferChanged DEF old

-----------------------------------------------------------------------------
(***************************************************************************)
(* The commit.                                                             *)
(***************************************************************************)
\* fsync and release, up to the commit.
LEMMA SyncStep == ASSUME NEW h \in Handles, NEW by \in {"fsync", "release"}
                  PROVE  FuseInv /\ Sync(h, by) => FuseInv'
<1> SUFFICES ASSUME FuseInv, Sync(h, by) PROVE FuseInv'
  OBVIOUS
<1>1. OnlyCloses /\ (job' = NoJob \/ handle' = handle)
  <2>1. CASE handle[h].modified
    BY <2>1 DEF Sync, OnlyCloses, FuseInv, Typed
  <2>2. CASE ~handle[h].modified
    BY <2>2, Finished DEF Sync, FuseInv
  <2> QED
    BY <2>1, <2>2
<1>2. handle[h] \in HandleRec /\ handle[h].open /\ handle[h].uuid \in drawn \cup {None}
  BY HandleFacts DEF Sync, FuseInv, Typed
<1>3. job' \in {NoJob} \cup JobRec
  BY DEF Sync, Finish, JobRec
<1>4. job' # NoJob => /\ handle'[job'.on].open
                      /\ job'.step = "delete" => handle'[job'.on].uuid \in drawn
  BY <1>2 DEF Sync, Finish, NoJob
<1>5. Typed'
  BY <1>1, <1>3, <1>4 DEF Sync, FuseInv, Typed, OnlyCloses
<1>6. PathNamesItsFile'
  BY DEF Sync, FuseInv, PathNamesItsFile, HasFile
<1>7. SavedInv'
  <2>1. job.step = "idle"
    BY FileFacts DEF Sync, Idle
  <2> QED
    BY <1>1, <2>1, SavedStays DEF Sync, OnlyCloses, FuseInv
<1>8. NoLostUpdate'
  BY <1>1, BuffersAgree DEF Sync, FuseInv
<1> QED
  BY <1>5, <1>6, <1>7, <1>8 DEF FuseInv

\* A deletion that stops half way leaves the other files alone.
LEMMA DeletionFailed ==
  ASSUME Typed, NEW f \in Files, file[f] # Absent, DeleteFails(f)
  PROVE  /\ file' \in [Files -> {Absent} \cup FileRec \cup Broken]
         /\ \A g \in Files : g # f => file'[g] = file[g]
         /\ file'[f] \in FileRec => file'[f] = file[f]
         /\ file'[f] # Absent => file'[f].path = file[f].path
<1>1. CASE UNCHANGED file
  BY <1>1 DEF Typed
<1>2. CASE Spoil(f, [path |-> file[f].path, data |-> Unreadable])
  <2> DEFINE s == [path |-> file[f].path, data |-> Unreadable]
  <2>1. file[f].path \in Paths
    BY FileFacts DEF Typed
  <2>2. s \in Broken /\ s.path = file[f].path
    BY <2>1 DEF Broken
  <2> HIDE DEF s
  <2>3. file' = [file EXCEPT ![f] = s]
    BY <1>2 DEF Spoil, s
  <2> QED
    BY <2>2, <2>3, FileFacts DEF Typed
<1>3. CASE Remove(f)
  BY <1>3, FileFacts DEF Remove, Typed
<1> QED
  BY <1>1, <1>2, <1>3 DEF DeleteFails

\* The file that holds what was saved is there, at its path.
LEMMA HeldIsDrawn ==
  ASSUME Typed, NEW f \in Files, NEW p \in Paths, saved[p] # None, Holds(f, p)
  PROVE  f \in drawn /\ file[f] \in FileRec /\ file[f] # Absent /\ file[f].path = p
<1>1. saved[p] \in Data /\ file[f] = [path |-> p, data |-> saved[p]]
  BY DEF Holds, Typed
<1>2. file[f] \in FileRec /\ file[f].path = p
  BY <1>1 DEF FileRec
<1> QED
  BY <1>2, FileFacts DEF Typed

\* Where a commit fails, the vault had changed at most in the file of its handle, and
\* then nothing is promised of its path.  What it may have added is new.
LEMMA CommitFailed ==
  ASSUME FuseInv, job # NoJob, NEW changed \in BOOLEAN, FailCommit(changed),
         job.step # "import" \/ changed,
         drawn \subseteq drawn', drawn' \subseteq Files,
         file' \in [Files -> {Absent} \cup FileRec \cup Broken],
         \A g \in Files : file'[g] # Absent => g \in drawn',
         \A g \in drawn : file'[g] # file[g] => changed /\ g = handle[job.on].uuid,
         \A g \in drawn : file'[g] \in FileRec => file'[g] = file[g],
         \A g \in drawn : file'[g] # Absent => file[g] # Absent /\ file'[g].path = file[g].path
  PROVE  FuseInv'
<1> DEFINE h == handle[job.on]
<1>1. job \in JobRec /\ job.on \in Handles /\ h \in HandleRec /\ h.open
  BY HandleFacts DEF FuseInv, Typed
<1>2. OnlyCloses /\ job' = NoJob /\ job'.step = "idle" /\ UNCHANGED inode
  BY <1>1, Finished, FileFacts DEF FailCommit, FuseInv
<1>3. \A p \in Paths : saved'[p] = saved[p] \/ saved'[p] = None
  BY DEF FailCommit, FuseInv, Typed
<1>4. saved' \in [Paths -> Data \cup {None}]
  BY DEF FailCommit, FuseInv, Typed
<1>5. changed => saved'[h.path] = None
  BY <1>1 DEF FailCommit, FuseInv, Typed, HandleRec
<1>6. Typed'
  <2>1. inode' \in [Paths -> drawn' \cup {Absent, None}]
    BY <1>2 DEF FuseInv, Typed
  <2>2. \A k \in Handles : handle'[k].open => handle'[k].uuid \in drawn' \cup {None}
    BY <1>2 DEF FuseInv, Typed, OnlyCloses
  <2> QED
    BY <1>2, <1>4, <2>1, <2>2 DEF Typed, OnlyCloses
<1>7. PathNamesItsFile'
  BY <1>2, PathsStay DEF FuseInv
<1>8. SavedInv'
  <2>1. ASSUME NEW p \in Paths, saved'[p] # None
        PROVE  /\ saved'[p] = saved[p]
               /\ ~(job.step = "import" /\ h.path = p)
               /\ \A f \in Files : Holds(f, p) => file'[f] = file[f]
    <3>1. \A f \in Files : Holds(f, p) => f \in drawn
      BY <1>3, <2>1, HeldIsDrawn DEF FuseInv
    <3> QED
      BY <1>1, <1>3, <1>5, <2>1, <3>1 DEF Holds
  <2> QED
    BY <1>2, <2>1, SavedStays DEF OnlyCloses, FuseInv
<1>9. NoLostUpdate'
  BY <1>2, BuffersAgree DEF FuseInv, Typed
<1> QED
  BY <1>6, <1>7, <1>8, <1>9 DEF FuseInv

\* The first half of a commit.
LEMMA CommitDeleteStep == FuseInv /\ CommitDelete => FuseInv'
<1> SUFFICES ASSUME FuseInv, CommitDelete PROVE FuseInv'
  OBVIOUS
<1> DEFINE h == handle[job.on]
           f == h.uuid
<1>1. job # NoJob /\ job \in JobRec /\ job.on \in Handles /\ h \in HandleRec /\ h.open
  BY HandleFacts, FileFacts DEF CommitDelete, FuseInv, Typed
<1>2. f \in drawn /\ f \in Files /\ job.step = "delete"
  BY <1>1 DEF CommitDelete, FuseInv, Typed
<1>3. CASE Remove(f) /\ job' = [job EXCEPT !.step = "import"] /\ UNCHANGED <<handle, inode, saved>>
  <2>1. job' \in JobRec /\ job'.on = job.on /\ job'.step = "import"
    BY <1>1, <1>3 DEF JobRec
  <2>2. /\ file'[f] = Absent
        /\ \A g \in Files : g # f => file'[g] = file[g]
        /\ file' \in [Files -> {Absent} \cup FileRec \cup Broken]
    BY <1>2, <1>3 DEF Remove, FuseInv, Typed
  <2>3. UNCHANGED drawn
    BY DEF CommitDelete
  <2>4. Typed'
    BY <1>1, <1>3, <2>1, <2>2, <2>3 DEF FuseInv, Typed
  <2>5. PathNamesItsFile'
    BY <1>3, <2>2, PathsStay DEF FuseInv, Typed
  <2>6. SavedInv'
    <3>1. ASSUME NEW p \in Paths, saved'[p] # None, h.path # p
          PROVE  \A g \in Files : Holds(g, p) => file'[g] = file[g]
      BY <1>1, <2>2, <3>1 DEF Holds
    <3> QED
      BY <1>2, <1>3, <2>1, <3>1, SavedStays DEF FuseInv
  <2>7. NoLostUpdate'
    <3>1. OnlyCloses
      BY <1>3 DEF OnlyCloses, FuseInv, Typed
    <3>2. \A g \in drawn : file'[g] \in FileRec => file'[g] = file[g]
      BY <2>2, FileFacts DEF FuseInv, Typed
    <3> QED
      BY <3>1, <3>2, BuffersAgree DEF FuseInv
  <2> QED
    BY <2>4, <2>5, <2>6, <2>7 DEF FuseInv
<1>4. CASE UNCHANGED file /\ FailCommit(FALSE)
  <2>1. file' = file /\ UNCHANGED drawn
    BY <1>4 DEF CommitDelete
  <2> QED
    BY <1>1, <1>2, <1>4, <2>1, CommitFailed DEF FuseInv, Typed
<1>5. CASE file[f] # Absent /\ DeleteFails(f) /\ FailCommit(TRUE)
  <2>1. /\ file' \in [Files -> {Absent} \cup FileRec \cup Broken]
        /\ \A g \in Files : g # f => file'[g] = file[g]
        /\ file'[f] \in FileRec => file'[f] = file[f]
        /\ file'[f] # Absent => file'[f].path = file[f].path
    BY <1>2, <1>5, DeletionFailed DEF FuseInv
  <2>2. UNCHANGED drawn
    BY DEF CommitDelete
  <2> QED
    BY <1>1, <1>2, <1>5, <2>1, <2>2, CommitFailed DEF FuseInv, Typed
<1> QED
  BY <1>3, <1>4, <1>5 DEF CommitDelete

\* The second half: the file is imported under a uuid no handle and no inode has.
LEMMA CommitImportStep == FuseInv /\ CommitImport => FuseInv'
<1> SUFFICES ASSUME FuseInv, CommitImport PROVE FuseInv'
  OBVIOUS
<1> DEFINE h == handle[job.on]
           new == [path |-> h.path, data |-> h.data]
<1>1. job # NoJob /\ job \in JobRec /\ job.on \in Handles /\ h \in HandleRec /\ h.open
  BY HandleFacts, FileFacts DEF CommitImport, FuseInv, Typed
<1>2. new \in FileRec /\ new.path = h.path /\ new.data = h.data /\ h.path \in Paths /\ h.data \in Data
  BY <1>1 DEF FileRec, HandleRec
<1>3. PICK f \in Files \ drawn :
        /\ drawn' = drawn \cup {f}
        /\ \/ /\ Add(f, new)
              /\ job' = NoJob
              /\ handle' = [handle EXCEPT ![job.on] =
                              IF job.by = "release" THEN Closed
                              ELSE [@ EXCEPT !.uuid = f, !.modified = FALSE,
                                             !.touched = {}, !.blind = FALSE]]
              /\ saved' = [saved EXCEPT ![h.path] = h.data]
              /\ UNCHANGED inode
           \/ /\ Add(f, new) \/ UNCHANGED file
              /\ FailCommit(TRUE)
  BY DEF CommitImport
<1> HIDE DEF new
<1>4. f \in Files /\ f \notin drawn /\ file[f] = Absent
  BY <1>3 DEF FuseInv, Typed
<1>5. Add(f, new) \/ UNCHANGED file
      => /\ file' \in [Files -> {Absent} \cup FileRec \cup Broken]
         /\ \A g \in Files : g # f => file'[g] = file[g]
         /\ \A g \in Files : file'[g] # Absent => g \in drawn'
  BY <1>2, <1>3, <1>4 DEF Add, FuseInv, Typed
<1>6. CASE FailCommit(TRUE) /\ (Add(f, new) \/ UNCHANGED file)
  <2>1. drawn' \subseteq Files /\ drawn \subseteq drawn' /\ drawn \subseteq Files
    BY <1>3 DEF FuseInv, Typed
  <2>2. \A g \in drawn : file'[g] = file[g]
    BY <1>4, <1>5, <1>6, <2>1
  <2>3. \A g \in drawn : file'[g] \in FileRec => file'[g] # Absent
    BY FileFacts
  <2> QED
    BY <1>1, <1>5, <1>6, <2>1, <2>2, <2>3, CommitFailed
<1>7. CASE /\ Add(f, new)
           /\ job' = NoJob
           /\ handle' = [handle EXCEPT ![job.on] =
                           IF job.by = "release" THEN Closed
                           ELSE [@ EXCEPT !.uuid = f, !.modified = FALSE,
                                          !.touched = {}, !.blind = FALSE]]
           /\ saved' = [saved EXCEPT ![h.path] = h.data]
           /\ UNCHANGED inode
  <2> DEFINE kept == [h EXCEPT !.uuid = f, !.modified = FALSE, !.touched = {}, !.blind = FALSE]
  <2>1. /\ kept \in HandleRec /\ kept.uuid = f /\ kept.path = h.path /\ kept.data = h.data
        /\ kept.touched = {} /\ kept.open
    BY <1>1, <1>4 DEF HandleRec
  <2> HIDE DEF kept
  <2>2. /\ handle'[job.on] \in {Closed, kept}
        /\ \A k \in Handles : k # job.on => handle'[k] = handle[k]
        /\ handle' \in [Handles -> {Closed} \cup HandleRec]
    BY <1>1, <1>7, <2>1 DEF FuseInv, Typed, kept
  <2>3. file'[f] = new /\ \A g \in drawn : file'[g] = file[g]
    BY <1>4, <1>5, <1>7 DEF Add, FuseInv, Typed
  <2>4. Typed'
    <3>1. \A k \in Handles : handle'[k].open => handle'[k].uuid \in drawn' \cup {None}
      BY <1>3, <2>1, <2>2, FileFacts DEF FuseInv, Typed
    <3>2. saved' \in [Paths -> Data \cup {None}]
      BY <1>2, <1>7 DEF FuseInv, Typed
    <3>3. inode' \in [Paths -> drawn' \cup {Absent, None}] /\ drawn' \in SUBSET Files
      BY <1>3, <1>7 DEF FuseInv, Typed
    <3> QED
      BY <1>5, <1>7, <2>2, <3>1, <3>2, <3>3 DEF Typed
  <2>5. PathNamesItsFile'
    BY <1>7, <2>3, PathsStay DEF FuseInv
  <2>6. SavedInv'
    <3> SUFFICES ASSUME NEW p \in Paths, saved'[p] # None PROVE \E g \in Files : Holds(g, p)'
      BY DEF SavedInv
    <3>1. CASE p = h.path
      <4>1. file'[f] = [path |-> p, data |-> saved'[p]]
        BY <1>2, <1>7, <2>3, <3>1 DEF FuseInv, Typed, new
      <4>2. ASSUME NEW k \in Handles, handle'[k].open, handle'[k].uuid = f
            PROVE  handle'[k].path = p
        BY <1>4, <2>1, <2>2, <3>1, <4>2, FileFacts DEF FuseInv, Typed
      <4> QED
        BY <1>4, <4>1, <4>2 DEF Holds
    <3>2. CASE p # h.path
      <4>1. saved'[p] = saved[p]
        BY <1>7, <3>2 DEF FuseInv, Typed
      <4>2. PICK g \in Files : Holds(g, p)
        BY <3>2, <4>1 DEF FuseInv, SavedInv
      <4>3. g \in drawn /\ g # f /\ file'[g] = file[g]
        BY <1>4, <2>3, <4>1, <4>2, HeldIsDrawn DEF FuseInv
      <4>4. ASSUME NEW k \in Handles, handle'[k].open, handle'[k].uuid = g
            PROVE  handle'[k].path = p
        BY <2>1, <2>2, <4>2, <4>3, <4>4, FileFacts DEF Holds
      <4> QED
        BY <4>1, <4>2, <4>3, <4>4 DEF Holds
    <3> QED
      BY <3>1, <3>2
  <2>7. NoLostUpdate'
    <3> SUFFICES ASSUME NEW k \in Handles, handle'[k].open, ~handle'[k].blind,
                        Readable(handle[k].uuid)',
                        NEW n \in Positions \ handle'[k].touched
                 PROVE  BlockAt(handle'[k].data, n) = BlockAt(file'[handle'[k].uuid].data, n)
      BY DEF NoLostUpdate
    <3>1. CASE k = job.on
      BY <1>2, <2>1, <2>2, <2>3, <3>1, FileFacts
    <3>2. CASE k # job.on
      <4>1. handle'[k] = handle[k] /\ handle[k].uuid \in drawn
        BY <2>2, <3>2, FileFacts DEF FuseInv, Typed, Readable
      <4>2. file'[handle[k].uuid] = file[handle[k].uuid]
        BY <2>3, <4>1
      <4> QED
        BY <4>1, <4>2 DEF FuseInv, Typed, NoLostUpdate, Readable
    <3> QED
      BY <3>1, <3>2
  <2> QED
    BY <2>4, <2>5, <2>6, <2>7 DEF FuseInv
<1> QED
  BY <1>3, <1>6, <1>7

-----------------------------------------------------------------------------
(***************************************************************************)
(* unlink, rename and a restart.                                           *)
(***************************************************************************)
\* The file of a path's inode.
LEMMA FileOfPath ==
  ASSUME FuseInv, NEW p \in Paths, HasFile(p)
  PROVE  /\ inode[p] \in drawn /\ inode[p] \in Files
         /\ file[inode[p]] \in FileRec \cup Broken /\ file[inode[p]].path = p
  BY DEF FuseInv, Typed, HasFile, PathNamesItsFile

\* unlink: at most the file at that path is gone.
LEMMA UnlinkStep == ASSUME NEW p \in Paths PROVE FuseInv /\ Unlink(p) => FuseInv'
<1> SUFFICES ASSUME FuseInv, Unlink(p) PROVE FuseInv'
  OBVIOUS
<1> DEFINE f == inode[p]
<1>1. f \in drawn /\ f \in Files /\ file[f] # Absent /\ file[f].path = p
  BY FileOfPath DEF Unlink, HasFile
<1>2. /\ file' \in [Files -> {Absent} \cup FileRec \cup Broken]
      /\ \A g \in Files : g # f => file'[g] = file[g]
      /\ file'[f] \in FileRec => file'[f] = file[f]
      /\ file'[f] # Absent => file'[f].path = file[f].path
  <2>1. Remove(f) => DeleteFails(f)
    BY DEF DeleteFails
  <2> QED
    BY <1>1, <2>1, DeletionFailed DEF Unlink, FuseInv
<1>3. inode' \in [Paths -> drawn \cup {Absent, None}] /\ \A q \in Paths : inode'[q] \in {inode[q], Absent}
  BY DEF Unlink, RemoveInode, FuseInv, Typed
<1>4. /\ saved' \in [Paths -> Data \cup {None}] /\ saved'[p] = None
      /\ \A q \in Paths : q # p => saved'[q] = saved[q]
      /\ UNCHANGED <<drawn, handle, job>>
  BY DEF Unlink, FuseInv, Typed
<1>5. Typed'
  BY <1>1, <1>2, <1>3, <1>4 DEF FuseInv, Typed
<1>6. PathNamesItsFile'
  <2>1. \A g \in drawn : file'[g] # Absent => file[g] # Absent /\ file'[g].path = file[g].path
    BY <1>1, <1>2 DEF FuseInv, Typed
  <2> QED
    BY <1>3, <2>1, PathsStay DEF FuseInv
<1>7. SavedInv'
  <2>1. job.step = "idle" /\ job'.step = "idle"
    BY <1>4, FileFacts DEF Unlink, Idle
  <2>2. ASSUME NEW q \in Paths, saved'[q] # None, NEW g \in Files, Holds(g, q)
        PROVE  file'[g] = file[g]
    <3>1. q # p /\ saved[q] # None
      BY <1>4, <2>2
    <3>2. file[g].path = q
      BY <2>2, <3>1, HeldIsDrawn DEF FuseInv
    <3> QED
      BY <1>1, <1>2, <3>1, <3>2
  <2> QED
    BY <1>4, <2>1, <2>2, SavedStays DEF FuseInv
<1>8. NoLostUpdate'
  <2>1. OnlyCloses
    BY <1>4 DEF OnlyCloses, FuseInv, Typed
  <2>2. \A g \in drawn : file'[g] \in FileRec => file'[g] = file[g]
    BY <1>2 DEF FuseInv, Typed
  <2> QED
    BY <2>1, <2>2, BuffersAgree DEF FuseInv
<1> QED
  BY <1>5, <1>6, <1>7, <1>8 DEF FuseInv

\* rename: the file that is moved is the one at the old path.
LEMMA RenameStep == ASSUME NEW p \in Paths, NEW q \in Paths
                    PROVE  FuseInv /\ Rename(p, q) => FuseInv'
<1> SUFFICES ASSUME FuseInv, Rename(p, q) PROVE FuseInv'
  OBVIOUS
<1> DEFINE f == inode[p]
<1>1. /\ f \in drawn /\ f \in Files /\ file[f] \in FileRec \cup Broken /\ file[f].path = p
      /\ p # q /\ file[f] # Absent
  BY FileOfPath DEF Rename, HasFile
<1>2. UNCHANGED <<drawn, handle, job>> /\ job.step = "idle" /\ job'.step = "idle"
  BY FileFacts DEF Rename, Idle
<1>3. OnlyCloses
  BY <1>2 DEF OnlyCloses, FuseInv, Typed
<1>4. CASE /\ file' = [file EXCEPT ![f].path = q]
           /\ UpdatePath(p, q)
           /\ saved' = Moved(f, p, q)
  <2> DEFINE moved == [file[f] EXCEPT !.path = q]
  <2>1. /\ moved \in FileRec \cup Broken /\ moved.path = q /\ moved.data = file[f].data
        /\ moved \in FileRec <=> file[f] \in FileRec
        /\ file[f] \in FileRec => moved = [path |-> q, data |-> file[f].data]
    <3>1. CASE file[f] \in FileRec
      <4>1. /\ moved \in FileRec /\ moved.path = q /\ moved.data = file[f].data
            /\ moved = [path |-> q, data |-> file[f].data]
        BY <3>1 DEF FileRec
      <4> QED
        BY <3>1, <4>1
    <3>2. CASE file[f] \in Broken
      <4>1. moved \in Broken /\ moved.path = q /\ moved.data = file[f].data
        BY <3>2 DEF Broken
      <4> QED
        BY <3>2, <4>1, FileFacts
    <3> QED
      BY <1>1, <3>1, <3>2
  <2>2. /\ file' \in [Files -> {Absent} \cup FileRec \cup Broken] /\ file'[f] = moved
        /\ \A g \in Files : g # f => file'[g] = file[g]
    BY <1>1, <1>4, <2>1 DEF FuseInv, Typed
  <2> HIDE DEF moved
  <2>3. /\ inode' \in [Paths -> drawn \cup {Absent, None}]
        /\ inode'[p] = Absent /\ inode'[q] = f
        /\ \A r \in Paths : r # p /\ r # q => inode'[r] = inode[r]
    BY <1>1, <1>4 DEF UpdatePath, FuseInv, Typed
  <2>4. /\ saved' \in [Paths -> Data \cup {None}]
        /\ saved'[p] = None
        /\ saved'[q] # None => Readable(f) /\ ~OpenForWriting(f) /\ saved'[q] = file[f].data
        /\ \A r \in Paths : r # p /\ r # q => saved'[r] = saved[r]
    BY <1>1, <1>4, FileFacts DEF Moved, Readable, FuseInv, Typed
  <2>5. Typed'
    BY <1>1, <1>2, <2>2, <2>3, <2>4 DEF FuseInv, Typed
  <2>6. PathNamesItsFile'
    <3> SUFFICES ASSUME NEW r \in Paths, HasFile(r)' PROVE file'[inode'[r]].path = r
      BY DEF PathNamesItsFile
    <3>1. r # p
      BY <2>3, FileFacts DEF HasFile
    <3>2. CASE r = q
      BY <2>1, <2>2, <2>3, <3>2
    <3>3. CASE r # q
      <4>1. inode'[r] = inode[r] /\ inode[r] \in Files
        BY <2>3, <3>1, <3>3 DEF HasFile
      <4>2. HasFile(r)
        BY <1>1, <2>2, <4>1 DEF HasFile
      <4>3. file[inode[r]].path = r
        BY <4>2 DEF FuseInv, PathNamesItsFile
      <4>4. inode[r] # f
        BY <1>1, <3>1, <4>3
      <4> QED
        BY <2>2, <4>1, <4>3, <4>4
    <3> QED
      BY <3>2, <3>3
  <2>7. SavedInv'
    <3> SUFFICES ASSUME NEW r \in Paths, saved'[r] # None PROVE \E g \in Files : Holds(g, r)'
      BY DEF SavedInv
    <3>1. r # p
      BY <2>4
    <3>2. CASE r = q
      <4>1. file'[f] = [path |-> q, data |-> saved'[q]] /\ ~OpenForWriting(f)
        BY <2>1, <2>2, <2>4, <3>2 DEF Readable
      <4> QED
        BY <1>1, <1>2, <3>2, <4>1 DEF Holds, OpenForWriting
    <3>3. CASE r # q
      <4>1. saved'[r] = saved[r] /\ saved[r] # None
        BY <2>4, <3>1, <3>3
      <4>2. PICK g \in Files : Holds(g, r)
        BY <1>2, <4>1 DEF FuseInv, SavedInv
      <4>3. file[g].path = r
        BY <4>1, <4>2, HeldIsDrawn DEF FuseInv
      <4>4. file'[g] = file[g]
        BY <1>1, <2>2, <3>1, <4>3
      <4> QED
        BY <1>2, <4>1, <4>2, <4>4 DEF Holds
    <3> QED
      BY <3>2, <3>3
  <2>8. NoLostUpdate'
    <3>1. \A g \in drawn : file'[g] \in FileRec =>
            file[g] \in FileRec /\ file'[g].data = file[g].data
      BY <2>1, <2>2 DEF FuseInv, Typed
    <3> QED
      BY <1>3, <3>1, BuffersAgree DEF FuseInv
  <2> QED
    BY <2>5, <2>6, <2>7, <2>8 DEF FuseInv
<1>5. CASE /\ UNCHANGED file \/ Remove(f)
           /\ UNCHANGED inode
           /\ saved' = [saved EXCEPT ![p] = None]
  <2>1. /\ file' \in [Files -> {Absent} \cup FileRec \cup Broken]
        /\ \A g \in Files : file'[g] = file[g] \/ (g = f /\ file'[g] = Absent)
    BY <1>1, <1>5 DEF Remove, FuseInv, Typed
  <2>2. /\ saved' \in [Paths -> Data \cup {None}] /\ saved'[p] = None
        /\ \A r \in Paths : r # p => saved'[r] = saved[r]
    BY <1>5 DEF FuseInv, Typed
  <2>3. Typed'
    BY <1>1, <1>2, <1>5, <2>1, <2>2 DEF FuseInv, Typed
  <2>4. PathNamesItsFile'
    <3>1. \A g \in drawn : file'[g] # Absent => file[g] # Absent /\ file'[g].path = file[g].path
      BY <2>1 DEF FuseInv, Typed
    <3> QED
      BY <1>5, <3>1, PathsStay DEF FuseInv
  <2>5. SavedInv'
    <3>1. ASSUME NEW r \in Paths, saved'[r] # None, NEW g \in Files, Holds(g, r)
          PROVE  file'[g] = file[g]
      <4>1. r # p /\ saved[r] # None
        BY <2>2, <3>1
      <4>2. file[g].path = r
        BY <3>1, <4>1, HeldIsDrawn DEF FuseInv
      <4> QED
        BY <1>1, <2>1, <4>1, <4>2
    <3> QED
      BY <1>2, <2>2, <3>1, SavedStays DEF FuseInv
  <2>6. NoLostUpdate'
    <3>1. \A g \in drawn : file'[g] \in FileRec => file'[g] = file[g]
      BY <2>1, FileFacts DEF FuseInv, Typed
    <3> QED
      BY <1>3, <3>1, BuffersAgree DEF FuseInv
  <2> QED
    BY <2>3, <2>4, <2>5, <2>6 DEF FuseInv
<1> QED
  BY <1>4, <1>5 DEF Rename

\* A restart closes every handle, and a commit under way loses its path at most.
LEMMA RestartStep == FuseInv /\ Restart => FuseInv'
<1> SUFFICES ASSUME FuseInv, Restart PROVE FuseInv'
  OBVIOUS
<1>1. /\ \A h \in Handles : handle'[h] = Closed /\ ~handle'[h].open
      /\ \A p \in Paths : inode'[p] = Absent
      /\ job' = NoJob /\ UNCHANGED <<file, drawn>>
  BY FileFacts DEF Restart
<1>2. \A p \in Paths : saved'[p] # None => /\ saved'[p] = saved[p]
                                           /\ ~(job.step = "import" /\ handle[job.on].path = p)
  BY FileFacts DEF Restart, Idle, FuseInv, Typed
<1>3. saved' \in [Paths -> Data \cup {None}]
  BY DEF Restart, FuseInv, Typed
<1>4. Typed'
  BY <1>1, <1>3 DEF Restart, FuseInv, Typed
<1>5. PathNamesItsFile'
  BY <1>1, PathsStay DEF FuseInv, Typed
<1>6. SavedInv'
  BY <1>1, <1>2, SavedStays DEF FuseInv
<1>7. NoLostUpdate'
  BY <1>1 DEF NoLostUpdate
<1> QED
  BY <1>4, <1>5, <1>6, <1>7 DEF FuseInv

-----------------------------------------------------------------------------
(***************************************************************************)
(* The theorems.                                                           *)
(***************************************************************************)
\* A step that changes nothing keeps the invariant.
LEMMA FuseStutter == FuseInv /\ UNCHANGED vars => FuseInv'
<1> SUFFICES ASSUME FuseInv, UNCHANGED vars PROVE FuseInv'
  OBVIOUS
<1>1. OnlyCloses /\ UNCHANGED <<file, drawn, inode, handle, job, saved>>
  BY DEF OnlyCloses, FuseInv, Typed, vars
<1>2. Typed'
  BY <1>1 DEF FuseInv, Typed
<1>3. PathNamesItsFile'
  BY <1>1, PathsStay DEF FuseInv
<1>4. SavedInv'
  BY <1>1, SavedStays DEF FuseInv
<1>5. NoLostUpdate'
  BY <1>1, BuffersAgree DEF FuseInv, Typed
<1> QED
  BY <1>2, <1>3, <1>4, <1>5 DEF FuseInv

\* Every step of the file system keeps the invariant.
LEMMA FuseStep == FuseInv /\ [Next]_vars => FuseInv'
<1> SUFFICES ASSUME FuseInv, [Next]_vars PROVE FuseInv'
  OBVIOUS
<1>1. CASE Callback
  <2>1. CASE Refresh
    BY <2>1, RefreshStep
  <2>2. ASSUME NEW h \in Handles, NEW p \in Paths, Open(p, h) \/ Create(p, h) PROVE FuseInv'
    BY <2>2, OpenStep, CreateStep
  <2>3. ASSUME NEW h \in Handles, NEW n \in Positions, NEW b \in Blocks, Write(h, n, b)
        PROVE  FuseInv'
    BY <2>3, WriteStep
  <2>4. ASSUME NEW h \in Handles, NEW n \in Sizes, SetEndOfFile(h, n) PROVE FuseInv'
    BY <2>4, SetEndOfFileStep
  <2>5. ASSUME NEW h \in Handles, Fsync(h) \/ Release(h) PROVE FuseInv'
    BY <2>5, SyncStep DEF Fsync, Release
  <2>6. ASSUME NEW p \in Paths, Unlink(p) PROVE FuseInv'
    BY <2>6, UnlinkStep
  <2>7. ASSUME NEW p \in Paths, NEW q \in Paths, Rename(p, q) PROVE FuseInv'
    BY <2>7, RenameStep
  <2> QED
    BY <1>1, <2>1, <2>2, <2>3, <2>4, <2>5, <2>6, <2>7 DEF Callback
<1>2. CASE CommitDelete
  BY <1>2, CommitDeleteStep
<1>3. CASE CommitImport
  BY <1>3, CommitImportStep
<1>4. CASE Restart
  BY <1>4, RestartStep
<1>5. CASE UNCHANGED vars
  BY <1>5, FuseStutter
<1> QED
  BY <1>1, <1>2, <1>3, <1>4, <1>5 DEF Next

\* The invariant holds in every reachable state.
LEMMA FuseAlways == Spec => []FuseInv
  BY FuseInit, FuseStep, PTL DEF Spec

\* A path never leads to another file: the uuids in the inode table can be stale, but
\* one that is still in the vault is that of the file at the path.
THEOREM PathsAreRight == Spec => []PathNamesItsFile
<1>1. FuseInv => PathNamesItsFile
  BY DEF FuseInv
<1> QED
  BY <1>1, FuseAlways, PTL

\* What fsync or release reported as saved stays under its path until a call about that
\* path, whatever other handles, failed commits and restarts do.
THEOREM SavedStaysSaved == Spec => []SavedIsKept
<1>1. FuseInv => SavedIsKept
  BY DEF FuseInv, SavedInv, Holds, SavedIsKept
<1> QED
  BY <1>1, FuseAlways, PTL

\* A commit never overwrites what its buffer has not seen: the file it would replace
\* has, outside what the user touched, the blocks of the buffer.
THEOREM UpdatesAreSeen == Spec => []NoLostUpdate
<1>1. FuseInv => NoLostUpdate
  BY DEF FuseInv
<1> QED
  BY <1>1, FuseAlways, PTL

-----------------------------------------------------------------------------
(***************************************************************************)
(* The vault below.  The refinement is the identity on file: the catalogue *)
(* is what VaultFiles implements, and the file system asks no more of it.  *)
(***************************************************************************)
\* A deletion, complete or not, is a step of the catalogue.
LEMMA DeletionInCatalog ==
  ASSUME Typed, NEW f \in Files, file[f] # Absent, Remove(f) \/ DeleteFails(f)
  PROVE  [CatalogNext]_file
<1>1. file[f].path \in Paths
  BY FileFacts DEF Typed
<1>2. [path |-> file[f].path, data |-> Unreadable] \in Broken
  BY <1>1 DEF Broken
<1> QED
  BY <1>2 DEF DeleteFails, CatalogNext

\* The callbacks and the two halves of a commit, one at a time.
LEMMA FuseInCatalog == FuseInv /\ [Next]_vars => [CatalogNext]_file
<1> SUFFICES ASSUME FuseInv, [Next]_vars PROVE [CatalogNext]_file
  OBVIOUS
<1>1. Typed /\ drawn \subseteq Files
  BY DEF FuseInv, Typed
<1>2. CASE CommitDelete
  <2> DEFINE f == handle[job.on].uuid
  <2>1. f \in Files
    BY <1>1, <1>2, FileFacts DEF CommitDelete, Typed
  <2>2. CASE Remove(f)
    BY <1>1, <2>1, <2>2, DeletionInCatalog DEF Remove
  <2>3. CASE UNCHANGED file
    BY <2>3
  <2>4. CASE file[f] # Absent /\ DeleteFails(f)
    BY <1>1, <2>1, <2>4, DeletionInCatalog
  <2> QED
    BY <1>2, <2>2, <2>3, <2>4 DEF CommitDelete
<1>3. CASE CommitImport
  <2> DEFINE h == handle[job.on]
             new == [path |-> h.path, data |-> h.data]
  <2>1. PICK f \in Files \ drawn : Add(f, new) \/ UNCHANGED file
    BY <1>3 DEF CommitImport
  <2>2. h \in HandleRec
    BY <1>1, <1>3, HandleFacts DEF CommitImport
  <2>3. new \in FileRec
    BY <2>2 DEF HandleRec, FileRec
  <2> HIDE DEF new
  <2> QED
    BY <2>1, <2>3 DEF CatalogNext
<1>4. ASSUME NEW p \in Paths, Unlink(p) PROVE [CatalogNext]_file
  <2>1. inode[p] \in Files /\ file[inode[p]] # Absent
    BY <1>4 DEF Unlink, HasFile
  <2>2. Remove(inode[p]) \/ DeleteFails(inode[p])
    BY <1>4 DEF Unlink
  <2> QED
    BY <1>1, <2>1, <2>2, DeletionInCatalog
<1>5. ASSUME NEW p \in Paths, NEW q \in Paths, Rename(p, q) PROVE [CatalogNext]_file
  <2> DEFINE f == inode[p]
  <2>1. f \in Files /\ file[f] # Absent
    BY <1>5 DEF Rename, HasFile
  <2>2. CASE file' = [file EXCEPT ![f].path = q]
    <3> DEFINE r == [file[f] EXCEPT !.path = q]
    <3>1. file' = [file EXCEPT ![f] = r]
      BY <2>2
    <3>2. CASE file[f] \in FileRec
      <4>1. r \in FileRec
        BY <3>2 DEF FileRec
      <4> QED
        BY <2>1, <3>1, <3>2, <4>1 DEF CatalogNext, Alter
    <3>3. CASE file[f] \in Broken
      <4>1. r \in Broken
        BY <3>3 DEF Broken
      <4> QED
        BY <2>1, <3>1, <4>1 DEF CatalogNext, Spoil
    <3> QED
      BY <1>1, <2>1, <3>2, <3>3 DEF Typed
  <2>3. CASE Remove(f)
    BY <2>1, <2>3 DEF CatalogNext
  <2> QED
    BY <1>5, <2>2, <2>3 DEF Rename
<1>6. ASSUME Refresh \/ Restart \/ UNCHANGED vars \/
             \E h \in Handles :
               \/ \E p \in Paths : Open(p, h) \/ Create(p, h)
               \/ \E n \in Positions, b \in Blocks : Write(h, n, b)
               \/ \E n \in Sizes : SetEndOfFile(h, n)
               \/ Fsync(h) \/ Release(h)
      PROVE  UNCHANGED file
  BY <1>6 DEF Refresh, Restart, vars, Open, Create, Write, SetEndOfFile, Change, Fsync, Release, Sync
<1> QED
  BY <1>2, <1>3, <1>4, <1>5, <1>6 DEF Next, Callback

\* What the file system does to the files of a vault is what files.rs can do, one file at
\* a time: each callback, also one that fails or dies half way, is a few steps of
\* the catalogue, and none needs a file to change in a way the vault does not offer.
THEOREM FuseUsesTheCatalog == Spec => CatalogSpec
<1>1. Init => CatalogInit
  <2> SUFFICES ASSUME Init PROVE CatalogInit
    OBVIOUS
  <2>1. MaxLength \in 0..MaxLength /\ [n \in Positions |-> 0] \in [1..MaxLength -> Blocks \cup {0}]
    BY DataFacts DEF Positions
  <2>2. [n \in Positions |-> 0] \in Data
    BY <2>1, DataFacts
  <2>3. [path : Paths, data : {[n \in Positions |-> 0]}] \subseteq FileRec
    BY <2>2 DEF FileRec
  <2> QED
    BY <2>3 DEF Init, CatalogInit
<1> QED
  BY <1>1, FuseAlways, FuseInCatalog, PTL DEF Spec, CatalogSpec
=============================================================================

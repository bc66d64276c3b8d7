---------------------------- MODULE FuseHandler ----------------------------
(***************************************************************************)
(* The FUSE file system (crates/vfs/src/fuse.rs): the inode table, open    *)
(* handles with their write buffers, and the files of the vault, which     *)
(* are those of FileCatalog.                                               *)
(*                                                                         *)
(* fuser calls one callback at a time (&mut self).  The commit of a write  *)
(* buffer, delete_file and then import_bytes, is two steps here (job): it  *)
(* can fail, and the process can die, between them.  Directories are part  *)
(* of a path, and contents are short sequences of blocks, 0 being the fill *)
(* of resize.  Levels, attributes, read-only mounts and the locks, which   *)
(* one thread never waits for, are left out; so is the chunk cache, which  *)
(* no callback fills.                                                      *)
(***************************************************************************)
EXTENDS Integers, Sequences

CONSTANTS
  Files, Paths,
  Blocks,      \* what a program can write
  MaxLength,   \* bound on a file's length, in blocks
  Sizes,       \* the lengths a program truncates or extends a file to
  Handles,     \* handle ids
  Absent, Unreadable,
  None         \* no uuid, no content, no handle

ASSUME BlockAssumption == 
  0 \notin Blocks /\ MaxLength \in Nat \ {0} /\ Sizes \subseteq 0..MaxLength

VARIABLES
  file,     \* the vault
  drawn,    \* uuids drawn so far
  inode,    \* the uuid InodeTable has for each path
  handle,   \* open handles, with their write buffers
  job,      \* the commit under way: its handle, callback and next step
  saved     \* the content last reported as saved at a path; None where nothing
            \* is promised

vars == <<file, drawn, inode, handle, job, saved>>

Positions == 1..MaxLength
Data      == UNION {[1..n -> Blocks \cup {0}] : n \in 0..MaxLength}
FileRec   == [path : Paths, data : Data]
Broken    == [path : Paths, data : {Unreadable}]

ASSUME FileAssumption ==
  /\ Absent # None /\ {Absent, None} \cap Files = {}
  /\ Absent \notin FileRec \cup Broken /\ Unreadable \notin Data

INSTANCE FileCatalog WITH Entries <- FileRec, Spoiled <- Broken

NoJob  == [on |-> None, by |-> None, step |-> "idle"]
Closed == [open |-> FALSE]
Idle   == job = NoJob

\* A block of a content; None beyond its end.
BlockAt(data, n) == IF n <= Len(data) THEN data[n] ELSE None

-----------------------------------------------------------------------------
(***************************************************************************)
(* Inode table and vault, as the callbacks read them.                      *)
(***************************************************************************)
\* list_files: what has a path in the metadata, readable or not.
ListedAt(p) == {f \in Files : file[f] # Absent /\ file[f].path = p}

Readable(f) == f \in Files /\ file[f] \in FileRec

\* refresh_inodes: an entry for every listed path the table does not have; those
\* it has keep their uuid.
Refresh ==
  LET new == {p \in Paths : inode[p] = Absent /\ ListedAt(p) # {}} IN
  /\ Idle
  /\ new # {}
  /\ \E f \in [new -> Files] :
       /\ \A p \in new : f[p] \in ListedAt(p)
       /\ inode' = [p \in Paths |-> IF p \in new THEN f[p] ELSE inode[p]]
  /\ UNCHANGED <<file, drawn, handle, job, saved>>

Init ==
  /\ file \in [Files -> {Absent} \cup [path : Paths, data : {[n \in Positions |-> 0]}]]
  /\ \A f, g \in Files : file[f] # Absent /\ file[g] # Absent /\ f # g
                           => file[f].path # file[g].path
  /\ drawn = {f \in Files : file[f] # Absent}
  /\ inode = [p \in Paths |-> Absent]
  /\ handle = [h \in Handles |-> Closed]
  /\ job = NoJob
  /\ saved = [p \in Paths |-> IF ListedAt(p) = {} THEN None
                              ELSE file[CHOOSE f \in Files : f \in ListedAt(p)].data]

-----------------------------------------------------------------------------
(***************************************************************************)
(* Opening, writing, truncating.                                           *)
(***************************************************************************)
\* blind and touched are history: whether open could not read the file, and the
\* positions the user changed since then, or since the last fsync.
NewHandle(h, path, uuid, data, isNew, blind) ==
  handle' = [handle EXCEPT ![h] =
    [open |-> TRUE, path |-> path, uuid |-> uuid, data |-> data,
     modified |-> isNew, isNew |-> isNew, blind |-> blind, touched |-> {}]]

\* Open for writing, of the inode the kernel knows the path by.  What cannot be
\* read, for lack of a uuid, for a stale one or for an I/O error, is taken for an
\* empty file (unwrap_or_default).
Open(p, h) ==
  /\ Idle
  /\ inode[p] # Absent
  /\ ~handle[h].open
  /\ \/ Readable(inode[p]) /\ NewHandle(h, p, inode[p], file[inode[p]].data, FALSE, FALSE)
     \/ NewHandle(h, p, inode[p], <<>>, FALSE, TRUE)
  /\ UNCHANGED <<file, drawn, inode, job, saved>>

\* The kernel calls create after a lookup found nothing, refreshing the table.
KernelFindsNothing(p) == inode[p] = Absent /\ ListedAt(p) = {}

Create(p, h) ==
  /\ Idle
  /\ KernelFindsNothing(p)
  /\ ~handle[h].open
  /\ inode' = [inode EXCEPT ![p] = None]
  /\ NewHandle(h, p, None, <<>>, TRUE, FALSE)
  /\ UNCHANGED <<file, drawn, job, saved>>

\* Mutated form: the buffer is resized to the end of what is written.
WriteAt_Resized(data, n, b) ==
  [k \in 1..n |-> IF k = n THEN b ELSE IF k <= Len(data) THEN data[k] ELSE 0]

\* WriteBuffer::write_at, one block; a gap before it is filled with zeros.
WriteAt(data, n, b) ==
  [k \in 1..(IF n > Len(data) THEN n ELSE Len(data)) |->
     IF k = n THEN b ELSE IF k <= Len(data) THEN data[k] ELSE 0]

\* write and truncate change the handle's buffer alone.
Change(h, data, positions) ==
  /\ Idle
  /\ handle' = [handle EXCEPT ![h].data = data, ![h].modified = TRUE,
                              ![h].touched = @ \cup positions]
  /\ UNCHANGED <<file, drawn, inode, job, saved>>

Write(h, n, b) ==
  /\ handle[h].open
  /\ Change(h, WriteAt(handle[h].data, n, b),
            {n} \cup {k \in Positions : Len(handle[h].data) < k /\ k < n})

\* setattr with a size and a handle; without a handle it changes nothing, and
\* reports the size asked for all the same.
SetEndOfFile(h, n) ==
  /\ handle[h].open
  /\ Change(h, [k \in 1..n |-> IF k <= Len(handle[h].data) THEN handle[h].data[k] ELSE 0],
            {k \in Positions : k > n \/ k > Len(handle[h].data)})

-----------------------------------------------------------------------------
(***************************************************************************)
(* fsync and release: commit_write_buffer.  release removes the handle     *)
(* before it commits, and the kernel drops its error.                      *)
(***************************************************************************)
Finish(h, by) ==
  /\ job' = NoJob
  /\ handle' = [handle EXCEPT ![h] = IF by = "release" THEN Closed ELSE @]

Sync(h, by) ==
  /\ Idle
  /\ handle[h].open
  /\ IF handle[h].modified
     THEN /\ job' = [on |-> h, by |-> by, step |->
                       IF handle[h].uuid # None /\ ~handle[h].isNew
                       THEN "delete" ELSE "import"]
          /\ UNCHANGED handle
     ELSE Finish(h, by)
  /\ UNCHANGED <<file, drawn, inode, saved>>

Fsync(h)   == Sync(h, "fsync")
Release(h) == Sync(h, "release")

\* The error is returned; nothing is promised of the path once the vault changed.
FailCommit(changed) ==
  /\ Finish(job.on, job.by)
  /\ saved' = IF changed THEN [saved EXCEPT ![handle[job.on].path] = None] ELSE saved
  /\ UNCHANGED inode

\* delete_file stops half way: nothing happened yet, or the blob is gone, or the
\* metadata as well, after which no call finds the file.
DeleteFails(f) ==
  \/ UNCHANGED file
  \/ Spoil(f, [path |-> file[f].path, data |-> Unreadable])
  \/ Remove(f)

CommitDelete ==
  /\ job.step = "delete"
  /\ LET f == handle[job.on].uuid IN
     \/ /\ Remove(f)
        /\ job' = [job EXCEPT !.step = "import"]
        /\ UNCHANGED <<handle, inode, saved>>
     \/ /\ file[f] = Absent
        /\ UNCHANGED file
        /\ FailCommit(FALSE)
     \/ /\ file[f] # Absent
        /\ DeleteFails(f)
        /\ FailCommit(TRUE)
  /\ UNCHANGED drawn

\* import_bytes under a fresh uuid, which fsync records in the handle.  is_new_file
\* stays as it was.  A failed import leaves nothing that is listed, or, when
\* only the keystore was not saved, the file.
CommitImport ==
  /\ job.step = "import"
  /\ \E f \in Files \ drawn :
       LET h == handle[job.on]
           new == [path |-> h.path, data |-> h.data] IN
       /\ drawn' = drawn \cup {f}
       /\ \/ /\ Add(f, new)
             /\ job' = NoJob
             /\ handle' = [handle EXCEPT ![job.on] =
                             IF job.by = "release" THEN Closed
                             ELSE [@ EXCEPT !.uuid = f, !.modified = FALSE,
                                            !.touched = {}, !.blind = FALSE]]
             /\ saved' = [saved EXCEPT ![h.path] = h.data]
             /\ UNCHANGED inode
          \/ /\ Add(f, new) \/ UNCHANGED file
             /\ FailCommit(TRUE)

-----------------------------------------------------------------------------
(***************************************************************************)
(* unlink and rename work on the uuid in the table, which may be missing   *)
(* or stale: they fail then.                                               *)
(***************************************************************************)
RemoveInode(p) == inode' = [inode EXCEPT ![p] = Absent]

\* Mutated form: the old path keeps its inode.
UpdatePath_Copied(p, q) == inode' = [inode EXCEPT ![q] = inode[p]]

\* InodeTable::update_path; the inode the new path had cannot be reached any more.
UpdatePath(p, q) == inode' = [inode EXCEPT ![q] = inode[p], ![p] = Absent]

\* What unlink and rename find at a path: not an inode without a uuid.
HasFile(p) == inode[p] \in Files /\ file[inode[p]] # Absent

Unlink(p) ==
  /\ Idle
  /\ HasFile(p)
  /\ \/ Remove(inode[p]) /\ RemoveInode(p)
     \/ DeleteFails(inode[p]) /\ UNCHANGED inode
  /\ saved' = [saved EXCEPT ![p] = None]
  /\ UNCHANGED <<drawn, handle, job>>

\* A handle that has the file open for writing keeps the old path, and its commit
\* brings the file back there.
OpenForWriting(f) == \E h \in Handles : handle[h].open /\ handle[h].uuid = f

Moved(f, p, q) ==
  [saved EXCEPT ![p] = None, 
                ![q] = IF Readable(f) /\ ~OpenForWriting(f) THEN file[f].data ELSE None]

\* Mutated form: only the table is changed.
Rename_TableOnly(p, q) ==
  LET f == inode[p] IN
  /\ Idle /\ p # q
  /\ Readable(f)
  /\ UpdatePath(p, q)
  /\ saved' = Moved(f, p, q)
  /\ UNCHANGED <<file, drawn, handle, job>>

\* rename_file within a directory, move_file between two.  Whatever is at the new
\* path stays in the vault.
Rename(p, q) ==
  LET f == inode[p] IN
  /\ Idle /\ p # q
  /\ HasFile(p)
  /\ \/ /\ file' = [file EXCEPT ![f].path = q]
        /\ UpdatePath(p, q)
        /\ saved' = Moved(f, p, q)
     \/ /\ UNCHANGED file \/ Remove(f)  \* its metadata is torn
        /\ UNCHANGED inode
        /\ saved' = [saved EXCEPT ![p] = None]
  /\ UNCHANGED <<drawn, handle, job>>

\* The process dies, or the file system is unmounted: only the vault is left.
Restart ==
  /\ \E p \in Paths : inode[p] # Absent
  /\ inode' = [p \in Paths |-> Absent]
  /\ handle' = [h \in Handles |-> Closed]
  /\ job' = NoJob
  /\ saved' = IF Idle THEN saved ELSE [saved EXCEPT ![handle[job.on].path] = None]
  /\ UNCHANGED <<file, drawn>>

Callback ==
  \/ Refresh
  \/ \E h \in Handles :
       \/ \E p \in Paths : Open(p, h) \/ Create(p, h)
       \/ \E n \in Positions, b \in Blocks : Write(h, n, b)
       \/ \E n \in Sizes : SetEndOfFile(h, n)
       \/ Fsync(h) \/ Release(h)
  \/ \E p \in Paths : Unlink(p) \/ \E q \in Paths : Rename(p, q)

Next == Callback \/ CommitDelete \/ CommitImport \/ Restart

Spec == Init /\ [][Next]_vars

-----------------------------------------------------------------------------
(***************************************************************************)
(* Properties.                                                             *)
(***************************************************************************)

\* A path never leads to another file: as long as the uuid in its inode is in the
\* vault and listed, that file is the one at the path.
PathNamesItsFile ==
  \A p \in Paths : HasFile(p) => file[inode[p]].path = p

\* What fsync or release reported as saved stays in the vault, under its path, until
\* a call about that path changes it: two handles on one file, stale uuids
\* and failed commits of others do not destroy it.  (Between the delete and the
\* import of a commit it is gone; see CommitIsAtomic.)
SavedIsKept ==
  \A p \in Paths : saved[p] # None /\ ~(job.step = "import" /\ handle[job.on].path = p) =>
    \E f \in Files : file[f] = [path |-> p, data |-> saved[p]]

\* Nobody's changes are overwritten by a buffer filled before them: while the file
\* a commit would replace exists, the buffer agrees with it wherever the
\* handle's user changed nothing, provided open could read the file.
NoLostUpdate ==
  \A h \in Handles : handle[h].open /\ ~handle[h].blind /\ Readable(handle[h].uuid) =>
    \A n \in Positions \ handle[h].touched :
      BlockAt(handle[h].data, n) = BlockAt(file[handle[h].uuid].data, n)

\* The write buffer is documented as "accumulating writes before atomic commit": a
\* commit leaves the old content or the new one at its path, also when it
\* fails or is cut short.  Known to be violated: the old file is deleted first.
CommitIsAtomic ==
  [][\A h \in Handles :
       handle[h].open /\ Readable(handle[h].uuid) /\ file[handle[h].uuid].path = handle[h].path
       /\ job # NoJob /\ job.on = h /\ job' = NoJob
         => \E f \in Files : file'[f] \in
              {file[handle[h].uuid], [path |-> handle[h].path, data |-> handle[h].data]}]_vars
=============================================================================

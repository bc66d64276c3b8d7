----------------------------- MODULE TempFiles -----------------------------
(***************************************************************************)
(* Decrypted copies of a vault's files, made so that another application   *)
(* can show them (crates/core/src/tempfile.rs).  A TempFileManager keeps   *)
(* track of those it made; all managers share one directory.  Any call may *)
(* fail at the file system.                                                *)
(***************************************************************************)
CONSTANTS Copies  \* the copies that can be made, one for each file

VARIABLES
  manager,  \* there is a TempFileManager
  tracked,  \* the copies in its map
  temp,     \* the copies on disk
  dir,      \* the shared directory exists
  left      \* history: copies a failed call, or the end of the process, left behind

tempVars == <<manager, tracked, temp, dir, left>>

TempTypeOK ==
  /\ manager \in BOOLEAN /\ dir \in BOOLEAN
  /\ tracked \in SUBSET Copies /\ temp \in SUBSET Copies /\ left \in SUBSET Copies
  /\ temp # {} => dir

\* A process starts; copies of earlier ones are still on disk.
TempInit ==
  /\ manager = FALSE /\ tracked = {}
  /\ temp = {} /\ left = {}
  /\ dir = FALSE

HasTempFile(f) == f \in tracked \cap temp

\* open_in_application: a copy that is there is opened again.  The copy enters the
\* map when it has been written and synced.
OpenInApplication(f) ==
  /\ manager
  /\ \/ HasTempFile(f) /\ UNCHANGED tempVars
     \/ /\ ~HasTempFile(f) /\ dir
        /\ temp' = temp \cup {f}
        /\ \/ tracked' = tracked \cup {f} /\ left' = left \ {f}
           \/ tracked' = tracked /\ left' = left \cup {f}
        /\ UNCHANGED <<manager, dir>>

\* cleanup_all: the map is emptied, every copy overwritten and removed (rest is what
\* could not be), and the directory with them if it is empty.
CleanupAll(rest) ==
  /\ temp \ tracked \subseteq rest /\ rest \subseteq temp
  /\ tracked' = {}
  /\ temp' = rest
  /\ left' = (left \cap rest) \cup (rest \cap tracked)
  /\ dir' = (dir /\ rest # {})

\* The manager is dropped.
DropManager ==
  /\ manager' = FALSE
  /\ IF manager THEN \E rest \in SUBSET temp : CleanupAll(rest)
     ELSE UNCHANGED <<tracked, temp, dir, left>>

\* TempFileManager::new, and its value replaces the old manager, whose drop clears
\* the directory that new has just found or made.
ReplaceManager ==
  \/ /\ manager' = TRUE
     /\ IF manager THEN \E rest \in SUBSET temp : CleanupAll(rest)
        ELSE dir' = TRUE /\ UNCHANGED <<tracked, temp, left>>
  \/ ~dir /\ UNCHANGED tempVars  \* the directory cannot be made

\* The process ends without cleaning up.
LoseManager ==
  /\ manager' = FALSE /\ tracked' = {}
  /\ left' = temp
  /\ UNCHANGED <<temp, dir>>
=============================================================================

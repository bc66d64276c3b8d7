----------------------------- MODULE VaultFiles -----------------------------
(***************************************************************************)
(* The files of a vault: one session, its unlocked keystores in memory,    *)
(* and the blob, metadata and keystore files on disk                       *)
(* (crates/core/src/files.rs, metadata.rs, blob.rs, session.rs).           *)
(*                                                                         *)
(* An operation is a sequence of statements (Plan), and a write is two     *)
(* steps, File::create, which truncates, and write_all: the process may    *)
(* die before any of them, and any of them may return an I/O error.  The   *)
(* functions take &mut VaultSession, so a session runs one at a time.      *)
(*                                                                         *)
(* A file's DEK is drawn once, at import, so a DEK entry is the file's     *)
(* uuid and a blob is absent, torn or whole.  Metadata is encrypted with   *)
(* the KEK of a level: its key is that level.  Wrapping, nonces, sizes and *)
(* timestamps are left out.                                                *)
(***************************************************************************)
EXTENDS FileStates, Integers, Sequences

CONSTANTS
  Files,         \* uuids a vault may draw
  Levels,        \* access levels with a keystore
  MasterLevels,  \* those whose password is the one open_vault is given
  Dirs, Names,   \* virtual directories and file names
  Operations     \* the operations this user calls

ASSUME LevelAssumption ==
  /\ Levels \subseteq Nat \ {0}
  /\ MasterLevels \subseteq Levels /\ MasterLevels # {}

VARIABLES
  blob,      \* blobs/<uuid>.blob
  meta,      \* metadata/<uuid>.meta
  store,     \* L<n>.keys.enc: the DEK entries of a level
  unlocked,  \* levels unlocked in the session; none without a session
  mem,       \* the DEK entries of the session's keystores
  job,       \* the operation under way
  drawn,     \* uuids drawn so far
  known,     \* what returned operations told the user of each file
  cut        \* how the last failed operation of a file ended: the operation
             \* that a crash or an I/O error cut off, "refused" if it failed
             \* with no such fault before, "failed" if there was one

disk    == <<blob, meta, store>>
session == <<unlocked, mem>>
ledger  == <<drawn, known, cut>>
vars    == <<disk, session, job, ledger>>

Path    == [dir : Dirs, name : Names]
MetaRec == [key : Levels, level : Levels, path : Path]
Entry   == [level : Levels, path : Path]

ASSUME FileAssumption ==
  /\ Absent # Torn
  /\ Absent \notin MetaRec /\ Torn \notin MetaRec
  /\ \A S \in SUBSET Files : S # Torn
  /\ Absent \notin Entry /\ Absent \notin Path /\ Absent \notin Files

\* The levels that files.rs looks through: 1..=3, whatever the vault has.
SearchedLevels == 1..3

-----------------------------------------------------------------------------
(***************************************************************************)
(* The statements of each operation, in the order of the code.             *)
(***************************************************************************)
\* Mutated form: the keystore is saved before the files it names.
ImportPlan_EntryFirst == <<"add_to", "persist_to", "blob", "meta">>

ImportPlan == <<"blob", "meta", "add_to", "persist_to">>

\* Mutated form: the entry is dropped in memory and the keystore not saved.
DeletePlan_NotSaved == <<"unblob", "unmeta", "remove_from">>

DeletePlan == <<"unblob", "unmeta", "remove_from", "persist_from">>

SetLevelPlan ==
  <<"add_to", "persist_to", "remove_from", "persist_from", "meta">>

\* Mutated form: the entry stays in the source keystore.
AssignPlan_KeepsSource == <<"add_to", "persist_to", "meta">>

AssignPlan ==
  <<"remove_from", "add_to", "persist_from", "persist_to", "meta">>

Plan == [import |-> ImportPlan, delete |-> DeletePlan, relocate |-> <<"meta">>,
         set_level |-> SetLevelPlan, assign |-> AssignPlan]

NoJob ==
  [op |-> "none", file |-> Absent, from |-> 0, to |-> 0, path |-> Absent,
   at |-> 0, half |-> FALSE, text |-> Absent]

Begin(op, f, from, to, path) ==
  /\ op \in Operations
  /\ job' = [NoJob EXCEPT !.op = op, !.file = f, !.from = from, !.to = to,
                          !.path = path, !.at = 1]

Ready == unlocked # {} /\ job = NoJob

At(step) == job # NoJob /\ Plan[job.op][job.at] = step

Told ==
  IF cut[job.file] # "none" THEN known
  ELSE [known EXCEPT ![job.file] =
          CASE job.op = "import"                -> [level |-> job.to, path |-> job.path]
            [] job.op = "delete"                -> Absent
            [] job.op = "relocate"              -> [@ EXCEPT !.path = job.path]
            [] job.op \in {"set_level", "assign"} -> [@ EXCEPT !.level = job.to]]

Advance ==
  /\ IF job.at < Len(Plan[job.op])
     THEN job' = [job EXCEPT !.at = @ + 1, !.half = FALSE] /\ UNCHANGED known
     ELSE job' = NoJob /\ known' = Told
  /\ UNCHANGED <<drawn, cut>>

\* The operation ends here; nothing is promised of its file any more.
EndsIn(error) ==
  /\ job' = NoJob
  /\ cut' = [cut EXCEPT ![job.file] = error]
  /\ known' = [known EXCEPT ![job.file] = Absent]
  /\ UNCHANGED drawn

CutOff == EndsIn(job.op)

-----------------------------------------------------------------------------
(***************************************************************************)
(* The session.                                                            *)
(***************************************************************************)
EmptyMemory == [l \in Levels |-> {}]

Init ==
  /\ blob = [f \in Files |-> "absent"]
  /\ meta = [f \in Files |-> Absent]
  /\ store = EmptyMemory
  /\ unlocked = {} /\ mem = EmptyMemory
  /\ job = NoJob
  /\ drawn = {} /\ cut = [f \in Files |-> "none"]
  /\ known = [f \in Files |-> Absent]

\* Mutated form: a keystore that does not parse is skipped.
OpenVault_TornSkipped ==
  /\ unlocked = {}
  /\ unlocked' = MasterLevels
  /\ mem' = [l \in Levels |-> IF l \in MasterLevels /\ store[l] # Torn
                              THEN store[l] ELSE {}]
  /\ UNCHANGED <<disk, job, ledger>>

\* open_vault parses every keystore file: a torn one fails the whole open.
OpenVault ==
  /\ unlocked = {}
  /\ \A l \in Levels : store[l] # Torn
  /\ unlocked' = MasterLevels
  /\ mem' = [l \in Levels |-> IF l \in MasterLevels THEN store[l] ELSE {}]
  /\ UNCHANGED <<disk, job, ledger>>

UnlockLevel(l) ==
  /\ Ready
  /\ l \notin unlocked
  /\ store[l] # Torn
  /\ unlocked' = unlocked \cup {l}
  /\ mem' = [mem EXCEPT ![l] = store[l]]
  /\ UNCHANGED <<disk, job, ledger>>

\* lock, close and drop all wipe the keystores.
Close ==
  /\ Ready
  /\ unlocked' = {} /\ mem' = EmptyMemory
  /\ UNCHANGED <<disk, job, ledger>>

-----------------------------------------------------------------------------
(***************************************************************************)
(* The operations: their checks, up to the first statement of the plan.    *)
(***************************************************************************)
\* The level in which files.rs finds a file: the lowest of 1..3 that holds it.
FoundAt(f, l) ==
  /\ l \in SearchedLevels \cap unlocked
  /\ f \in mem[l]
  /\ \A k \in SearchedLevels \cap unlocked : k < l => f \notin mem[k]

Readable(f, l) == meta[f] \notin {Absent, Torn} /\ meta[f].key = l

Import(f, l, p) ==
  /\ Ready
  /\ f \notin drawn
  /\ l \in unlocked
  /\ Begin("import", f, l, l, p)
  /\ drawn' = drawn \cup {f}
  /\ UNCHANGED <<disk, session, known, cut>>

Delete(f) ==
  /\ Ready
  /\ \E l \in Levels : FoundAt(f, l) /\ Begin("delete", f, l, l, Absent)
  /\ UNCHANGED <<disk, session, ledger>>

\* metadata::rename_file keeps the parent directory.
Rename(f, name) ==
  /\ Ready
  /\ \E l \in Levels :
       /\ FoundAt(f, l) /\ Readable(f, l)
       /\ Begin("relocate", f, l, l, [meta[f].path EXCEPT !.name = name])
  /\ UNCHANGED <<disk, session, ledger>>

Move(f, p) ==
  /\ Ready
  /\ \E l \in Levels :
       FoundAt(f, l) /\ Readable(f, l) /\ Begin("relocate", f, l, l, p)
  /\ UNCHANGED <<disk, session, ledger>>

SetAccessLevel(f, target) ==
  /\ Ready
  /\ target \in SearchedLevels \cap unlocked
  /\ \E l \in Levels :
       /\ FoundAt(f, l) /\ l # target
       /\ Begin("set_level", f, l, target, Absent)
  /\ UNCHANGED <<disk, session, ledger>>

\* find_file_level walks a HashMap: any unlocked level that holds the file.
AssignFileLevel(f, target) ==
  /\ Ready
  /\ target \in unlocked
  /\ \E l \in unlocked :
       f \in mem[l] /\ l # target /\ Begin("assign", f, l, target, Absent)
  /\ UNCHANGED <<disk, session, ledger>>

-----------------------------------------------------------------------------
(***************************************************************************)
(* The statements.                                                         *)
(***************************************************************************)
AddDek ==
  /\ At("add_to")
  /\ mem' = [mem EXCEPT ![job.to] = @ \cup {job.file}]
  /\ Advance
  /\ UNCHANGED <<disk, unlocked>>

RemoveDek ==
  /\ At("remove_from")
  /\ mem' = [mem EXCEPT ![job.from] = @ \ {job.file}]
  /\ Advance
  /\ UNCHANGED <<disk, unlocked>>

\* File::create: the file is there and empty; what goes in it is decided.
Truncated(text) ==
  /\ job' = [job EXCEPT !.half = TRUE, !.text = text]
  /\ UNCHANGED <<session, ledger>>

CreateBlob ==
  /\ At("blob") /\ ~job.half
  /\ blob' = [blob EXCEPT ![job.file] = "torn"]
  /\ Truncated(Absent)
  /\ UNCHANGED <<meta, store>>

\* write_all and sync_all; sync_all may report an error all the same.
FillBlob ==
  /\ At("blob") /\ job.half
  /\ blob' = [blob EXCEPT ![job.file] = "whole"]
  /\ Advance \/ CutOff
  /\ UNCHANGED <<meta, store, session>>

\* The KEK the old metadata is read with: set_access_level uses the target's,
\* under which it was never encrypted.
ReadKey == IF job.op = "set_level" THEN job.to ELSE job.from

NewText ==
  CASE job.op = "import"   -> [key |-> job.to, level |-> job.to, path |-> job.path]
    [] job.op = "relocate" -> [meta[job.file] EXCEPT !.path = job.path]
    [] OTHER -> [meta[job.file] EXCEPT !.key = job.to, !.level = job.to]

CreateMeta ==
  /\ At("meta") /\ ~job.half
  /\ job.op = "import" \/ Readable(job.file, ReadKey)
  /\ meta' = [meta EXCEPT ![job.file] = Torn]
  /\ Truncated(NewText)
  /\ UNCHANGED <<blob, store>>

FillMeta ==
  /\ At("meta") /\ job.half
  /\ meta' = [meta EXCEPT ![job.file] = job.text]
  /\ Advance \/ CutOff
  /\ UNCHANGED <<blob, store, session>>

RemoveBlob ==
  /\ At("unblob")
  /\ blob' = [blob EXCEPT ![job.file] = "absent"]
  /\ Advance
  /\ UNCHANGED <<meta, store, session>>

RemoveMeta ==
  /\ At("unmeta")
  /\ meta[job.file] # Absent
  /\ meta' = [meta EXCEPT ![job.file] = Absent]
  /\ Advance
  /\ UNCHANGED <<blob, store, session>>

\* The metadata to change does not decrypt, or the one to delete is missing:
\* the operation returns the error, and what it did so far stays done.
Refuse ==
  /\ \/ At("meta") /\ ~job.half /\ job.op # "import" /\ ~Readable(job.file, ReadKey)
     \/ At("unmeta") /\ meta[job.file] = Absent
  /\ EndsIn(IF cut[job.file] = "none" THEN "refused" ELSE "failed")
  /\ UNCHANGED <<disk, session>>

SavedLevel == IF At("persist_from") THEN job.from ELSE job.to

\* persist_keystore
CreateStore ==
  /\ At("persist_from") \/ At("persist_to")
  /\ ~job.half
  /\ store' = [store EXCEPT ![SavedLevel] = Torn]
  /\ Truncated(Absent)
  /\ UNCHANGED <<blob, meta>>

\* Mutated form: only the entry at hand is saved.
FillStore_OnlyThisFile ==
  /\ At("persist_from") \/ At("persist_to")
  /\ job.half
  /\ store' = [store EXCEPT ![SavedLevel] = mem[SavedLevel] \cap {job.file}]
  /\ Advance \/ CutOff
  /\ UNCHANGED <<blob, meta, session>>

FillStore ==
  /\ At("persist_from") \/ At("persist_to")
  /\ job.half
  /\ store' = [store EXCEPT ![SavedLevel] = mem[SavedLevel]]
  /\ Advance \/ CutOff
  /\ UNCHANGED <<blob, meta, session>>

\* A file cannot be created, written or removed; the error is returned.
IOError ==
  /\ job # NoJob
  /\ Plan[job.op][job.at] \notin {"add_to", "remove_from"}
  /\ CutOff
  /\ UNCHANGED <<disk, session>>

\* The process dies, or the drive is pulled.
Crash ==
  /\ unlocked # {}
  /\ unlocked' = {} /\ mem' = EmptyMemory
  /\ IF job = NoJob THEN UNCHANGED <<job, ledger>> ELSE CutOff
  /\ UNCHANGED disk

Call ==
  \E f \in Files :
    \/ \E l \in Levels, p \in Path : Import(f, l, p)
    \/ Delete(f)
    \/ \E n \in Names : Rename(f, n)
    \/ \E p \in Path : Move(f, p)
    \/ \E l \in Levels : SetAccessLevel(f, l) \/ AssignFileLevel(f, l)

Work ==
  \/ AddDek \/ RemoveDek \/ CreateBlob \/ FillBlob \/ CreateMeta \/ FillMeta
  \/ RemoveBlob \/ RemoveMeta \/ Refuse \/ CreateStore \/ FillStore

Next ==
  \/ OpenVault \/ Close \/ \E l \in Levels : UnlockLevel(l)
  \/ Call \/ Work \/ IOError \/ Crash

Spec == Init /\ [][Next]_vars

-----------------------------------------------------------------------------
(***************************************************************************)
(* Properties.                                                             *)
(***************************************************************************)

\* Every file on disk and every keystore in memory is one the code can write,
\* and no keystore stays in memory for a level that is not unlocked.
TypeOK ==
  /\ blob \in [Files -> {"absent", "torn", "whole"}]
  /\ meta \in [Files -> MetaRec \cup {Absent, Torn}]
  /\ store \in [Levels -> (SUBSET Files) \cup {Torn}]
  /\ unlocked \in SUBSET Levels
  /\ mem \in [Levels -> SUBSET Files]
  /\ \A l \in Levels \ unlocked : mem[l] = {}
  /\ known \in [Files -> Entry \cup {Absent}]
  /\ drawn \in SUBSET Files
  /\ cut \in [Files -> DOMAIN Plan \cup {"none", "refused", "failed"}]
  /\ job.at \in 0..5 /\ job.half \in BOOLEAN

Promised == {f \in Files : known[f] # Absent} \ {job.file}

\* An operation that ends in an error, wherever that happens, damages its own file
\* and at most the keystore it was writing: every other file the user was told
\* of keeps its blob, its metadata under the right key with the right path, and
\* its DEK in the keystore of its level (unless that one is torn) and no other.
DamageIsLocal ==
  \A f \in Promised :
    LET e == known[f] IN
    /\ blob[f] = "whole"
    /\ meta[f] = [key |-> e.level, level |-> e.level, path |-> e.path]
    /\ \A l \in Levels : store[l] # Torn => (f \in store[l] <=> l = e.level)

\* A session shows every such file at its level, whatever became of the
\* keystores on disk since they were unlocked.
SessionSeesPromised ==
  \A f \in Promised : \A l \in unlocked : f \in mem[l] <=> l = known[f].level

\* Nothing is left on disk of a file unless the user was told of it, or its
\* operation is under way or was cut off: import and delete leave no orphans.
NothingUnaccounted ==
  \A f \in Files :
    \/ blob[f] # "absent" \/ meta[f] # Absent
    \/ \E l \in Levels : store[l] # Torn /\ f \in store[l]
    => known[f] # Absent \/ cut[f] # "none" \/ f = job.file

\* An import that is cut off leaves a complete file or one that no keystore
\* names: the entry is saved after the blob and the metadata it stands for.
ImportAllOrNothing ==
  \A f \in Files \ {job.file} : \A l \in Levels :
    cut[f] = "import" /\ store[l] # Torn /\ f \in store[l]
      => blob[f] = "whole" /\ Readable(f, l)

\* Once delete_file has returned Ok nothing of the file comes back, neither in
\* this session, nor from a keystore file in a later one.
DeletedStaysDeleted ==
  [][\A f \in drawn :
       known[f] = Absent /\ cut[f] = "none" /\ f # job.file
         => /\ known'[f] = Absent
            /\ \A l \in Levels : f \notin mem'[l]]_vars

\* The levels whose keystore names a file, in the session or on disk, and those
\* whose keystore was torn when no session was left to save it again.
HeldAt(f) ==
  {l \in Levels : IF l \in unlocked THEN f \in mem[l]
                  ELSE store[l] # Torn /\ f \in store[l]}
TornLevels == {l \in Levels \ unlocked : store[l] = Torn}

\* The file as the session, or the next one, finds it.
Seen(f) ==
  CASE /\ blob[f] = "whole" /\ meta[f] \in MetaRec /\ meta[f].level = meta[f].key
       /\ meta[f].key \in HeldAt(f) \cup TornLevels /\ HeldAt(f) \subseteq {meta[f].key}
         -> [level |-> meta[f].key, path |-> meta[f].path]
    [] meta[f] = Absent /\ HeldAt(f) = {} -> Absent
    [] OTHER -> [level |-> 0, path |-> Absent]  \* nothing the catalogue knows

SeenFile ==
  [f \in Files |-> IF cut[f] # "none" THEN Torn
                   ELSE IF f = job.file THEN known[f] ELSE Seen(f)]

Catalog == INSTANCE FileCatalog
             WITH Entries <- Entry, Spoiled <- {Torn}, file <- SeenFile

\* The operations of files.rs implement the catalogue: read off the disk and the
\* session's memory, each takes effect in one step when it returns Ok, on its
\* own file, and one that fails spoils that file only.
ImplementsCatalog == Catalog!CatalogSpec

\* What VAULT_FORMAT.md 8.4 asks of file operations: whatever is cut off, the
\* next open finds every keystore whole.  Known to be violated (session.rs:762).
KeystoresAlwaysWhole == unlocked = {} => \A l \in Levels : store[l] # Torn

\* What set_access_level documents: the level that holds a file's DEK is the
\* one under which its metadata decrypts, with no fault anywhere.
EntryDecryptsMetadata ==
  job = NoJob /\ (\A f \in Files : cut[f] \in {"none", "refused"}) =>
    \A f \in Files : \A l \in Levels : f \in mem[l] => Readable(f, l)
=============================================================================

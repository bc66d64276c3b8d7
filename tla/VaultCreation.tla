--------------------------- MODULE VaultCreation ---------------------------
(***************************************************************************)
(* create_vault and delete_vault at one path (crates/core/src/vault.rs):   *)
(* the directories and files they make there in order, the rollback of an  *)
(* attempt that fails, and attempts that run at the same time, die half    *)
(* way or find what an earlier one left.                                   *)
(*                                                                         *)
(* A file is absent, torn (after File::create) or whole, and then it is    *)
(* the number of the attempt that wrote it.  Keys and contents are left    *)
(* out; deriving a key is one of the things that may fail between writes.  *)
(***************************************************************************)
EXTENDS FileStates, Integers, Sequences, FiniteSets, SequencesExt

CONSTANTS
  Creators,     \* processes that may create the vault
  LevelFiles,   \* L1.keys.enc, L2.keys.enc ... up to the most levels
  MaxAttempts   \* bound of the model on the attempts made

Dirs     == {"root", "keystores", "blobs", "metadata", "levels"}
Files    == {"header", "recovery", "config"} \cup Range(LevelFiles)
Attempts == 1..MaxAttempts

Parent(x) == CASE x \in Range(LevelFiles) -> "keystores"
               [] x = "config"            -> "levels"
               [] OTHER                   -> "root"

ASSUME CreationAssumption ==
  /\ MaxAttempts \in Nat
  /\ LevelFiles \in Seq(Range(LevelFiles)) /\ Len(LevelFiles) > 0
  /\ \A i, j \in 1..Len(LevelFiles) : LevelFiles[i] = LevelFiles[j] => i = j
  /\ Range(LevelFiles) \cap (Dirs \cup {"header", "recovery", "config", "look", "none"}) = {}
  /\ Absent \notin Attempts /\ Torn \notin Attempts /\ Absent # Torn

VARIABLES
  dirs,      \* the directories that exist
  file,      \* what each file holds
  attempt,   \* the attempt each creator is at
  attempts,  \* attempts made so far
  deleting,  \* delete_vault is under way
  built,     \* the attempt that returned Ok and was not deleted, with its levels
  history    \* how attempts and deletions have ended so far

creationVars == <<dirs, file, attempt, attempts, deleting, built, history>>

(***************************************************************************)
(* What an attempt does, in order.  tracked is created_dirs followed by    *)
(* created_files: no directory is pushed once a file has been.             *)
(***************************************************************************)
Plan(n) ==
  <<"look", "root", "keystores", "blobs", "metadata", "header">>
  \o SubSeq(LevelFiles, 1, n) \o <<"recovery", "levels", "config">>

NoAttempt == [number |-> 0, levels |-> 0, mode |-> "idle", at |-> 0,
              half |-> FALSE, tracked |-> <<>>]

NoneCreates == \A c \in Creators : attempt[c] = NoAttempt

CreationInit ==
  /\ dirs \in {{}, {"root"}}
  /\ file = [f \in Files |-> Absent]
  /\ attempt = [c \in Creators |-> NoAttempt]
  /\ attempts = 0 /\ deleting = FALSE /\ built = NoAttempt
  /\ history = {}

Step(c) == IF attempt[c].mode = "making" THEN Plan(attempt[c].levels)[attempt[c].at]
           ELSE "none"

Becomes(c, a) == attempt' = [attempt EXCEPT ![c] = a]

NextStep(c, made) ==
  Becomes(c, [attempt[c] EXCEPT !.at = @ + 1, !.half = FALSE, !.tracked = @ \o made])

Undoing(c) == Becomes(c, [attempt[c] EXCEPT !.mode = "undoing"])

Ends(c, how) == Becomes(c, NoAttempt) /\ history' = history \cup {how}

-----------------------------------------------------------------------------
\* The checks before anything is made: a header file is an existing vault.
Start(c, n) ==
  /\ attempt[c] = NoAttempt /\ ~deleting
  /\ file["header"] = Absent
  /\ attempts < MaxAttempts
  /\ attempts' = attempts + 1
  /\ Becomes(c, [NoAttempt EXCEPT !.number = attempts + 1, !.levels = n,
                                  !.mode = "making", !.at = 1])
  /\ UNCHANGED <<dirs, file, deleting, built, history>>

\* if !vault_path.exists(): the directory is made, and tracked, only then.
LookForRoot(c) ==
  /\ Step(c) = "look"
  /\ Becomes(c, [attempt[c] EXCEPT !.at = IF "root" \in dirs THEN 3 ELSE 2])
  /\ UNCHANGED <<dirs, file, attempts, deleting, built, history>>

\* create_dir_all does not mind one that has come into being since.
MakeRoot(c) ==
  /\ Step(c) = "root"
  /\ dirs' = dirs \cup {"root"}
  /\ NextStep(c, <<"root">>)
  /\ UNCHANGED <<file, attempts, deleting, built, history>>

\* Mutated form: create_dir_all, which takes a directory that exists.
MakeDir_Existing(c) ==
  /\ Step(c) \in {"keystores", "blobs", "metadata"}
  /\ IF "root" \in dirs
     THEN dirs' = dirs \cup {Step(c)} /\ NextStep(c, <<Step(c)>>)
     ELSE Undoing(c) /\ UNCHANGED dirs
  /\ UNCHANGED <<file, attempts, deleting, built, history>>

\* fs::create_dir fails on a directory that exists, or without a parent.
MakeDir(c) ==
  /\ Step(c) \in {"keystores", "blobs", "metadata"}
  /\ IF "root" \in dirs /\ Step(c) \notin dirs
     THEN dirs' = dirs \cup {Step(c)} /\ NextStep(c, <<Step(c)>>)
     ELSE Undoing(c) /\ UNCHANGED dirs
  /\ UNCHANGED <<file, attempts, deleting, built, history>>

\* ensure_levels_dir; nobody tracks this directory.
EnsureLevelsDir(c) ==
  /\ Step(c) = "levels"
  /\ dirs' = dirs \cup {"root", "levels"}
  /\ NextStep(c, <<>>)
  /\ UNCHANGED <<file, attempts, deleting, built, history>>

\* File::create
CreateFile(c) ==
  /\ Step(c) \in Files /\ ~attempt[c].half
  /\ IF Parent(Step(c)) \in dirs
     THEN /\ file' = [file EXCEPT ![Step(c)] = Torn]
          /\ Becomes(c, [attempt[c] EXCEPT !.half = TRUE])
     ELSE Undoing(c) /\ UNCHANGED file
  /\ UNCHANGED <<dirs, attempts, deleting, built, history>>

\* write_all and sync_all; the file is tracked now, the configuration never.
FillFile(c) ==
  /\ Step(c) \in Files \ {"config"} /\ attempt[c].half
  /\ file' = [file EXCEPT ![Step(c)] = attempt[c].number]
  /\ NextStep(c, <<Step(c)>>)
  /\ UNCHANGED <<dirs, attempts, deleting, built, history>>

FillLevelsConfig(c) ==
  /\ Step(c) = "config" /\ attempt[c].half
  /\ file' = [file EXCEPT !["config"] = attempt[c].number]
  /\ built' = attempt[c]
  /\ Ends(c, "ok")
  /\ UNCHANGED <<dirs, attempts, deleting>>

\* A write, a directory, a key derivation or a cipher fails.
Fail(c) ==
  /\ attempt[c].mode = "making" /\ Step(c) # "look"
  /\ Undoing(c)
  /\ UNCHANGED <<dirs, file, attempts, deleting, built, history>>

\* generate_key, generate_salt and generate_nonce return with `?`: no cleanup.
FailRandom(c) ==
  /\ Step(c) = "header" /\ ~attempt[c].half
  /\ Ends(c, "error")
  /\ UNCHANGED <<dirs, file, attempts, deleting, built>>

Empty(d) ==
  /\ \A f \in Files : Parent(f) = d => file[f] = Absent
  /\ d = "root" => dirs \subseteq {"root"}

\* Mutated form: directories are removed with what is in them.
Undo_Recursive(c) ==
  /\ attempt[c].mode = "undoing" /\ attempt[c].tracked # <<>>
  /\ LET x == Last(attempt[c].tracked)
     IN  /\ dirs' = IF x = "root" THEN {} ELSE dirs \ {x}
         /\ file' = [f \in Files |->
                       IF f = x \/ Parent(f) = x \/ x = "root" THEN Absent ELSE file[f]]
  /\ Becomes(c, [attempt[c] EXCEPT !.tracked = Front(@)])
  /\ UNCHANGED <<attempts, deleting, built, history>>

\* cleanup, one entry: remove_dir refuses a directory that is not empty, and
\* errors are ignored.
Undo(c) ==
  /\ attempt[c].mode = "undoing" /\ attempt[c].tracked # <<>>
  /\ LET x == Last(attempt[c].tracked)
     IN  /\ dirs' = IF x \in Dirs /\ Empty(x) THEN dirs \ {x} ELSE dirs
         /\ file' = IF x \in Files THEN [file EXCEPT ![x] = Absent] ELSE file
  /\ Becomes(c, [attempt[c] EXCEPT !.tracked = Front(@)])
  /\ UNCHANGED <<attempts, deleting, built, history>>

GiveUp(c) ==
  /\ attempt[c].mode = "undoing" /\ attempt[c].tracked = <<>>
  /\ Ends(c, "error")
  /\ UNCHANGED <<dirs, file, attempts, deleting, built>>

\* The process dies, or the drive is pulled.
CrashCreation(c) ==
  /\ attempt[c] # NoAttempt
  /\ Ends(c, "crashed")
  /\ UNCHANGED <<dirs, file, attempts, deleting, built>>

\* delete_vault, not called while the vault is being created.
StartDelete ==
  /\ NoneCreates /\ ~deleting
  /\ file["header"] # Absent
  /\ deleting' = TRUE /\ built' = NoAttempt
  /\ history' = history \cup {"deleted"}
  /\ UNCHANGED <<dirs, file, attempt, attempts>>

\* remove_dir_all takes the entries of a directory in any order.
DeleteOne ==
  /\ deleting
  /\ \/ \E f \in Files : /\ file[f] # Absent
                         /\ file' = [file EXCEPT ![f] = Absent]
        /\ UNCHANGED dirs
     \/ \E d \in dirs : Empty(d) /\ dirs' = dirs \ {d}
        /\ UNCHANGED file
  /\ UNCHANGED <<attempt, attempts, deleting, built, history>>

\* All is gone; or an error or a crash ends it early.
EndDelete ==
  /\ deleting
  /\ deleting' = FALSE
  /\ UNCHANGED <<dirs, file, attempt, attempts, built, history>>

CreateVault(c) ==
  \/ \E n \in 1..Len(LevelFiles) : Start(c, n)
  \/ LookForRoot(c) \/ MakeRoot(c) \/ MakeDir(c) \/ EnsureLevelsDir(c)
  \/ CreateFile(c) \/ FillFile(c) \/ FillLevelsConfig(c)
  \/ Fail(c) \/ FailRandom(c) \/ Undo(c) \/ GiveUp(c)

CreationNext ==
  \/ \E c \in Creators : CreateVault(c) \/ CrashCreation(c)
  \/ StartDelete \/ DeleteOne \/ EndDelete

CreationSpec == CreationInit /\ [][CreationNext]_creationVars

-----------------------------------------------------------------------------
(***************************************************************************)
(* Properties.                                                             *)
(***************************************************************************)

\* Every variable has its type, no file lies outside its directory, and nothing
\* is left when the vault's own directory is gone.
CreationTypeOK ==
  /\ dirs \in SUBSET Dirs
  /\ file \in [Files -> Attempts \cup {Absent, Torn}]
  /\ \A f \in Files : file[f] # Absent => Parent(f) \in dirs
  /\ "root" \notin dirs => dirs = {}
  /\ attempts \in 0..MaxAttempts /\ deleting \in BOOLEAN
  /\ \A c \in Creators :
       /\ attempt[c].mode \in {"idle", "making", "undoing"}
       /\ attempt[c].number \in 0..attempts
       /\ Range(attempt[c].tracked) \subseteq Dirs \cup Files

Pieces(n) == {"header", "recovery", "config"} \cup Range(SubSeq(LevelFiles, 1, n))

\* "Existing vaults are never overwritten": once create_vault has returned Ok,
\* every piece of that vault stays as it was written until it is deleted, also
\* when other attempts began before it was finished, and roll back after.
CompletedStays ==
  built # NoAttempt =>
    /\ dirs = Dirs
    /\ \A f \in Pieces(built.levels) : file[f] = built.number

\* What a running attempt has made so far is still there: no rollback of
\* another one takes it away, and no other attempt writes over it.  (Only the
\* vault's own directory may go while it is empty.)
OwnPiecesStay ==
  \A c \in Creators : attempt[c].mode = "making" =>
    \A x \in Range(attempt[c].tracked) :
      /\ x \in Files => file[x] = attempt[c].number
      /\ x \in Dirs \ {"root"} => x \in dirs

\* What open_vault looks at is of one attempt: the keystores beside a whole
\* header were written by the attempt that wrote the header, whatever earlier
\* attempts and deletions that were cut short have left at the path.
OneVault ==
  file["header"] \in Attempts =>
    \A f \in Range(LevelFiles) : file[f] \in {Absent, Torn, file["header"]}

\* "If any step fails, all created files and directories are removed": when
\* attempts have only ever returned errors, there is nothing at the path but
\* the directory that may have been there before.  Known to be violated: "levels"
\* and torn files are not tracked.
RollbackIsComplete ==
  NoneCreates /\ history \subseteq {"error"} =>
    dirs \subseteq {"root"} /\ \A f \in Files : file[f] = Absent
=============================================================================

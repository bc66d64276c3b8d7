--------------------------- MODULE LevelPasswords ---------------------------
(***************************************************************************)
(* The passwords and keys of the access levels: change_level_password, the *)
(* recovery session, create_level and delete_level, with a session that    *)
(* may be open on the same vault meanwhile                                 *)
(* (crates/core/src/session.rs, access.rs, keystore.rs).                   *)
(*                                                                         *)
(* Each of them rewrites L<n>.keys.enc and then levels.enc, with           *)
(* File::create and write_all; the process may die before each step, and   *)
(* each may fail, which ends the call and nothing else.  They run on the   *)
(* GUI thread, one at a time, on the files: an open session keeps the      *)
(* keystores it read when it unlocked them.                                *)
(*                                                                         *)
(* A KEK is a number, drawn when its keystore is created.  A password's    *)
(* key is the password with the salt it was derived from: the header's, or *)
(* the random one of the level configuration.                              *)
(***************************************************************************)
EXTENDS FileStates, Integers, FiniteSets

CONSTANTS
  Levels,          \* level ids that may exist
  Original,        \* those created with the vault
  Passwords,
  Master,          \* the password of the header
  MinLevels,       \* MIN_LEVEL_COUNT
  MaxKek,          \* bound of the model on the KEKs drawn
  Places, Home     \* paths the vault may be reached at; where it was created

ASSUME LevelAssumption ==
  /\ IsFiniteSet(Levels) /\ Original \subseteq Levels
  /\ Master \in Passwords /\ Home \in Places
  /\ MinLevels \in Nat /\ MaxKek \in Nat /\ Cardinality(Original) <= MaxKek

VARIABLES
  verifies,  \* the header verifies: no failed attempt is recorded in it
  keystore,  \* keystore file of each level
  config,    \* .levels/levels.enc: an entry per level, or Torn
  place,     \* where the vault is mounted
  session,   \* the keystores unlocked in the open session
  job,       \* the call under way
  kekCount,  \* KEKs drawn so far
  created,   \* levels made by create_level
  told,      \* the password the last answer gave the user for each level
  unsaved    \* levels of the session whose keystore a write failed on since it was saved

vars == <<verifies, keystore, config, place, session, job, kekCount, created, told, unsaved>>
files == <<verifies, keystore, config, place>>

\* entries: the KEK under which the DEK entries are wrapped, 0 without any.
Keystore == [pw : Passwords, salt : {"header", "config"}, kek : 1..MaxKek,
             entries : 0..MaxKek]
\* kek: the one encrypted under the master key, 0 if none is stored.
LevelEntry == [hash : Passwords, kek : 0..MaxKek]

ASSUME ContentAssumption ==
  /\ Absent # Torn /\ Absent \notin Levels
  /\ {Absent, Torn} \cap Keystore = {} /\ Absent \notin LevelEntry
  /\ Torn \notin [Levels -> LevelEntry \cup {Absent}]

NoSession == [l \in Levels |-> Absent]

NoJob == [op |-> "none", level |-> Absent, old |-> Absent, new |-> Absent,
          step |-> "none", text |-> Absent]

Init ==
  /\ verifies = TRUE /\ place = Home
  /\ \E pw \in [Original -> Passwords], num \in [Original -> 1..Cardinality(Original)] :
       /\ \A k, l \in Original : k # l => num[k] # num[l]
       /\ keystore = [l \in Levels |->
            IF l \in Original
            THEN [pw |-> pw[l], salt |-> "header", kek |-> num[l], entries |-> 0]
            ELSE Absent]
       /\ config = [l \in Levels |->
            IF l \in Original THEN [hash |-> Master, kek |-> num[l]] ELSE Absent]
       /\ told = [l \in Levels |-> IF l \in Original THEN pw[l] ELSE Absent]
  /\ session = NoSession
  /\ job = NoJob
  /\ kekCount = Cardinality(Original)
  /\ created = {} /\ unsaved = {}

-----------------------------------------------------------------------------
(***************************************************************************)
(* Keys.                                                                   *)
(***************************************************************************)
\* load_and_unlock_keystore derives the key with the header's salt.
Opens(l, pw) ==
  /\ keystore[l] \notin {Absent, Torn}
  /\ keystore[l].pw = pw /\ keystore[l].salt = "header"

\* unlock_header
HeaderOpens(pw) == verifies /\ pw = Master

\* read_levels_config: the vault's path is part of what is authenticated.
ConfigReads == config # Torn /\ place = Home

HasEntry(l) == ConfigReads /\ config[l] # Absent

-----------------------------------------------------------------------------
(***************************************************************************)
(* The session.                                                            *)
(***************************************************************************)
Idle == job = NoJob

OpenVault(pw) ==
  /\ Idle /\ session = NoSession
  /\ \A l \in Levels : keystore[l] # Torn
  /\ HeaderOpens(pw)
  /\ \E l \in Levels : Opens(l, pw)
  /\ session' = [l \in Levels |-> IF Opens(l, pw) THEN keystore[l] ELSE Absent]
  /\ UNCHANGED <<files, job, kekCount, created, told, unsaved>>

\* A failed open is recorded in the header, which no longer verifies; a torn
\* keystore is an error that is not.
FailedOpen(pw) ==
  /\ Idle /\ session = NoSession
  /\ \/ ~HeaderOpens(pw)
     \/ \A l \in Levels : keystore[l] # Torn /\ ~Opens(l, pw)
  /\ verifies' = FALSE
  /\ UNCHANGED <<keystore, config, place, session, job, kekCount, created, told, unsaved>>

UnlockLevel(l, pw) ==
  /\ Idle /\ session # NoSession
  /\ session[l] = Absent /\ Opens(l, pw)
  /\ session' = [session EXCEPT ![l] = keystore[l]]
  /\ UNCHANGED <<files, job, kekCount, created, told, unsaved>>

Close ==
  /\ Idle /\ session # NoSession
  /\ session' = NoSession /\ unsaved' = {}
  /\ UNCHANGED <<files, job, kekCount, created, told>>

\* The drive is plugged in somewhere else.
Remount(p) ==
  /\ Idle /\ session = NoSession
  /\ place' = p
  /\ UNCHANGED <<verifies, keystore, config, session, job, kekCount, created, told, unsaved>>

-----------------------------------------------------------------------------
(***************************************************************************)
(* The calls, up to their first write.  text is the keystore to write.     *)
(***************************************************************************)
Call(op, l, old, new, step, text) ==
  job' = [op |-> op, level |-> l, old |-> old, new |-> new,
          step |-> step, text |-> text]

\* A file is imported at the level, or its last file deleted: the session's
\* own keystore is persisted, password and KEK as it read them.
PersistKeystore(l, hasFiles) ==
  /\ Idle /\ session[l] # Absent
  /\ LET ks == [session[l] EXCEPT !.entries = IF hasFiles THEN session[l].kek ELSE 0]
     IN  /\ session' = [session EXCEPT ![l] = ks]
         /\ Call("persist", l, Absent, Absent, "create_store", ks)
  /\ UNCHANGED <<files, kekCount, created, told, unsaved>>

ChangePassword(l, old, new) ==
  /\ Idle /\ Opens(l, old)
  /\ Call("change", l, old, new, "create_store", [keystore[l] EXCEPT !.pw = new])
  /\ UNCHANGED <<files, session, kekCount, created, told, unsaved>>

\* The recovery session has the master key; the KEK comes from the config.
ResetPassword(l, new) ==
  /\ Idle
  /\ keystore[l] \notin {Absent, Torn}
  /\ HasEntry(l) /\ config[l].kek # 0
  /\ Call("reset", l, Absent, new, "create_store",
          [pw |-> new, salt |-> "header", kek |-> config[l].kek,
           entries |-> keystore[l].entries])
  /\ UNCHANGED <<files, session, kekCount, created, told, unsaved>>

\* The new keystore's key is derived with the level's own salt; whatever
\* keystore file is there is overwritten.
CreateLevel(l, pw) ==
  /\ Idle /\ ConfigReads /\ config[l] = Absent
  /\ kekCount < MaxKek
  /\ kekCount' = kekCount + 1
  /\ Call("create", l, Absent, pw, "create_store",
          [pw |-> pw, salt |-> "config", kek |-> kekCount', entries |-> 0])
  /\ created' = created \cup {l}
  /\ UNCHANGED <<files, session, told, unsaved>>

\* Mutated form: the entries are not looked at.
DeleteLevel_FilesIgnored(l) ==
  /\ Idle /\ ConfigReads
  /\ keystore[l] # Torn
  /\ Call("delete", l, Absent, Absent, "remove_store", Absent)
  /\ UNCHANGED <<files, session, kekCount, created, told, unsaved>>

DeleteLevel(l) ==
  /\ Idle /\ ConfigReads
  /\ keystore[l] # Torn
  /\ keystore[l] # Absent => keystore[l].entries = 0
  /\ Call("delete", l, Absent, Absent, "remove_store", Absent)
  /\ UNCHANGED <<files, session, kekCount, created, told, unsaved>>

-----------------------------------------------------------------------------
(***************************************************************************)
(* The statements.                                                         *)
(***************************************************************************)
\* The call returns: pw is the password it gave the level, Absent for none.
Answer(pw) ==
  /\ job' = NoJob
  /\ told' = [told EXCEPT ![job.level] = pw]

\* On to levels.enc, with this entry for the level.
ToConfig(entry) ==
  /\ job' = [job EXCEPT !.step = "create_config",
                       !.text = [config EXCEPT ![job.level] = entry]]
  /\ UNCHANGED told

CreateStore ==
  /\ job.step = "create_store"
  /\ keystore' = [keystore EXCEPT ![job.level] = Torn]
  /\ job' = [job EXCEPT !.step = "fill_store"]
  /\ UNCHANGED <<verifies, config, place, session, kekCount, created, told, unsaved>>

\* Mutated form: the entry is made anew, without the KEK it held.
NewEntry_KekDropped == [hash |-> job.new, kek |-> 0]

\* set_password_hash and change_password leave the stored KEK alone.
NewEntry ==
  IF job.op = "create" THEN [hash |-> job.new, kek |-> 0]
  ELSE [config[job.level] EXCEPT !.hash = job.new]

\* change_level_password goes on to the configuration only if the old password
\* opens the header as well; AccessLevel::change_password then checks it
\* against the stored hash, and its error comes after the keystore changed.
FillStore ==
  /\ job.step = "fill_store"
  /\ keystore' = [keystore EXCEPT ![job.level] = job.text]
  /\ unsaved' = IF job.op = "persist" THEN unsaved \ {job.level} ELSE unsaved
  /\ \/ job.op = "persist" /\ Answer(told[job.level])
     \/ /\ job.op = "change"
        /\ ~HeaderOpens(job.old) \/ ~HasEntry(job.level)
        /\ Answer(job.new)
     \/ /\ job.op = "change"
        /\ HeaderOpens(job.old) /\ HasEntry(job.level)
        /\ IF config[job.level].hash = job.old THEN ToConfig(NewEntry)
           ELSE Answer(Absent)
     \/ job.op \in {"reset", "create"} /\ ToConfig(NewEntry)
  /\ UNCHANGED <<verifies, config, place, session, kekCount, created>>

\* The keystore goes before delete_level finds that the level is not in the
\* configuration, or is one of the last MinLevels.
RemoveStore ==
  /\ job.step = "remove_store"
  /\ keystore' = [keystore EXCEPT ![job.level] = Absent]
  /\ IF \/ config[job.level] = Absent
        \/ Cardinality({l \in Levels : config[l] # Absent}) <= MinLevels
     THEN Answer(Absent)
     ELSE ToConfig(Absent)
  /\ UNCHANGED <<verifies, config, place, session, kekCount, created, unsaved>>

CreateConfig ==
  /\ job.step = "create_config"
  /\ config' = Torn
  /\ job' = [job EXCEPT !.step = "fill_config"]
  /\ UNCHANGED <<verifies, keystore, place, session, kekCount, created, told, unsaved>>

FillConfig ==
  /\ job.step = "fill_config"
  /\ config' = job.text
  /\ Answer(job.new)
  /\ UNCHANGED <<verifies, keystore, place, session, kekCount, created, unsaved>>

\* The call ends without an answer; of one that changes a password the user
\* does not know what it has done.
CutOff ==
  IF job.op \in {"none", "persist"} THEN job' = NoJob /\ UNCHANGED told
  ELSE Answer(Absent)

\* The next statement fails: the call returns the error, the files stay as they
\* are by then, and the session stays open.  An error of sync_all comes after the
\* text is in the file.
IOError ==
  /\ ~Idle
  /\ \/ UNCHANGED <<keystore, config>>
     \/ /\ job.step = "fill_store"
        /\ keystore' = [keystore EXCEPT ![job.level] = job.text]
        /\ UNCHANGED config
     \/ /\ job.step = "fill_config"
        /\ config' = job.text
        /\ UNCHANGED keystore
  /\ unsaved' = IF session[job.level] # Absent
                   /\ (job.op = "persist" \/ job.step = "fill_store")
                THEN unsaved \cup {job.level} ELSE unsaved
  /\ CutOff
  /\ UNCHANGED <<verifies, place, session, kekCount, created>>

\* The process dies.
Crash ==
  /\ ~Idle \/ session # NoSession
  /\ session' = NoSession /\ unsaved' = {}
  /\ CutOff
  /\ UNCHANGED <<files, kekCount, created>>

Next ==
  \/ \E pw \in Passwords : OpenVault(pw) \/ FailedOpen(pw)
  \/ \E l \in Levels, pw \in Passwords :
       UnlockLevel(l, pw) \/ ResetPassword(l, pw) \/ CreateLevel(l, pw)
  \/ \E l \in Levels, old, new \in Passwords : ChangePassword(l, old, new)
  \/ \E l \in Levels : DeleteLevel(l) \/ \E b \in BOOLEAN : PersistKeystore(l, b)
  \/ Close \/ \E p \in Places : Remount(p)
  \/ CreateStore \/ FillStore \/ RemoveStore \/ CreateConfig \/ FillConfig
  \/ IOError \/ Crash

Spec == Init /\ [][Next]_vars

-----------------------------------------------------------------------------
(***************************************************************************)
(* Properties.                                                             *)
(***************************************************************************)
Whole(l) == keystore[l] \notin {Absent, Torn}

\* The files hold what the calls can write: a keystore's DEK entries, on disk
\* or in the session, are wrapped under that keystore's own KEK.
TypeOK ==
  /\ verifies \in BOOLEAN /\ place \in Places
  /\ keystore \in [Levels -> Keystore \cup {Absent, Torn}]
  /\ config = Torn \/ config \in [Levels -> LevelEntry \cup {Absent}]
  /\ session \in [Levels -> Keystore \cup {Absent}]
  /\ \A l \in Levels : Whole(l) => keystore[l].entries \in {0, keystore[l].kek}
  /\ told \in [Levels -> Passwords \cup {Absent}]
  /\ kekCount \in 0..MaxKek /\ created \in SUBSET Levels /\ unsaved \in SUBSET Levels

\* The KEK that recovery would put into a keystore is the one it has, through
\* every change, reset, deletion, stale session and crash.  A level the vault
\* was created with keeps one as long as it has an entry.
KekAgreement ==
  config # Torn => \A l \in Levels :
    config[l] # Absent =>
      /\ l \notin created => config[l].kek # 0
      /\ Whole(l) /\ config[l].kek # 0 => keystore[l].kek = config[l].kek

\* Between two calls, the files an open session shows at a level are those a
\* later session will find: no change, reset or deletion made under it, whether it
\* is done or fails, takes their keys away.  What may take them away is a write of
\* that level's keystore which fails half way, the session's own or another call's,
\* and then only until the session saves the level again.  (Except for create_level
\* over a keystore file that the session has put back after its level was deleted.)
SessionFilesOnDisk ==
  \A l \in Levels \ (created \cup unsaved) :
    Idle /\ session[l] # Absent /\ session[l].entries # 0 =>
      Whole(l) /\ keystore[l].entries = session[l].entries

\* What rewrap_kek and the tests of change_level_password say: once a change
\* has been reported done, the old password no longer decrypts the keystore.
\* Known to be violated: an open session writes the old one back.
PasswordChangeSticks ==
  \A l \in Levels \ created :
    Idle /\ told[l] # Absent /\ Whole(l) => keystore[l].pw = told[l]

\* What the manual says of recovery: on a vault whose files are whole and whose
\* levels all have the password the user was last told, one of them opens it.
RecoveryRegainsAccess ==
  Idle /\ verifies /\ config # Torn
  /\ (\A l \in Original : Whole(l) /\ told[l] # Absent /\ config[l] # Absent
                          /\ config[l].hash = told[l])
  => \E l \in Original : HeaderOpens(told[l])
=============================================================================

------------------------------ MODULE Settings ------------------------------
(***************************************************************************)
(* The settings of the desktop application (crates/gui/src/app.rs from     *)
(* render_settings on, with the state of screens.rs): the access levels of *)
(* the vault, the password of the drive, and the letter to mount at.       *)
(*                                                                         *)
(* The list of levels is read when it is asked for, and not when another   *)
(* vault is opened: what is clicked in it then acts on the other vault.    *)
(* The operations themselves are those of crates/core/src/access.rs.       *)
(***************************************************************************)
EXTENDS Naturals, FiniteSets

CONSTANTS
  Vaults,
  MinLevels, MaxLevels,  \* 3 and 10 in the code
  Letters,               \* drive letters, and the order they are tried in
  Preferred,
  None

ASSUME SettingsAssumption ==
  /\ MinLevels \in Nat \ {0} /\ MaxLevels \in Nat /\ MinLevels <= MaxLevels
  /\ Preferred \in Letters /\ None \notin Vaults \cup Letters

VARIABLES
  config,     \* the levels of each vault, in its level configuration
  keystore,   \* those with a keystore
  filled,     \* those of them with a file in it
  path,       \* current_vault_path
  open,       \* the vault of master_key and of the session
  unlocked,   \* the levels whose keystores the session holds
  list,       \* levels: their ids, and those that seemed to be without files
  stale,      \* needs_refresh
  dialog,     \* the dialogs that are open, the last with the level it is about
  driveDialog,
  header,     \* the header of the drive: the password it takes, or torn
  letter,     \* selected_letter
  auto,       \* auto_select
  saved,      \* preferred_drive_letter
  free        \* drive letters that can be selected

vaultVars == <<config, keystore, filled>>
levelVars == <<vaultVars, path, open, unlocked, list, stale, dialog>>
driveVars == <<driveDialog, header, letter, auto, saved, free>>

Ids == 1 .. MaxLevels
NoList == [ids |-> {}, empty |-> {}]
NoDialog == [create |-> FALSE, change |-> FALSE, delete |-> 0]

LevelsInit ==
  /\ config \in [Vaults -> {1 .. n : n \in MinLevels .. MaxLevels}]
  /\ keystore = config
  /\ filled = [v \in Vaults |-> {}]
  /\ path = None /\ open = None /\ unlocked = {}
  /\ list = NoList /\ stale = TRUE
  /\ dialog = NoDialog

LettersInit ==
  /\ driveDialog = FALSE /\ header = "old"
  /\ letter = Preferred /\ auto = FALSE /\ saved = None
  /\ free \in SUBSET Letters

-----------------------------------------------------------------------------
(***************************************************************************)
(* What the other screens do to what the settings show.                    *)
(***************************************************************************)
\* open_vault of the selection, and the login.  Neither touches the settings.
SelectVault(v) ==
  /\ path' = v
  /\ UNCHANGED <<vaultVars, open, unlocked, list, stale, dialog>>

Login ==
  /\ path # None /\ open' = path
  /\ \E max \in Ids : unlocked' = keystore[path] \cap 1 .. max
  /\ UNCHANGED <<vaultVars, path, list, stale, dialog>>

\* lock_vault keeps the path; "Lock Vault" in the menu forgets nothing but the path.
LockVault ==
  /\ \/ open' = None /\ unlocked' = {} /\ UNCHANGED path
     \/ path' = None /\ UNCHANGED <<open, unlocked>>
  /\ UNCHANGED <<vaultVars, list, stale, dialog>>

\* Files come and go at a level of the session, which writes its keystore of that
\* level: also if the level was deleted since.
ImportOrDelete ==
  /\ \E l \in unlocked :
       /\ keystore' = [keystore EXCEPT ![open] = @ \cup {l}]
       /\ \E there \in {{}, {l}} : filled' = [filled EXCEPT ![open] = (@ \ {l}) \cup there]
  /\ UNCHANGED <<config, path, open, unlocked, list, stale, dialog>>

-----------------------------------------------------------------------------
(***************************************************************************)
(* The list of levels and its dialogs.                                     *)
(***************************************************************************)
\* "Access Levels" in the toolbar and the button in the settings; the menu shows the
\* settings as they are.
MarkRefreshNeeded ==
  /\ stale' = TRUE
  /\ UNCHANGED <<vaultVars, path, open, unlocked, list, dialog>>

\* refresh_settings_levels: without a vault and its session the old list stays, and
\* with the key of another vault it is an empty one.  A level the session has not
\* unlocked counts as empty.
RefreshLevels ==
  /\ stale /\ path # None /\ open # None
  /\ stale' = FALSE
  /\ list' = IF open # path THEN NoList
             ELSE [ids |-> config[path], empty |-> config[path] \ (filled[path] \cap unlocked)]
  /\ UNCHANGED <<vaultVars, path, open, unlocked, dialog>>

Show(d) ==
  /\ dialog' = d
  /\ UNCHANGED <<vaultVars, path, open, unlocked, list, stale>>

NextAvailable == {l \in Ids \ list.ids : \A k \in Ids \ list.ids : l <= k}

CanDelete(l) == l \in list.empty /\ Cardinality(list.ids) > MinLevels

OpenDialog ==
  \/ NextAvailable # {} /\ Show([dialog EXCEPT !.create = TRUE])
  \/ list.ids # {} /\ Show([dialog EXCEPT !.change = TRUE])
  \/ \E l \in list.ids : CanDelete(l) /\ Show([dialog EXCEPT !.delete = l])

CloseDialog ==
  \/ dialog.create /\ Show([dialog EXCEPT !.create = FALSE])
  \/ dialog.change /\ Show([dialog EXCEPT !.change = FALSE])
  \/ dialog.delete # 0 /\ Show([dialog EXCEPT !.delete = 0])

\* create_new_access_level, of what validate accepts: the level must not be in the
\* configuration of the vault at path, which master_key must decrypt.  A keystore
\* that is there all the same is written over.
CreateLevel ==
  /\ dialog.create /\ path # None /\ open = path
  /\ \E l \in NextAvailable :
       /\ l \notin config[path] /\ Cardinality(config[path]) < MaxLevels
       /\ config' = [config EXCEPT ![path] = @ \cup {l}]
       /\ keystore' = [keystore EXCEPT ![path] = @ \cup {l}]
       /\ filled' = [filled EXCEPT ![path] = @ \ {l}]
  /\ dialog' = [dialog EXCEPT !.create = FALSE]
  /\ stale' = TRUE
  /\ UNCHANGED <<path, open, unlocked, list>>

\* change_level_password; see LevelPasswords for what it does to the vault.  Without
\* a vault the dialog keeps waiting.
ChangePassword ==
  /\ dialog.change /\ path # None
  /\ Show([dialog EXCEPT !.change = FALSE])

\* Mutated form: what the list says of the level's files is believed.
DeleteLevel_AsListed ==
  /\ dialog.delete # 0 /\ path # None /\ open = path
  /\ keystore' = [keystore EXCEPT ![path] = @ \ {dialog.delete}]
  /\ IF dialog.delete \in config[path] /\ Cardinality(config[path]) > MinLevels
       THEN /\ config' = [config EXCEPT ![path] = @ \ {dialog.delete}]
            /\ dialog' = [dialog EXCEPT !.delete = 0]
            /\ stale' = TRUE
       ELSE UNCHANGED <<config, dialog, stale>>
  /\ UNCHANGED <<filled, path, open, unlocked, list>>

\* delete_level reads the keystore anew and keeps one with files.  An empty one it
\* removes before it looks whether the level is there and can be spared: if not,
\* the keystore is gone and the dialog shows the error.
DeleteLevel ==
  /\ dialog.delete # 0 /\ path # None /\ open = path
  /\ dialog.delete \notin filled[path]
  /\ keystore' = [keystore EXCEPT ![path] = @ \ {dialog.delete}]
  /\ IF dialog.delete \in config[path] /\ Cardinality(config[path]) > MinLevels
       THEN /\ config' = [config EXCEPT ![path] = @ \ {dialog.delete}]
            /\ dialog' = [dialog EXCEPT !.delete = 0]
            /\ stale' = TRUE
       ELSE UNCHANGED <<config, dialog, stale>>
  /\ UNCHANGED <<filled, path, open, unlocked, list>>

LevelsNext ==
  \/ \E v \in Vaults : SelectVault(v)
  \/ Login \/ LockVault \/ ImportOrDelete
  \/ MarkRefreshNeeded \/ RefreshLevels \/ OpenDialog \/ CloseDialog
  \/ CreateLevel \/ ChangePassword \/ DeleteLevel

LevelsSpec == LevelsInit /\ [][LevelsNext]_levelVars

-----------------------------------------------------------------------------
(***************************************************************************)
(* The password of the drive and the letter to mount at.                   *)
(***************************************************************************)
ShowDriveDialog ==
  /\ driveDialog' = ~driveDialog
  /\ UNCHANGED <<header, letter, auto, saved, free>>

\* change_drive_password: the header is written over in place and then synced; it
\* can fail at either, or be interrupted.  The dialog closes once it is synced.
ChangeDrivePassword ==
  /\ driveDialog /\ header # "torn"
  /\ \/ header' = "new" /\ driveDialog' \in BOOLEAN
     \/ header' = "torn" /\ UNCHANGED driveDialog
  /\ UNCHANGED <<letter, auto, saved, free>>

\* T if it can be selected, then the others in their order.
FirstAvailable ==
  IF Preferred \in free THEN Preferred
  ELSE IF free # {} THEN CHOOSE l \in free : TRUE ELSE None

\* The letters in use change; the list is read when asked for, and holds the
\* state of letters only.
RefreshLetters ==
  /\ free' \in SUBSET Letters
  /\ UNCHANGED <<driveDialog, header, letter, auto, saved>>

\* The checkbox: without a letter to fall back to it stays checked.
ToggleAutoSelect ==
  /\ IF ~auto THEN letter' = None /\ auto' = TRUE /\ saved' = None
     ELSE /\ FirstAvailable # None
          /\ letter' = FirstAvailable /\ saved' = FirstAvailable /\ auto' = FALSE
  /\ UNCHANGED <<driveDialog, header, free>>

SetLetter ==
  /\ ~auto
  /\ \E l \in free : letter' = l /\ saved' = l
  /\ UNCHANGED <<driveDialog, header, auto, free>>

LettersNext ==
  \/ ShowDriveDialog \/ ChangeDrivePassword
  \/ RefreshLetters \/ ToggleAutoSelect \/ SetLetter

-----------------------------------------------------------------------------
(***************************************************************************)
(* Properties.                                                             *)
(***************************************************************************)
\* However old the list is and whichever vault it was read from, deleting levels
\* takes no keystore with files in it, and leaves no vault with fewer levels than
\* the minimum.
LevelsWithFilesStay ==
  \A v \in Vaults : filled[v] \subseteq keystore[v] /\ Cardinality(config[v]) >= MinLevels

\* Every level of a vault has a keystore.  Known to be violated: a level of a list
\* that was read from another vault is deleted, the keystore goes, and then the
\* minimum is found to be reached.
EveryLevelHasItsKeystore == \A v \in Vaults : config[v] \subseteq keystore[v]
=============================================================================

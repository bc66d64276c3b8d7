------------------------------ MODULE Desktop ------------------------------
(***************************************************************************)
(* The desktop application (crates/gui/src/app.rs): which screen is shown, *)
(* which vault it is about, the open session with its decrypted copies,    *)
(* and the drive it believes is unlocked.                                  *)
(*                                                                         *)
(* The toolkit calls update once per frame.  A frame ends the session when *)
(* the user has been idle for too long or the drive is gone, or else it    *)
(* acts on at most one click.  Input counts as activity before the timeout *)
(* is checked, and the drive is looked for every two seconds only.         *)
(*                                                                         *)
(* What goes on inside a screen is in FileBrowser, VaultWizard, Settings   *)
(* and DriveSetup: here each is a screen with its ways out.  One file      *)
(* stands for the files of a vault.                                        *)
(***************************************************************************)
EXTENDS TempFiles

CONSTANTS
  Vaults, Drives,
  DriveOf,  \* the encrypted drive a vault is on, if any
  None

ASSUME DriveAssumption == DriveOf \in [Vaults -> Drives \cup {None}]

\* Copies are made of some of the vaults.
ASSUME CopyAssumption == Copies \subseteq Vaults

VARIABLES
  screen,
  path,      \* current_vault_path
  session,   \* the vault of vault_session
  key,       \* the vault of master_key
  header,    \* the vault of the header in password_entry_state
  idle,      \* the auto-lock timeout has passed since last_activity
  drive,     \* current_drive, with its is_locked
  dialog,    \* the drive unlock dialog: unlocking_drive_index
  pending,   \* what is to be unlocked together: a vault, its drive
  found,     \* unlocked_vault_path
  plugged,   \* drives that are connected
  locked     \* drives whose hardware is locked

appVars == <<screen, path, session, key, header, idle, drive, dialog, pending, found>>
vars    == <<appVars, plugged, locked, tempVars>>

Screens == {"VaultSelection", "PasswordEntry", "FileBrowser", "Settings",
            "VaultCreation", "PasswordRecovery", "Drives"}

NoDrive   == [id |-> None, isLocked |-> FALSE]
Unlocked(d) == [id |-> d, isLocked |-> FALSE]
NoDialog  == [shown |-> FALSE, on |-> None]
NoPending == [vault |-> None, drive |-> None]

TypeOK ==
  /\ TempTypeOK
  /\ screen \in Screens
  /\ {path, session, key, header, found} \subseteq Vaults \cup {None}
  /\ idle \in BOOLEAN
  /\ drive \in [id : Drives \cup {None}, isLocked : BOOLEAN]
  /\ dialog \in [shown : BOOLEAN, on : Drives \cup {None}]
  /\ pending \in [vault : Vaults \cup {None}, drive : Drives \cup {None}]
  /\ plugged \in SUBSET Drives /\ locked \in SUBSET Drives

\* The first frame: detect_vault_on_startup finds the vault beside the executable,
\* and shows its password screen without loading the header.
Startup(v) ==
  /\ path = v
  /\ screen = IF v = None THEN "VaultSelection" ELSE "PasswordEntry"

Init ==
  /\ TempInit
  /\ \E v \in Vaults \cup {None} : Startup(v)
  /\ session = None /\ key = None /\ header = None /\ idle = FALSE
  /\ drive = NoDrive /\ dialog = NoDialog /\ pending = NoPending /\ found = None
  /\ plugged = Drives /\ locked = Drives

\* validate_vault: a vault on a locked drive may still be seen in the cache of the
\* operating system.
Visible(v) == DriveOf[v] # None => DriveOf[v] \in plugged

Writable(v) == DriveOf[v] # None => DriveOf[v] \in plugged \ locked

-----------------------------------------------------------------------------
(***************************************************************************)
(* Ending a session.                                                       *)
(***************************************************************************)
\* Mutated form: the temporary files stay.
LockVault_KeepsCopies ==
  /\ session' = None /\ key' = None /\ header' = None /\ idle' = FALSE
  /\ screen' = "PasswordEntry"
  /\ UNCHANGED tempVars

\* Mutated form: the password screen keeps its state.
LockVault_KeepsEntry ==
  /\ session' = None /\ key' = None /\ header' = header /\ idle' = FALSE
  /\ screen' = "PasswordEntry"
  /\ DropManager

\* lock_vault.  Both states are made anew, so that the password screen it shows has
\* no header any more.
LockVault ==
  /\ session' = None /\ key' = None /\ header' = None /\ idle' = FALSE
  /\ screen' = "PasswordEntry"
  /\ DropManager

\* Mutated form: only while the files are shown.
CheckAutoLock_BrowserOnly ==
  /\ screen = "FileBrowser"
  /\ session # None /\ idle
  /\ LockVault
  /\ UNCHANGED <<path, drive, dialog, pending, found, plugged, locked>>

CheckAutoLock ==
  /\ session # None /\ idle
  /\ LockVault
  /\ UNCHANGED <<path, drive, dialog, pending, found, plugged, locked>>

\* The drive counts as removed: lock_vault, then the screen where vaults are chosen.
DriveRemoved ==
  /\ session' = None /\ key' = None /\ header' = None /\ idle' = FALSE
  /\ DropManager
  /\ drive' = NoDrive /\ path' = None /\ screen' = "VaultSelection"
  /\ UNCHANGED <<dialog, pending, found, plugged, locked>>

\* Mutated form: a drive that was locked from the status bar is not looked for.
CheckDriveRemoval_UnlockedOnly ==
  /\ session # None /\ ~idle
  /\ drive.id # None /\ drive.id \notin plugged /\ ~drive.isLocked
  /\ DriveRemoved

\* check_drive_removal, in a frame that did not lock for idleness.
CheckDriveRemoval ==
  /\ session # None /\ ~idle
  /\ drive.id # None /\ drive.id \notin plugged
  /\ DriveRemoved

\* is_drive_connected may also say so of a drive that is there (see DriveDetection).
MistakenRemoval ==
  /\ session # None /\ ~idle
  /\ drive.id \in plugged
  /\ DriveRemoved

\* cleanup_and_exit, or the process dies, and it is started again.
Restart(clean) ==
  /\ session' = None /\ key' = None /\ header' = None /\ idle' = FALSE
  /\ IF clean THEN DropManager ELSE LoseManager
  /\ drive' = NoDrive /\ dialog' = NoDialog /\ pending' = NoPending /\ found' = None
  /\ \E v \in Vaults \cup {None} :
       /\ v # None => Visible(v)
       /\ path' = v
       /\ screen' = IF v = None THEN "VaultSelection" ELSE "PasswordEntry"
  /\ UNCHANGED <<plugged, locked>>

-----------------------------------------------------------------------------
(***************************************************************************)
(* Opening a vault and entering its password.                              *)
(***************************************************************************)
\* load_header: it may be unreadable, and is refused during a lockout.
LoadHeader(v) == header' \in {v, None}

\* open_vault.  The session of another vault stays open meanwhile.
OpenVault(v) ==
  /\ Visible(v)
  /\ IF DriveOf[v] \in locked
     THEN /\ pending' = [vault |-> v, drive |-> DriveOf[v]]
          /\ dialog' = [dialog EXCEPT !.shown = TRUE]
          /\ screen' = "Drives"
          /\ UNCHANGED <<path, header, drive>>
     ELSE /\ path' = v
          /\ drive' = IF DriveOf[v] = None THEN drive ELSE Unlocked(DriveOf[v])
          /\ LoadHeader(v)
          /\ screen' = IF header' = None THEN screen ELSE "PasswordEntry"
          /\ UNCHANGED <<dialog, pending>>
  /\ UNCHANGED <<session, key, plugged, locked, tempVars>>

SelectVault(v) == 
  /\ screen = "VaultSelection" 
  /\ OpenVault(v)
  /\ UNCHANGED found

\* attempt_unlock with the right password: the header copy is unlocked here and
\* the vault then opened, which may fail and leaves the key; so may the
\* new TempFileManager.  A wrong password is counted by this screen only.
AttemptUnlock ==
  /\ screen = "PasswordEntry"
  /\ header # None
  /\ key' = header
  /\ \/ /\ screen' = "FileBrowser"
        /\ IF path = None THEN UNCHANGED <<session, tempVars>>
           ELSE Visible(path) /\ session' = path /\ ReplaceManager
     \/ UNCHANGED <<session, screen, tempVars>>
  /\ UNCHANGED <<path, header, drive, dialog, pending, found, plugged, locked>>

\* finish_vault_creation, of the vault the wizard has made.  The drive it is on is not
\* made the current one.
FinishVaultCreation(v) ==
  /\ screen = "VaultCreation" /\ Writable(v)
  /\ session' = v /\ key' = v /\ path' = v
  /\ screen' = "FileBrowser"
  /\ ReplaceManager
  /\ UNCHANGED <<header, drive, dialog, pending, found, plugged, locked>>

\* execute_vault_creation, whose wizard may be left by the menu then.
ExecuteVaultCreation(v) ==
  /\ screen = "VaultCreation" /\ Writable(v)
  /\ path' = v
  /\ UNCHANGED <<screen, session, key, header, drive, dialog, pending, found,
                 plugged, locked, tempVars>>

Preview ==
  /\ screen = "FileBrowser"
  /\ session \in Copies
  /\ OpenInApplication(session)
  /\ UNCHANGED <<screen, path, session, key, header, drive, dialog, pending, found,
                 plugged, locked>>

-----------------------------------------------------------------------------
(***************************************************************************)
(* Moving between screens: the menu bar and the buttons of each screen.    *)
(***************************************************************************)
Show(s) == 
  /\ screen' = s
  /\ UNCHANGED <<path, session, key, header, drive, dialog, pending, found,
                 plugged, locked, tempVars>>

RenderMenuBar ==
  \/ Show("VaultSelection")  \* Open Vault
  \/ Show("VaultCreation")
  \/ Show("Settings")

\* Lock Vault in the menu forgets the path; the session stays.
MenuLockVault ==
  /\ path' = None
  /\ screen' = "VaultSelection"
  /\ UNCHANGED <<session, key, header, drive, dialog, pending, found,
                 plugged, locked, tempVars>>

ToolbarLockVault ==
  /\ screen = "FileBrowser"
  /\ LockVault
  /\ UNCHANGED <<path, drive, dialog, pending, found, plugged, locked>>

Leave ==
  \/ screen = "VaultSelection" /\ (Show("Drives") \/ Show("VaultCreation"))
  \/ screen = "PasswordEntry" /\ (Show("VaultSelection") \/ Show("PasswordRecovery"))
  \/ screen = "PasswordRecovery" /\ Show("PasswordEntry")
  \/ screen = "FileBrowser" /\ Show("Settings")
  \/ screen = "Settings" /\ Show("FileBrowser")
  \/ screen = "VaultCreation" /\ Show("VaultSelection")  \* cancel_vault_creation
  \/ screen = "Drives" /\ Show("VaultSelection")

-----------------------------------------------------------------------------
(***************************************************************************)
(* Drives: the status bar, and the drives screen with its unlock dialog.   *)
(***************************************************************************)
OpenUnlockDialog(d) ==
  /\ screen = "Drives" /\ d \in plugged \cap locked
  /\ dialog' = [shown |-> TRUE, on |-> d]
  /\ UNCHANGED <<screen, path, session, key, header, drive, pending, found,
                 plugged, locked, tempVars>>

\* Cancel leaves what was to be unlocked together.
CloseUnlockDialog ==
  /\ screen = "Drives" /\ dialog.shown
  /\ dialog' = NoDialog
  /\ UNCHANGED <<screen, path, session, key, header, drive, pending, found,
                 plugged, locked, tempVars>>

\* attempt_unified_unlock: the pending drive, whichever the dialog was opened for.
\* The password is cleared before it is copied, so the vault is not unlocked
\* with it.
AttemptUnifiedUnlock ==
  LET d == pending.drive  v == pending.vault IN
  /\ d # None
  /\ d \in plugged
  /\ locked' = locked \ {d}
  /\ drive' = Unlocked(d)
  /\ pending' = NoPending /\ dialog' = NoDialog
  /\ path' = v
  /\ LoadHeader(v)
  /\ screen' = IF header' = None THEN "VaultSelection" ELSE "PasswordEntry"
  /\ UNCHANGED <<session, key, found, plugged, tempVars>>

AttemptDriveUnlock ==
  LET d == dialog.on IN
  /\ pending.drive = None /\ d # None
  /\ d \in plugged
  /\ locked' = locked \ {d}
  /\ drive' = Unlocked(d)
  /\ found' \in {v \in Vaults : DriveOf[v] = d} \cup {found}
  /\ dialog' = NoDialog
  /\ UNCHANGED <<screen, path, session, key, header, pending, plugged, tempVars>>

SubmitPassword ==
  /\ screen = "Drives" /\ dialog.shown
  /\ AttemptUnifiedUnlock \/ AttemptDriveUnlock

\* render_drives opens the vault it found on the drive it unlocked.
OpenFound ==
  /\ screen = "Drives" /\ found # None
  /\ OpenVault(found)
  /\ found' = None

LockCurrentDrive ==
  /\ drive.id \in plugged /\ ~drive.isLocked
  /\ locked' = locked \cup {drive.id}
  /\ drive' = [drive EXCEPT !.isLocked = TRUE]
  /\ UNCHANGED <<screen, path, session, key, header, dialog, pending, found,
                 plugged, tempVars>>

\* The drive is locked before it is ejected, which may fail after that.
EjectCurrentDrive ==
  /\ drive.id \in plugged
  /\ locked' = locked \cup {drive.id}
  /\ \/ drive' = NoDrive /\ plugged' = plugged \ {drive.id}
     \/ UNCHANGED <<drive, plugged>>
  /\ UNCHANGED <<screen, path, session, key, header, dialog, pending, found, tempVars>>

-----------------------------------------------------------------------------
\* Nothing else comes before a vault that was found on a drive.
Click ==
  \/ \E v \in Vaults : SelectVault(v) \/ FinishVaultCreation(v) \/ ExecuteVaultCreation(v)
  \/ AttemptUnlock \/ Preview
  \/ RenderMenuBar \/ MenuLockVault \/ ToolbarLockVault \/ Leave
  \/ \E d \in Drives : OpenUnlockDialog(d)
  \/ CloseUnlockDialog \/ SubmitPassword \/ OpenFound
  \/ LockCurrentDrive \/ EjectCurrentDrive

\* A click is input, which counts as activity.
UserFrame == Click /\ idle' = FALSE

\* The timeout passes without input; a drive is pulled, or plugged in again and
\* is locked then.
Wait ==
  /\ session # None /\ ~idle
  /\ idle' = TRUE
  /\ UNCHANGED <<screen, path, session, key, header, drive, dialog, pending, found,
                 plugged, locked, tempVars>>

Plug(d) ==
  /\ plugged' = IF d \in plugged THEN plugged \ {d} ELSE plugged \cup {d}
  /\ locked' = locked \cup {d}
  /\ UNCHANGED <<appVars, tempVars>>

Next ==
  \/ UserFrame \/ CheckAutoLock \/ CheckDriveRemoval \/ MistakenRemoval
  \/ Restart(TRUE) \/ Restart(FALSE)
  \/ Wait \/ \E d \in Drives : Plug(d)

\* With a session open each frame asks for another one within a second or two, and
\* every frame that does not lock looks for the drive if it has not done
\* so for two seconds.
Spec == Init /\ [][Next]_vars /\ WF_vars(CheckAutoLock) /\ SF_vars(CheckDriveRemoval)

-----------------------------------------------------------------------------
(***************************************************************************)
(* Properties.                                                             *)
(***************************************************************************)
\* Every decrypted copy on disk is of the vault that is open, except those a failed
\* deletion or a crash left: through auto-lock, removal, exit, and a second
\* vault opened while the first still is.
CopiesOfOpenVault == temp \ left \subseteq {session}

\* The header a password is tried on is that of the vault the screen names,
\* whatever way led to the screen.
UnlocksTheVaultShown ==
  screen = "PasswordEntry" /\ header # None => header = path

\* A session nobody uses is locked, on whatever screen it was left.
IdleIsLocked == session # None /\ idle ~> session = None \/ ~idle

\* The drive of the open session's vault is gone.
DriveGone == session # None /\ DriveOf[session] \in Drives \ plugged

\* When the drive of the open vault is pulled while the application follows it, the
\* session ends, unless the drive comes back first or another drive is opened
\* meanwhile and takes its place.
RemovalLocks == LET lost == DriveGone /\ drive.id = DriveOf[session] IN lost ~> ~lost

\* What the manual says, of every session: its drive disconnected, it is locked.
\* Known to be violated: only the current drive is looked for (app.rs:639).
DisconnectLocks == DriveGone ~> ~DriveGone
=============================================================================

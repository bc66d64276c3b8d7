--------------------------- MODULE DesktopProofs ---------------------------
(***************************************************************************)
(* Proofs about the desktop application and its decrypted copies, for      *)
(* every set of vaults and drives, and every way the vaults are spread     *)
(* over the drives.                                                        *)
(*                                                                         *)
(* Fairness plays no part: the theorems are about every behaviour of       *)
(* Next.                                                                   *)
(***************************************************************************)
EXTENDS Desktop, TLAPS

AppTyped ==
  /\ screen \in Screens
  /\ {path, session, key, header, found} \subseteq Vaults \cup {None}
  /\ idle \in BOOLEAN
  /\ drive \in [id : Drives \cup {None}, isLocked : BOOLEAN]
  /\ dialog \in [shown : BOOLEAN, on : Drives \cup {None}]
  /\ pending \in [vault : Vaults \cup {None}, drive : Drives \cup {None}]
  /\ plugged \in SUBSET Drives /\ locked \in SUBSET Drives

\* The manager knows every copy but those that were left behind, and there is no
\* copy it knows when there is no manager.
ManagerInv ==
  /\ TempTypeOK
  /\ temp \ left \subseteq tracked
  /\ ~manager => tracked = {}

\* On the way to the password recovery and back the header stays that of the path.
EntryInv ==
  screen \in {"PasswordEntry", "PasswordRecovery"} /\ header # None => header = path

DesktopInv == AppTyped /\ ManagerInv /\ CopiesOfOpenVault /\ EntryInv

-----------------------------------------------------------------------------
(***************************************************************************)
(* The temporary files.                                                    *)
(***************************************************************************)
\* Cleaning up leaves only what could not be removed.
LEMMA CleaningUp ==
  ASSUME ManagerInv, NEW rest \in SUBSET temp, CleanupAll(rest)
  PROVE  /\ tracked' = {} /\ temp' \ left' = {}
         /\ tracked' \in SUBSET Copies /\ temp' \in SUBSET Copies /\ left' \in SUBSET Copies
         /\ dir' \in BOOLEAN /\ (temp' # {} => dir')
  BY DEF ManagerInv, TempTypeOK, CleanupAll

\* Without its manager no copy is left but those that could not be removed.
LEMMA DroppingTheManager ==
  ASSUME ManagerInv, DropManager
  PROVE  ManagerInv' /\ temp' \ left' = {}
<1>1. CASE manager
  <2>1. PICK rest \in SUBSET temp : CleanupAll(rest)
    BY <1>1 DEF DropManager
  <2> QED
    BY <2>1, CleaningUp DEF DropManager, ManagerInv, TempTypeOK
<1>2. CASE ~manager
  BY <1>2 DEF DropManager, ManagerInv, TempTypeOK
<1> QED
  BY <1>1, <1>2

\* The same is true of a new manager, and of one whose directory cannot be made.
LEMMA ReplacingTheManager ==
  ASSUME ManagerInv, ReplaceManager
  PROVE  ManagerInv' /\ temp' \ left' = {}
<1>1. CASE manager /\ manager' = TRUE /\ \E rest \in SUBSET temp : CleanupAll(rest)
  BY <1>1, CleaningUp DEF ManagerInv, TempTypeOK
<1>2. CASE ~manager /\ manager' = TRUE /\ dir' = TRUE /\ UNCHANGED <<tracked, temp, left>>
  BY <1>2 DEF ManagerInv, TempTypeOK
<1>3. CASE ~dir /\ UNCHANGED tempVars
  BY <1>3 DEF ManagerInv, TempTypeOK, tempVars
<1> QED
  BY <1>1, <1>2, <1>3 DEF ReplaceManager

\* A process that dies leaves its copies behind.
LEMMA LosingTheManager ==
  ASSUME ManagerInv, LoseManager
  PROVE  ManagerInv' /\ temp' \ left' = {}
  BY DEF ManagerInv, TempTypeOK, LoseManager

\* A copy that is made is known to the manager, or left behind.
LEMMA OpeningInApplication ==
  ASSUME ManagerInv, NEW f \in Copies, OpenInApplication(f)
  PROVE  ManagerInv' /\ temp' \ left' \subseteq (temp \ left) \cup {f}
<1>1. CASE UNCHANGED tempVars
  BY <1>1 DEF ManagerInv, TempTypeOK, tempVars
<1>2. CASE /\ manager /\ dir /\ temp' = temp \cup {f}
           /\ \/ tracked' = tracked \cup {f} /\ left' = left \ {f}
              \/ tracked' = tracked /\ left' = left \cup {f}
           /\ UNCHANGED <<manager, dir>>
  BY <1>2 DEF ManagerInv, TempTypeOK
<1> QED
  BY <1>1, <1>2 DEF OpenInApplication

-----------------------------------------------------------------------------
(***************************************************************************)
(* The application.                                                        *)
(***************************************************************************)
\* Nothing that leaves the session and the copies alone can disturb the copies.
LEMMA CopiesAreLeftAlone ==
  ASSUME DesktopInv, UNCHANGED <<session, tempVars>>
  PROVE  ManagerInv' /\ CopiesOfOpenVault'
  BY DEF DesktopInv, ManagerInv, TempTypeOK, CopiesOfOpenVault, tempVars

\* Locking ends the session and makes the password screen anew.
LEMMA Locking ==
  ASSUME DesktopInv, LockVault,
         UNCHANGED <<path, drive, dialog, pending, found, plugged, locked>>
  PROVE  DesktopInv'
<1>1. ManagerInv' /\ temp' \ left' = {}
  BY DroppingTheManager DEF DesktopInv, LockVault
<1>2. AppTyped' /\ EntryInv'
  BY DEF DesktopInv, AppTyped, EntryInv, LockVault, Screens
<1> QED
  BY <1>1, <1>2 DEF DesktopInv, CopiesOfOpenVault

\* Opening a vault loads its header with its path, or shows the drives.
LEMMA Opening ==
  ASSUME DesktopInv, NEW v \in Vaults, screen \in {"VaultSelection", "Drives"}, OpenVault(v),
         found' \in {found, None}, idle' = FALSE
  PROVE  DesktopInv'
<1>1. ManagerInv' /\ CopiesOfOpenVault'
  BY CopiesAreLeftAlone DEF OpenVault
<1>2. CASE DriveOf[v] \in locked
  <2>1. DriveOf[v] \in Drives \cup {None}
    BY DriveAssumption
  <2>2. pending' \in [vault : Vaults \cup {None}, drive : Drives \cup {None}]
    BY <1>2, <2>1 DEF OpenVault
  <2>3. dialog' \in [shown : BOOLEAN, on : Drives \cup {None}]
    BY <1>2 DEF OpenVault, DesktopInv, AppTyped
  <2>4. screen' = "Drives" /\ UNCHANGED <<path, header, drive, session, key, plugged, locked>>
    BY <1>2 DEF OpenVault
  <2>5. AppTyped'
    BY <2>2, <2>3, <2>4 DEF DesktopInv, AppTyped, Screens
  <2>6. EntryInv'
    BY <2>4 DEF EntryInv
  <2> QED
    BY <1>1, <2>5, <2>6 DEF DesktopInv
<1>3. CASE DriveOf[v] \notin locked
  <2>1. drive' \in [id : Drives \cup {None}, isLocked : BOOLEAN]
    <3>1. DriveOf[v] \in Drives \cup {None}
      BY DriveAssumption
    <3>2. drive' \in {drive, Unlocked(DriveOf[v])}
      BY <1>3 DEF OpenVault
    <3>3. Unlocked(DriveOf[v]) \in [id : Drives \cup {None}, isLocked : BOOLEAN]
      BY <3>1 DEF Unlocked
    <3> QED
      BY <3>2, <3>3 DEF DesktopInv, AppTyped
  <2>2. screen' \in {screen, "PasswordEntry"} /\ path' = v /\ header' \in {v, None}
    BY <1>3 DEF OpenVault, LoadHeader
  <2>3. AppTyped'
    BY <1>3, <2>1, <2>2 DEF OpenVault, DesktopInv, AppTyped, Screens
  <2>4. EntryInv'
    BY <2>2 DEF EntryInv
  <2> QED
    BY <1>1, <2>3, <2>4 DEF DesktopInv
<1> QED
  BY <1>2, <1>3

\* Showing another screen: the password screen is shown only from the recovery.
LEMMA Showing ==
  ASSUME DesktopInv, NEW s \in Screens, Show(s), idle' = FALSE,
         s \in {"PasswordEntry", "PasswordRecovery"}
            => screen \in {"PasswordEntry", "PasswordRecovery"}
  PROVE  DesktopInv'
<1>1. ManagerInv' /\ CopiesOfOpenVault'
  BY CopiesAreLeftAlone DEF Show
<1>2. AppTyped' /\ EntryInv'
  BY DEF Show, DesktopInv, AppTyped, EntryInv
<1> QED
  BY <1>1, <1>2 DEF DesktopInv

\* A session that is opened with a new manager has no copies yet.
LEMMA OpeningASession ==
  ASSUME DesktopInv, ReplaceManager, AppTyped', EntryInv'
  PROVE  DesktopInv'
<1>1. ManagerInv' /\ temp' \ left' = {}
  BY ReplacingTheManager DEF DesktopInv
<1> QED
  BY <1>1 DEF DesktopInv, CopiesOfOpenVault

\* The initial states satisfy the invariant.
LEMMA DesktopStarts == Init => DesktopInv
<1> SUFFICES ASSUME Init PROVE DesktopInv
  OBVIOUS
<1>1. drive \in [id : Drives \cup {None}, isLocked : BOOLEAN]
  BY DEF Init, NoDrive
<1>2. dialog \in [shown : BOOLEAN, on : Drives \cup {None}]
  BY DEF Init, NoDialog
<1>3. pending \in [vault : Vaults \cup {None}, drive : Drives \cup {None}]
  BY DEF Init, NoPending
<1>4. PICK v \in Vaults \cup {None} : Startup(v)
  BY DEF Init
<1>5. AppTyped
  BY <1>1, <1>2, <1>3, <1>4 DEF Init, Startup, AppTyped, Screens
<1>6. ManagerInv /\ CopiesOfOpenVault
  BY DEF Init, TempInit, ManagerInv, TempTypeOK, CopiesOfOpenVault
<1> QED
  BY <1>5, <1>6 DEF Init, DesktopInv, EntryInv

\* Every click keeps the invariant.
LEMMA ClickStep == ASSUME DesktopInv, Click, idle' = FALSE PROVE DesktopInv'
<1>1. ASSUME NEW v \in Vaults, SelectVault(v) PROVE DesktopInv'
  BY <1>1, Opening DEF SelectVault
<1>2. ASSUME NEW v \in Vaults, FinishVaultCreation(v) PROVE DesktopInv'
  <2>1. AppTyped' /\ EntryInv'
    BY <1>2 DEF FinishVaultCreation, DesktopInv, AppTyped, EntryInv, Screens
  <2> QED
    BY <1>2, <2>1, OpeningASession DEF FinishVaultCreation
<1>3. ASSUME NEW v \in Vaults, ExecuteVaultCreation(v) PROVE DesktopInv'
  <2>1. ManagerInv' /\ CopiesOfOpenVault'
    BY <1>3, CopiesAreLeftAlone DEF ExecuteVaultCreation
  <2> QED
    BY <1>3, <2>1 DEF ExecuteVaultCreation, DesktopInv, AppTyped, EntryInv
<1>4. CASE AttemptUnlock
  <2>1. AppTyped' /\ EntryInv'
    BY <1>4 DEF AttemptUnlock, DesktopInv, AppTyped, EntryInv, Screens
  <2>2. CASE UNCHANGED <<session, tempVars>>
    BY <2>1, <2>2, CopiesAreLeftAlone DEF DesktopInv
  <2>3. CASE ReplaceManager
    BY <2>1, <2>3, OpeningASession
  <2> QED
    BY <1>4, <2>2, <2>3 DEF AttemptUnlock
<1>5. CASE Preview
  <2>1. session \in Copies
    BY <1>5 DEF Preview
  <2>2. ManagerInv' /\ temp' \ left' \subseteq (temp \ left) \cup {session}
    BY <1>5, <2>1, OpeningInApplication DEF Preview, DesktopInv
  <2> QED
    BY <1>5, <2>2 DEF Preview, DesktopInv, AppTyped, CopiesOfOpenVault, EntryInv
<1>6. CASE RenderMenuBar \/ Leave
  <2>1. \E s \in Screens : Show(s) /\ (s \in {"PasswordEntry", "PasswordRecovery"}
                                         => screen \in {"PasswordEntry", "PasswordRecovery"})
    BY <1>6 DEF RenderMenuBar, Leave, Screens
  <2> QED
    BY <2>1, Showing
<1>7. CASE MenuLockVault
  <2>1. ManagerInv' /\ CopiesOfOpenVault'
    BY <1>7, CopiesAreLeftAlone DEF MenuLockVault
  <2> QED
    BY <1>7, <2>1 DEF MenuLockVault, DesktopInv, AppTyped, EntryInv, Screens
<1>8. CASE ToolbarLockVault
  BY <1>8, Locking DEF ToolbarLockVault
<1>9. ASSUME NEW d \in Drives, OpenUnlockDialog(d) PROVE DesktopInv'
  <2>1. ManagerInv' /\ CopiesOfOpenVault'
    BY <1>9, CopiesAreLeftAlone DEF OpenUnlockDialog
  <2> QED
    BY <1>9, <2>1 DEF OpenUnlockDialog, DesktopInv, AppTyped, EntryInv
<1>10. CASE CloseUnlockDialog
  <2>1. ManagerInv' /\ CopiesOfOpenVault'
    BY <1>10, CopiesAreLeftAlone DEF CloseUnlockDialog
  <2> QED
    BY <1>10, <2>1 DEF CloseUnlockDialog, NoDialog, DesktopInv, AppTyped, EntryInv
<1>11. CASE SubmitPassword /\ AttemptUnifiedUnlock
  <2>1. ManagerInv' /\ CopiesOfOpenVault'
    BY <1>11, CopiesAreLeftAlone DEF AttemptUnifiedUnlock
  <2>2. pending.drive \in Drives \cup {None} /\ pending.vault \in Vaults \cup {None}
    BY DEF DesktopInv, AppTyped
  <2>3. /\ drive' \in [id : Drives \cup {None}, isLocked : BOOLEAN]
        /\ dialog' \in [shown : BOOLEAN, on : Drives \cup {None}]
        /\ pending' \in [vault : Vaults \cup {None}, drive : Drives \cup {None}]
    BY <1>11, <2>2 DEF AttemptUnifiedUnlock, Unlocked, NoDialog, NoPending
  <2>4. path' = pending.vault /\ header' \in {pending.vault, None}
    BY <1>11 DEF AttemptUnifiedUnlock, LoadHeader
  <2>5. AppTyped'
    BY <1>11, <2>2, <2>3, <2>4 DEF AttemptUnifiedUnlock, DesktopInv, AppTyped, Screens
  <2> QED
    BY <2>1, <2>4, <2>5 DEF DesktopInv, EntryInv
<1>12. CASE SubmitPassword /\ AttemptDriveUnlock
  <2>1. ManagerInv' /\ CopiesOfOpenVault'
    BY <1>12, CopiesAreLeftAlone DEF AttemptDriveUnlock
  <2>2. dialog.on \in Drives \cup {None}
    BY DEF DesktopInv, AppTyped
  <2>3. /\ drive' \in [id : Drives \cup {None}, isLocked : BOOLEAN]
        /\ dialog' \in [shown : BOOLEAN, on : Drives \cup {None}]
    BY <1>12, <2>2 DEF AttemptDriveUnlock, Unlocked, NoDialog
  <2>4. found' \in Vaults \cup {None}
    BY <1>12 DEF AttemptDriveUnlock, DesktopInv, AppTyped
  <2>5. AppTyped' /\ EntryInv'
    BY <1>12, <2>3, <2>4 DEF AttemptDriveUnlock, DesktopInv, AppTyped, EntryInv
  <2> QED
    BY <2>1, <2>5 DEF DesktopInv
<1>13. CASE OpenFound
  <2>1. found \in Vaults
    BY <1>13 DEF OpenFound, DesktopInv, AppTyped
  <2> QED
    BY <1>13, <2>1, Opening DEF OpenFound
<1>14. CASE LockCurrentDrive \/ EjectCurrentDrive
  <2>1. ManagerInv' /\ CopiesOfOpenVault'
    BY <1>14, CopiesAreLeftAlone DEF LockCurrentDrive, EjectCurrentDrive
  <2>2. drive' \in [id : Drives \cup {None}, isLocked : BOOLEAN]
    <3>1. drive \in [id : Drives \cup {None}, isLocked : BOOLEAN]
      BY DEF DesktopInv, AppTyped
    <3>2. CASE drive' = drive
      BY <3>1, <3>2
    <3>3. CASE drive' = [drive EXCEPT !.isLocked = TRUE]
      BY <3>1, <3>3
    <3>4. CASE drive' = NoDrive
      BY <3>4 DEF NoDrive
    <3> QED
      BY <1>14, <3>2, <3>3, <3>4 DEF LockCurrentDrive, EjectCurrentDrive
  <2>3. AppTyped' /\ EntryInv'
    BY <1>14, <2>2 DEF LockCurrentDrive, EjectCurrentDrive, DesktopInv, AppTyped, EntryInv
  <2> QED
    BY <2>1, <2>3 DEF DesktopInv
<1> QED
  BY <1>1, <1>2, <1>3, <1>4, <1>5, <1>6, <1>7, <1>8, <1>9, <1>10, <1>11, <1>12, <1>13, <1>14
  DEF Click, SubmitPassword

\* Every step keeps the invariant.
LEMMA DesktopStep == DesktopInv /\ [Next]_vars => DesktopInv'
<1> SUFFICES ASSUME DesktopInv, [Next]_vars PROVE DesktopInv'
  OBVIOUS
<1>1. CASE UserFrame
  BY <1>1, ClickStep DEF UserFrame
<1>2. CASE CheckAutoLock
  BY <1>2, Locking DEF CheckAutoLock
<1>3. CASE CheckDriveRemoval \/ MistakenRemoval
  <2>1. DriveRemoved
    BY <1>3 DEF CheckDriveRemoval, MistakenRemoval
  <2>2. ManagerInv' /\ temp' \ left' = {}
    BY <2>1, DroppingTheManager DEF DriveRemoved, DesktopInv
  <2>3. NoDrive \in [id : Drives \cup {None}, isLocked : BOOLEAN]
    BY DEF NoDrive
  <2> QED
    BY <2>1, <2>2, <2>3
    DEF DriveRemoved, DesktopInv, AppTyped, CopiesOfOpenVault, EntryInv, Screens
<1>4. ASSUME NEW clean \in BOOLEAN, Restart(clean) PROVE DesktopInv'
  <2>1. ManagerInv' /\ temp' \ left' = {}
    BY <1>4, DroppingTheManager, LosingTheManager DEF Restart, DesktopInv
  <2>2. /\ NoDrive \in [id : Drives \cup {None}, isLocked : BOOLEAN]
        /\ NoDialog \in [shown : BOOLEAN, on : Drives \cup {None}]
        /\ NoPending \in [vault : Vaults \cup {None}, drive : Drives \cup {None}]
    BY DEF NoDrive, NoDialog, NoPending
  <2>3. path' \in Vaults \cup {None} /\ screen' \in {"VaultSelection", "PasswordEntry"}
    BY <1>4 DEF Restart
  <2>4. AppTyped' /\ EntryInv'
    BY <1>4, <2>2, <2>3 DEF Restart, DesktopInv, AppTyped, EntryInv, Screens
  <2> QED
    BY <2>1, <2>4 DEF DesktopInv, CopiesOfOpenVault
<1>5. CASE Wait
  <2>1. ManagerInv' /\ CopiesOfOpenVault'
    BY <1>5, CopiesAreLeftAlone DEF Wait
  <2> QED
    BY <1>5, <2>1 DEF Wait, DesktopInv, AppTyped, EntryInv
<1>6. ASSUME NEW d \in Drives, Plug(d) PROVE DesktopInv'
  <2>1. ManagerInv' /\ CopiesOfOpenVault'
    BY <1>6, CopiesAreLeftAlone DEF Plug, appVars
  <2> QED
    BY <1>6, <2>1 DEF Plug, appVars, DesktopInv, AppTyped, EntryInv
<1>7. CASE UNCHANGED vars
  <2>1. ManagerInv' /\ CopiesOfOpenVault'
    BY <1>7, CopiesAreLeftAlone DEF vars, appVars
  <2> QED
    BY <1>7, <2>1 DEF vars, appVars, DesktopInv, AppTyped, EntryInv
<1> QED
  BY <1>1, <1>2, <1>3, <1>4, <1>5, <1>6, <1>7 DEF Next

\* The invariant is one of every behaviour.
LEMMA DesktopAlways == Spec => []DesktopInv
  BY DesktopStarts, DesktopStep, PTL DEF Spec

\* The variables of the application and its copies keep their types.
THEOREM DesktopTypeOK == Spec => []TypeOK
<1>1. DesktopInv => TypeOK
  BY DEF DesktopInv, AppTyped, ManagerInv, TypeOK
<1> QED
  BY <1>1, DesktopAlways, PTL

\* Every decrypted copy on disk is of the vault that is open, except those a failed
\* deletion or a crash left: through auto-lock, removal, exit, and a second vault
\* opened while the first still is (tempfile.rs, app.rs lock_vault).
THEOREM CopiesAreOfTheOpenVault == Spec => []CopiesOfOpenVault
<1>1. DesktopInv => CopiesOfOpenVault
  BY DEF DesktopInv
<1> QED
  BY <1>1, DesktopAlways, PTL

\* The header a password is tried on is that of the vault the screen names, whatever
\* way led to the screen.
THEOREM PasswordIsForTheVaultShown == Spec => []UnlocksTheVaultShown
<1>1. DesktopInv => UnlocksTheVaultShown
  BY DEF DesktopInv, EntryInv, UnlocksTheVaultShown
<1> QED
  BY <1>1, DesktopAlways, PTL
=============================================================================

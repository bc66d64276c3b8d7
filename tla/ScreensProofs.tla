--------------------------- MODULE ScreensProofs ---------------------------
(***************************************************************************)
(* Proofs about the screens of the desktop application: the list of the    *)
(* file browser, for every number of files and depth of folders; the last  *)
(* page of the wizard, for all passwords; and the levels of every vault    *)
(* the settings are shown for.                                             *)
(***************************************************************************)
EXTENDS FileBrowser, VaultWizard, Settings, FiniteSetTheorems, TLAPS

-----------------------------------------------------------------------------
(***************************************************************************)
(* The file browser.  An operation leaves the files, the folder and the    *)
(* list alone, reads the list anew, sorts it, or is an import or a rename  *)
(* that fails: then the list stays, and what changed is unread.            *)
(***************************************************************************)
\* An operation that touches neither the files nor the folder keeps the list right.
LEMMA TheListStays ==
  ASSUME ShowsWhatIsStored, UNCHANGED <<at, currentPath, sorting, entries, unread>>
  PROVE  ShowsWhatIsStored'
  BY DEF ShowsWhatIsStored, Below

\* So does one that reads the list anew, last thing.
LEMMA TheListIsRead ==
  ASSUME entries' = ListFiles(at', currentPath'), unread' = {}, UNCHANGED sorting
  PROVE  ShowsWhatIsStored'
<1>1. /\ entries'.files = {f \in Files : at'[f] = currentPath'}
      /\ entries'.folder = \E f \in Files : Below(at'[f], currentPath')
      /\ entries'.by = sorting'
  BY DEF ListFiles
<1>2. \A f \in Files : f \in entries'.files <=> at'[f] = currentPath'
  BY <1>1
<1>3. (\E f \in Files : Below(at'[f], currentPath')) <=> entries'.folder
  BY <1>1
<1> QED
  BY <1>1, <1>2, <1>3 DEF ShowsWhatIsStored, Below

\* So does one that leaves the list, if what it changed counts as unread.
LEMMA TheListIsUnread ==
  ASSUME ShowsWhatIsStored, UNCHANGED <<currentPath, sorting, entries>>,
         unread \subseteq unread', \A f \in Files \ unread' : at'[f] = at[f]
  PROVE  ShowsWhatIsStored'
<1>1. entries'.by = sorting'
  BY DEF ShowsWhatIsStored
<1>2. ASSUME NEW f \in Files \ unread'
      PROVE  /\ f \in entries'.files <=> at'[f] = currentPath'
             /\ Below(at'[f], currentPath') => entries'.folder
  BY <1>2 DEF ShowsWhatIsStored
<1>3. ASSUME entries'.folder
      PROVE  \E f \in Files : Below(at'[f], currentPath') \/ f \in unread'
  <2>1. PICK f \in Files : Below(at[f], currentPath) \/ f \in unread
    BY <1>3 DEF ShowsWhatIsStored
  <2>2. f \notin unread' => f \notin unread /\ at'[f] = at[f]
    OBVIOUS
  <2>3. f \notin unread' => Below(at'[f], currentPath')
    BY <2>1, <2>2
  <2> QED
    BY <2>3
<1> QED
  BY <1>1, <1>2, <1>3 DEF ShowsWhatIsStored, Below

\* Every operation of the browser keeps it.
LEMMA BrowserStep ==
  ASSUME ShowsWhatIsStored, [BrowserNext]_browserVars
  PROVE  ShowsWhatIsStored'
<1>1. ASSUME NEW p, NavigateTo(p) PROVE ShowsWhatIsStored'
  <2>1. entries' = ListFiles(at', currentPath') /\ unread' = {} /\ UNCHANGED sorting
    BY <1>1 DEF NavigateTo, RefreshEntries, ListFiles
  <2> QED
    BY <2>1, TheListIsRead
<1>2. CASE NavigateUp \/ NavigateToBreadcrumb \/ ClickFolder \/ DoubleClickFolder
  BY <1>1, <1>2 DEF NavigateUp, NavigateToBreadcrumb, ClickFolder, DoubleClickFolder
<1>3. CASE Refresh \/ ExecuteDelete \/ ExecuteChangeAccessLevel
  <2>1. entries' = ListFiles(at', currentPath') /\ unread' = {} /\ UNCHANGED sorting
    BY <1>3 DEF Refresh, ExecuteDelete, ExecuteChangeAccessLevel, ChangeFiles,
      RefreshEntries, ListFiles
  <2> QED
    BY <2>1, TheListIsRead
<1>4. CASE ExecuteRename
  <2>1. UNCHANGED <<currentPath, sorting>>
    BY <1>4 DEF ExecuteRename
  <2>2. PICK f \in renaming.files :
          \/ RefreshEntries(at', currentPath)
          \/ /\ \/ UNCHANGED at
                \/ \E loc \in Renamed(f) \cup {Lost} : at' = MovedTo(f, loc)
             /\ unread' = IF at' = at THEN unread ELSE unread \cup {f}
             /\ UNCHANGED entries
    BY <1>4 DEF ExecuteRename
  <2>3. CASE RefreshEntries(at', currentPath)
    <3>1. entries' = ListFiles(at', currentPath') /\ unread' = {}
      BY <2>1, <2>3 DEF RefreshEntries, ListFiles
    <3> QED
      BY <2>1, <3>1, TheListIsRead
  <2>4. CASE /\ unread' = IF at' = at THEN unread ELSE unread \cup {f}
             /\ UNCHANGED entries
             /\ \/ UNCHANGED at
                \/ \E loc \in Renamed(f) \cup {Lost} : at' = MovedTo(f, loc)
    <3>1. unread \subseteq unread' /\ \A g \in Files \ unread' : at'[g] = at[g]
      BY <2>4 DEF MovedTo
    <3> QED
      BY <2>1, <2>4, <3>1, TheListIsUnread
  <2> QED
    BY <2>2, <2>3, <2>4
<1>5. ASSUME NEW c \in Columns, ToggleSort(c) PROVE ShowsWhatIsStored'
  <2>1. /\ entries' = [entries EXCEPT !.by = sorting']
        /\ UNCHANGED <<at, currentPath, unread>>
    BY <1>5 DEF ToggleSort
  <2>2. entries'.files = entries.files /\ entries'.folder = entries.folder
    BY <2>1
  <2>3. entries'.by = sorting'
    BY <2>1
  <2> QED
    BY <2>1, <2>2, <2>3 DEF ShowsWhatIsStored, Below
<1>6. CASE StartImportProcess
  <2>1. PICK new \in SUBSET {f \in Files : at[f] = Gone},
             kept \in SUBSET {f \in Files : at[f] = Gone} :
          /\ at' = [f \in Files |-> IF f \in new \cup kept THEN currentPath ELSE at[f]]
          /\ IF new = {} THEN UNCHANGED entries /\ unread' = unread \cup kept
             ELSE RefreshEntries(at', currentPath)
    BY <1>6 DEF StartImportProcess
  <2>2. UNCHANGED <<currentPath, sorting>>
    BY <1>6 DEF StartImportProcess
  <2>3. CASE new = {}
    <3>1. \A f \in Files \ unread' : at'[f] = at[f]
      BY <2>1, <2>3
    <3>2. unread \subseteq unread' /\ UNCHANGED entries
      BY <2>1, <2>3
    <3> QED
      BY <2>2, <3>1, <3>2, TheListIsUnread
  <2>4. CASE new # {}
    <3>1. entries' = ListFiles(at', currentPath') /\ unread' = {}
      BY <2>1, <2>2, <2>4 DEF RefreshEntries, ListFiles
    <3> QED
      BY <2>2, <3>1, TheListIsRead
  <2> QED
    BY <2>3, <2>4
<1>7. CASE \/ \E f \in Files, ctrl \in BOOLEAN : HandleEntryClick(f, ctrl)
           \/ OpenContextMenu \/ RenderContextMenu \/ HandleKeyboardShortcuts
  <2>1. UNCHANGED <<at, currentPath, sorting, entries, unread>>
    BY <1>7 DEF HandleEntryClick, OpenContextMenu, RenderContextMenu,
      HandleKeyboardShortcuts, Select, ListStays
  <2> QED
    BY <2>1, TheListStays
<1>8. CASE CancelDelete \/ CancelRename \/ CancelChangeLevel
           \/ HandleDroppedFiles \/ OpenImportDialog \/ RenderImportDialog
           \/ DismissImportResult \/ OpenExportDialog \/ DismissExportResult
  <2>1. UNCHANGED <<at, currentPath, sorting, entries, unread>>
    BY <1>8 DEF CancelDelete, CancelRename, CancelChangeLevel, HandleDroppedFiles,
      OpenImportDialog, RenderImportDialog, DismissImportResult, OpenExportDialog,
      DismissExportResult, ListStays, RestStays
  <2> QED
    BY <2>1, TheListStays
<1>9. CASE UNCHANGED browserVars
  BY <1>9, TheListStays DEF browserVars
<1> QED
  BY <1>2, <1>3, <1>4, <1>5, <1>6, <1>7, <1>8, <1>9 DEF BrowserNext

\* The list of the browser is what is in the folder shown, sorted as its header
\* says, after every click, dialog, import and failure (refresh_entries is never
\* forgotten), but for the files an import or a rename changed when it failed, until
\* the list is read again.
THEOREM TheListIsCurrent == BrowserSpec => []ShowsWhatIsStored
<1>1. BrowserInit => ShowsWhatIsStored
  <2> SUFFICES ASSUME BrowserInit PROVE ShowsWhatIsStored
    OBVIOUS
  <2>1. /\ entries.files = {f \in Files : at[f] = currentPath}
        /\ entries.folder = \E f \in Files : Below(at[f], currentPath)
        /\ entries.by = sorting
    BY DEF BrowserInit, ListFiles
  <2>2. \A f \in Files : f \in entries.files <=> at[f] = currentPath
    BY <2>1
  <2>3. (\E f \in Files : Below(at[f], currentPath)) <=> entries.folder
    BY <2>1
  <2> QED
    BY <2>1, <2>2, <2>3 DEF ShowsWhatIsStored
<1>2. ShowsWhatIsStored /\ [BrowserNext]_browserVars => ShowsWhatIsStored'
  BY BrowserStep
<1> QED
  BY <1>1, <1>2, PTL DEF BrowserSpec

-----------------------------------------------------------------------------
(***************************************************************************)
(* The wizard.  The page with the password is not left after the vault was *)
(* made but by going back to the start, with everything forgotten.         *)
(***************************************************************************)
OnLastPage == {"step", "key", "master"}

\* The wizard keeps its fields, and its last page the password of the vault.
WizardInv == OnLastPage \subseteq DOMAIN wizard /\ CompletePageOpensVault

\* A step is safe if it leads to another page, or touches nothing the last one shows.
LEMMA AnotherPage ==
  ASSUME OnLastPage \subseteq DOMAIN wizard', wizard'.step # "Complete"
  PROVE  WizardInv'
  BY DEF WizardInv, CompletePageOpensVault

\* So is one that changes neither the wizard nor what it made.
LEMMA SamePage ==
  ASSUME WizardInv, UNCHANGED <<wizard, made>>
  PROVE  WizardInv'
  BY DEF WizardInv, CompletePageOpensVault

\* A page is before the last one, and so is the one it is turned to.
LEMMA Pages ==
  /\ Order[1] = "Location" /\ Order[2] = "Password"
  /\ Order[3] = "AccessLevels" /\ Order[4] = "RecoveryKey"
  /\ \A i \in 1 .. 4 : Order[i] # "Complete"
<1>1. /\ Order[1] = "Location" /\ Order[2] = "Password"
      /\ Order[3] = "AccessLevels" /\ Order[4] = "RecoveryKey"
  BY DEF Order
<1>2. \A i \in 1 .. 4 : i = 1 \/ i = 2 \/ i = 3 \/ i = 4
  OBVIOUS
<1> QED
  BY <1>1, <1>2

\* Filling in a field of a page leaves the page.
LEMMA FillIn ==
  ASSUME NEW x, NEW v, x # "step", OnLastPage \subseteq DOMAIN wizard,
         wizard.step # "Complete", wizard' = [wizard EXCEPT ![x] = v]
  PROVE  WizardInv'
<1>1. OnLastPage \subseteq DOMAIN wizard'
  OBVIOUS
<1>2. wizard'.step = wizard.step
  BY DEF OnLastPage
<1> QED
  BY <1>1, <1>2, AnotherPage

\* Every step of the wizard keeps it.
LEMMA WizardStep ==
  ASSUME WizardInv, [WizardNext]_wizardVars
  PROVE  WizardInv'
<1>1. OnLastPage \subseteq DOMAIN wizard
  BY DEF WizardInv
<1>2. \A i \in 1 .. 4 : Page(i) => wizard.step # "Complete"
  BY Pages DEF Page
<1>3. ASSUME wizard' = NewWizard PROVE WizardInv'
  <2>1. OnLastPage \subseteq DOMAIN wizard' /\ wizard'.step # "Complete"
    BY <1>3 DEF NewWizard, OnLastPage
  <2> QED
    BY <2>1, AnotherPage
<1>4. ASSUME NEW s, s # "Complete", wizard' = [wizard EXCEPT !.step = s] PROVE WizardInv'
  <2>1. OnLastPage \subseteq DOMAIN wizard' /\ wizard'.step # "Complete"
    BY <1>1, <1>4 DEF OnLastPage
  <2> QED
    BY <2>1, AnotherPage
<1>5. CASE NextStep
  <2>1. PICK i \in 1 .. 3 : wizard' = [wizard EXCEPT !.step = Order[i + 1]]
    BY <1>5 DEF NextStep, Turn
  <2>2. i + 1 \in 1 .. 4
    OBVIOUS
  <2> QED
    BY <1>4, <2>1, <2>2, Pages
<1>6. CASE PreviousStep
  <2>1. PICK i \in 2 .. 4 : wizard' = [wizard EXCEPT !.step = Order[i - 1]]
    BY <1>6 DEF PreviousStep, Turn
  <2>2. i - 1 \in 1 .. 4
    OBVIOUS
  <2> QED
    BY <1>4, <2>1, <2>2, Pages
<1>7. CASE CancelVaultCreation \/ FinishVaultCreation
  BY <1>3, <1>7 DEF CancelVaultCreation, FinishVaultCreation
<1>8. CASE Leave \/ StartVaultCreation \/ Minute \/ ClearClipboard \/ CopyRecoveryKey
  BY <1>8, SamePage DEF Leave, StartVaultCreation, Minute, ClearClipboard, CopyRecoveryKey
<1>9. CASE SetVaultPath
  <2>1. PICK where : wizard' = [wizard EXCEPT !.location = where]
    BY <1>9 DEF SetVaultPath, Turn
  <2>2. wizard.step # "Complete"
    BY <1>2, <1>9 DEF SetVaultPath
  <2> QED
    BY <1>1, <2>1, <2>2, FillIn
<1>10. CASE TypePassword
  <2>1. PICK p : wizard' = [wizard EXCEPT !.master = p] \/ wizard' = [wizard EXCEPT !.confirm = p]
    BY <1>10 DEF TypePassword, Turn
  <2>2. wizard.step # "Complete"
    BY <1>2, <1>10 DEF TypePassword
  <2> QED
    BY <1>1, <2>1, <2>2, FillIn
<1>11. CASE ChooseDefaults
  <2>1. wizard.step # "Complete"
    BY <1>2, <1>11 DEF ChooseDefaults
  <2>2. CASE wizard' = [wizard EXCEPT !.defaults = FALSE]
    BY <1>1, <2>1, <2>2, FillIn
  <2>3. ASSUME NEW ls, wizard' = [wizard EXCEPT !.defaults = TRUE, !.levels = ls]
        PROVE  WizardInv'
    <3>1. OnLastPage \subseteq DOMAIN wizard' /\ wizard'.step # "Complete"
      BY <1>1, <2>1, <2>3 DEF OnLastPage
    <3> QED
      BY <3>1, AnotherPage
  <2> QED
    BY <1>11, <2>2, <2>3 DEF ChooseDefaults, Turn
<1>12. CASE EditLevels
  <2>1. wizard.step # "Complete"
    BY <1>2, <1>12 DEF EditLevels
  <2>2. ASSUME NEW n, wizard' = [wizard EXCEPT !.levels = SetLevelCount(n)]
        PROVE  WizardInv'
    BY <1>1, <2>1, <2>2, FillIn
  <2>3. ASSUME NEW i, NEW l, wizard' = [wizard EXCEPT !.levels[i] = l]
        PROVE  WizardInv'
    <3>1. OnLastPage \subseteq DOMAIN wizard' /\ wizard'.step # "Complete"
      BY <1>1, <2>1, <2>3 DEF OnLastPage
    <3> QED
      BY <3>1, AnotherPage
  <2> QED
    BY <1>12, <2>2, <2>3 DEF EditLevels, Turn
<1>13. CASE ShowRecoveryKey
  <2>1. wizard.step # "Complete" /\ wizard' = [wizard EXCEPT !.shown = "generated"]
    BY <1>2, <1>13 DEF ShowRecoveryKey, Turn
  <2> QED
    BY <1>1, <2>1, FillIn
<1>14. CASE ConfirmRecoveryKey
  <2>1. PICK b : wizard' = [wizard EXCEPT !.confirmed = b]
    BY <1>14 DEF ConfirmRecoveryKey, Turn
  <2>2. wizard.step # "Complete"
    BY <1>2, <1>14 DEF ConfirmRecoveryKey
  <2> QED
    BY <1>1, <2>1, <2>2, FillIn
<1>15. CASE ExecuteVaultCreation
  <2>1. CASE /\ made' = [by |-> wizard]
             /\ wizard' = [wizard EXCEPT !.step = "Complete", !.shown = "vault's", !.key = TRUE]
    <3>1. OnLastPage \subseteq DOMAIN wizard'
      BY <1>1, <2>1
    <3>2. wizard'.key /\ wizard'.master = wizard.master
      BY <1>1, <2>1 DEF OnLastPage
    <3>3. made'.by = wizard /\ made' # <<>>
      BY <2>1
    <3> QED
      BY <3>1, <3>2, <3>3 DEF WizardInv, CompletePageOpensVault
  <2>2. CASE wizard' = [wizard EXCEPT !.step = "Creating", !.failed = TRUE]
    <3>1. OnLastPage \subseteq DOMAIN wizard' /\ wizard'.step # "Complete"
      BY <1>1, <2>2 DEF OnLastPage
    <3> QED
      BY <3>1, AnotherPage
  <2> QED
    BY <1>15, <2>1, <2>2 DEF ExecuteVaultCreation
<1>16. CASE TryAgain
  <2>1. wizard' = [wizard EXCEPT !.failed = FALSE, !.step = "RecoveryKey"]
    BY <1>16 DEF TryAgain, Turn
  <2>2. OnLastPage \subseteq DOMAIN wizard' /\ wizard'.step # "Complete"
    BY <1>1, <2>1 DEF OnLastPage
  <2> QED
    BY <2>2, AnotherPage
<1>17. CASE UNCHANGED wizardVars
  BY <1>17, SamePage DEF wizardVars
<1> QED
  BY <1>5, <1>6, <1>7, <1>8, <1>9, <1>10, <1>11, <1>12, <1>13, <1>14, <1>15, <1>16, <1>17
  DEF WizardNext

\* Whenever the page that says the vault is complete is shown, also after the wizard
\* was left and shown again, the wizard has the key and the password that open the
\* vault it made.
THEOREM LastPageOpensTheVault == WizardSpec => []CompletePageOpensVault
<1>1. WizardInit => WizardInv
  <2>1. ASSUME wizard = NewWizard PROVE OnLastPage \subseteq DOMAIN wizard /\ wizard.step = "Location"
    BY <2>1 DEF NewWizard, OnLastPage
  <2> QED
    BY <2>1 DEF WizardInit, WizardInv, CompletePageOpensVault
<1>2. WizardInv /\ [WizardNext]_wizardVars => WizardInv'
  BY WizardStep
<1>3. WizardInv => CompletePageOpensVault
  BY DEF WizardInv
<1> QED
  BY <1>1, <1>2, <1>3, PTL DEF WizardSpec

-----------------------------------------------------------------------------
(***************************************************************************)
(* The levels of the settings.  The list they show may be of another vault *)
(* and of any age: the invariant says nothing about it.                    *)
(***************************************************************************)
\* The levels of every vault, and the vaults the session may be of.
LevelsTyped ==
  /\ config \in [Vaults -> SUBSET Ids] /\ keystore \in [Vaults -> SUBSET Ids]
  /\ filled \in [Vaults -> SUBSET Ids]
  /\ {path, open} \subseteq Vaults \cup {None}
  /\ unlocked \subseteq Ids

LevelsInv == LevelsTyped /\ LevelsWithFilesStay

\* A set of levels is finite, and changing it by one changes its number by at most one.
LEMMA LevelSetsAreFinite ==
  ASSUME NEW S \in SUBSET Ids
  PROVE  IsFiniteSet(S) /\ Cardinality(S) \in Nat
<1>1. MaxLevels \in Int /\ 1 \in Int
  BY SettingsAssumption
<1>2. IsFiniteSet(1 .. MaxLevels)
  BY <1>1, FS_Interval
<1>3. IsFiniteSet(S)
  BY <1>2, FS_Subset DEF Ids
<1> QED
  BY <1>3, FS_CardinalityType

\* A vault that gets a level still has enough of them.
LEMMA OneMoreLevel ==
  ASSUME NEW S \in SUBSET Ids, NEW l, Cardinality(S) >= MinLevels
  PROVE  Cardinality(S \cup {l}) >= MinLevels
<1>1. IsFiniteSet(S) /\ Cardinality(S) \in Nat
  BY LevelSetsAreFinite
<1>2. Cardinality(S \cup {l}) = IF l \in S THEN Cardinality(S) ELSE Cardinality(S) + 1
  BY <1>1, FS_AddElement
<1> QED
  BY <1>1, <1>2, SettingsAssumption

\* A vault with more levels than the minimum can spare one.
LEMMA OneLevelLess ==
  ASSUME NEW S \in SUBSET Ids, NEW l, Cardinality(S) > MinLevels
  PROVE  Cardinality(S \ {l}) >= MinLevels
<1>1. IsFiniteSet(S) /\ Cardinality(S) \in Nat
  BY LevelSetsAreFinite
<1>2. Cardinality(S \ {l}) = IF l \in S THEN Cardinality(S) - 1 ELSE Cardinality(S)
  BY <1>1, FS_RemoveElement
<1> QED
  BY <1>1, <1>2, SettingsAssumption

\* The levels a vault starts with: at least the minimum.
LEMMA FirstLevels ==
  ASSUME NEW n \in MinLevels .. MaxLevels
  PROVE  1 .. n \in SUBSET Ids /\ Cardinality(1 .. n) = n
<1>1. n \in Nat /\ n >= 1 /\ n <= MaxLevels /\ MaxLevels \in Nat
  BY SettingsAssumption
<1>2. 1 \in Int /\ n \in Int
  BY <1>1
<1>3. Cardinality(1 .. n) = IF 1 > n THEN 0 ELSE n - 1 + 1
  BY <1>2, FS_Interval
<1> QED
  BY <1>1, <1>3 DEF Ids

\* A step that leaves the vaults as they are keeps the invariant.
LEMMA VaultsAreLeftAlone ==
  ASSUME LevelsInv, UNCHANGED vaultVars,
         {path', open'} \subseteq Vaults \cup {None}, unlocked' \subseteq Ids
  PROVE  LevelsInv'
  BY DEF LevelsInv, LevelsTyped, LevelsWithFilesStay, vaultVars

\* The first states of the settings satisfy the invariant.
LEMMA InitLevels == LevelsInit => LevelsInv
<1> SUFFICES ASSUME LevelsInit PROVE LevelsInv
  OBVIOUS
<1>1. config \in [Vaults -> {1 .. n : n \in MinLevels .. MaxLevels}]
  BY DEF LevelsInit
<1>2. \A v \in Vaults : config[v] \in SUBSET Ids /\ Cardinality(config[v]) >= MinLevels
  <2> SUFFICES ASSUME NEW v \in Vaults
               PROVE  config[v] \in SUBSET Ids /\ Cardinality(config[v]) >= MinLevels
    OBVIOUS
  <2>1. PICK n \in MinLevels .. MaxLevels : config[v] = 1 .. n
    BY <1>1
  <2> QED
    BY <2>1, FirstLevels
<1>3. config \in [Vaults -> SUBSET Ids]
  BY <1>1, <1>2
<1>4. /\ keystore = config /\ filled = [v \in Vaults |-> {}]
      /\ path = None /\ open = None /\ unlocked = {}
  BY DEF LevelsInit
<1> QED
  BY <1>2, <1>3, <1>4 DEF LevelsInv, LevelsTyped, LevelsWithFilesStay

\* Every click in the settings, and what happens beside them, keeps it.
LEMMA LevelsStep == LevelsInv /\ [LevelsNext]_levelVars => LevelsInv'
<1> SUFFICES ASSUME LevelsInv, [LevelsNext]_levelVars PROVE LevelsInv'
  OBVIOUS
<1> USE DEF LevelsInv, LevelsTyped
<1>1. CASE \E v \in Vaults : SelectVault(v)
  BY <1>1, VaultsAreLeftAlone DEF SelectVault
<1>2. CASE Login
  BY <1>2, VaultsAreLeftAlone DEF Login
<1>3. CASE LockVault
  BY <1>3, VaultsAreLeftAlone DEF LockVault
<1>4. CASE MarkRefreshNeeded \/ RefreshLevels \/ OpenDialog \/ CloseDialog \/ ChangePassword
           \/ UNCHANGED levelVars
  <2>1. UNCHANGED <<vaultVars, path, open, unlocked>>
    BY <1>4 DEF MarkRefreshNeeded, RefreshLevels, OpenDialog, CloseDialog, ChangePassword,
      Show, levelVars
  <2> QED
    BY <2>1, VaultsAreLeftAlone
<1>5. CASE ImportOrDelete
  <2>1. PICK l \in unlocked :
          /\ keystore' = [keystore EXCEPT ![open] = @ \cup {l}]
          /\ \E there \in {{}, {l}} : filled' = [filled EXCEPT ![open] = (@ \ {l}) \cup there]
    BY <1>5 DEF ImportOrDelete
  <2>2. UNCHANGED <<config, path, open, unlocked>>
    BY <1>5 DEF ImportOrDelete
  <2>3. /\ keystore' \in [Vaults -> SUBSET Ids] /\ filled' \in [Vaults -> SUBSET Ids]
        /\ \A v \in Vaults : filled'[v] \subseteq keystore'[v]
    BY <2>1 DEF LevelsWithFilesStay
  <2> QED
    BY <2>2, <2>3 DEF LevelsWithFilesStay
<1>6. CASE CreateLevel
  <2>1. PICK l \in NextAvailable :
          /\ config' = [config EXCEPT ![path] = @ \cup {l}]
          /\ keystore' = [keystore EXCEPT ![path] = @ \cup {l}]
          /\ filled' = [filled EXCEPT ![path] = @ \ {l}]
    BY <1>6 DEF CreateLevel
  <2>2. UNCHANGED <<path, open, unlocked>> /\ path \in Vaults /\ l \in Ids
    BY <1>6, <2>1 DEF CreateLevel, NextAvailable
  <2>3. /\ config' \in [Vaults -> SUBSET Ids] /\ keystore' \in [Vaults -> SUBSET Ids]
        /\ filled' \in [Vaults -> SUBSET Ids]
        /\ \A v \in Vaults : filled'[v] \subseteq keystore'[v]
    BY <2>1, <2>2 DEF LevelsWithFilesStay
  <2>4. \A v \in Vaults : Cardinality(config'[v]) >= MinLevels
    BY <2>1, <2>2, OneMoreLevel DEF LevelsWithFilesStay
  <2> QED
    BY <2>2, <2>3, <2>4 DEF LevelsWithFilesStay
<1>7. CASE DeleteLevel
  <2>1. /\ keystore' = [keystore EXCEPT ![path] = @ \ {dialog.delete}]
        /\ UNCHANGED <<filled, path, open, unlocked>>
        /\ path \in Vaults /\ dialog.delete \notin filled[path]
    BY <1>7 DEF DeleteLevel
  <2>2. /\ keystore' \in [Vaults -> SUBSET Ids]
        /\ \A v \in Vaults : filled'[v] \subseteq keystore'[v]
    BY <2>1 DEF LevelsWithFilesStay
  <2>3. CASE UNCHANGED config
    BY <2>1, <2>2, <2>3 DEF LevelsWithFilesStay
  <2>4. CASE /\ Cardinality(config[path]) > MinLevels
             /\ config' = [config EXCEPT ![path] = @ \ {dialog.delete}]
    <3>1. config' \in [Vaults -> SUBSET Ids]
      BY <2>1, <2>4
    <3>2. \A v \in Vaults : Cardinality(config'[v]) >= MinLevels
      BY <2>1, <2>4, OneLevelLess DEF LevelsWithFilesStay
    <3> QED
      BY <2>1, <2>2, <3>1, <3>2 DEF LevelsWithFilesStay
  <2> QED
    BY <1>7, <2>3, <2>4 DEF DeleteLevel
<1> QED
  BY <1>1, <1>2, <1>3, <1>4, <1>5, <1>6, <1>7 DEF LevelsNext

\* However old the list of levels is, and whichever vault it was read from, the
\* buttons beside it take no keystore with files in it, and leave every vault its
\* minimum of levels (delete_level looks for itself).
THEOREM FilledLevelsStay == LevelsSpec => []LevelsWithFilesStay
<1>1. LevelsInv => LevelsWithFilesStay
  BY DEF LevelsInv
<1> QED
  BY <1>1, InitLevels, LevelsStep, PTL DEF LevelsSpec
=============================================================================

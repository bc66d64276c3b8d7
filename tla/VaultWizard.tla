---------------------------- MODULE VaultWizard ----------------------------
(***************************************************************************)
(* The wizard that creates a vault, and the screen that resets a password  *)
(* with the recovery key (crates/gui/src/screens.rs and app.rs).           *)
(*                                                                         *)
(* Both keep their state when the menu leads to another screen, and are on *)
(* the same page when they are shown again.  What the typed passwords are  *)
(* like is in the sets Acceptable and Passwords; the empty one is "".      *)
(***************************************************************************)
EXTENDS Naturals, Sequences

CONSTANTS
  Passwords,   \* what may be typed
  Acceptable,  \* those with a strength of at least Fair
  MaxCount     \* bound: levels of a new vault (10 in the code)

ASSUME WizardAssumption == Acceptable \subseteq Passwords /\ MaxCount \in Nat \ {0}

VARIABLES
  screen,     \* "VaultCreation", "PasswordRecovery", or another
  wizard,     \* wizard_state
  clipboard,  \* the recovery key in it: none, since a while, for a minute
  made,       \* what create_vault was called with, once it succeeded
  recovery,   \* recovery_state
  password    \* the password that opens the vault under recovery

wizardVars   == <<screen, wizard, clipboard, made>>
recoveryVars == <<recovery, password>>

Typed == Passwords \cup {""}

\* WizardAccessLevel::new, and one as the user may leave it: matching says that its
\* own password is not empty and was repeated.
NewLevel == [useMaster |-> TRUE, matching |-> FALSE]
Valid(level) == level.useMaster \/ level.matching

NewWizard ==
  [step |-> "Location", location |-> "none", master |-> "", confirm |-> "",
   levels |-> [i \in 1 .. 3 |-> NewLevel], defaults |-> TRUE,
   shown |-> "none", confirmed |-> FALSE, failed |-> FALSE, key |-> FALSE]

WizardInit ==
  /\ screen = "VaultCreation"
  /\ wizard = NewWizard
  /\ clipboard = "none"
  /\ made = <<>>

-----------------------------------------------------------------------------
(***************************************************************************)
(* From page to page.                                                      *)
(***************************************************************************)
Order == <<"Location", "Password", "AccessLevels", "RecoveryKey">>
Page(i) == wizard.step = Order[i]

CanProceed ==
  CASE wizard.step = "Location"     -> wizard.location = "removable"
    [] wizard.step = "Password"     -> /\ wizard.master \in Acceptable
                                       /\ wizard.master = wizard.confirm
    [] wizard.step = "AccessLevels" -> \A i \in DOMAIN wizard.levels : Valid(wizard.levels[i])
    [] wizard.step = "RecoveryKey"  -> wizard.confirmed /\ wizard.shown # "none"
    [] OTHER                        -> FALSE

Turn(w) == wizard' = w /\ UNCHANGED <<screen, clipboard, made>>

NextStep == \E i \in 1 .. 3 :
  /\ Page(i) /\ CanProceed
  /\ Turn([wizard EXCEPT !.step = Order[i + 1]])

PreviousStep ==
  \E i \in 2 .. 4 : Page(i) /\ Turn([wizard EXCEPT !.step = Order[i - 1]])

\* cancel_vault_creation.
CancelVaultCreation ==
  /\ \E i \in 1 .. 4 : Page(i)
  /\ wizard' = NewWizard
  /\ screen' = "VaultSelection"
  /\ UNCHANGED <<clipboard, made>>

\* The menu leaves the wizard as it is, and start_vault_creation shows it so again:
\* the location chosen there goes to new_vault_path, which nothing reads.
Leave == screen' = "VaultSelection" /\ UNCHANGED <<wizard, clipboard, made>>
StartVaultCreation ==
  /\ screen = "VaultSelection"
  /\ screen' = "VaultCreation"
  /\ UNCHANGED <<wizard, clipboard, made>>

-----------------------------------------------------------------------------
(***************************************************************************)
(* What is typed on each page.                                             *)
(***************************************************************************)
\* set_vault_path: refused by validate_new_vault_location, on a fixed disk, which is
\* an error as well, or on removable media (also where that cannot be told).
SetVaultPath ==
  /\ Page(1)
  /\ \E where \in {"refused", "fixed", "removable"} : Turn([wizard EXCEPT !.location = where])

TypePassword ==
  /\ Page(2)
  /\ \E p \in Typed : \/ Turn([wizard EXCEPT !.master = p])
                      \/ Turn([wizard EXCEPT !.confirm = p])

\* set_level_count keeps the levels that remain.
SetLevelCount(n) ==
  [i \in 1 .. n |-> IF i \in DOMAIN wizard.levels THEN wizard.levels[i] ELSE NewLevel]

\* With the default configuration the page makes the levels three that share the
\* master password; what was typed for them is kept.
ChooseDefaults ==
  /\ Page(3)
  /\ \/ Turn([wizard EXCEPT !.defaults = TRUE,
              !.levels = [i \in 1 .. 3 |-> [SetLevelCount(3)[i] EXCEPT !.useMaster = TRUE]]])
     \/ Turn([wizard EXCEPT !.defaults = FALSE])

EditLevels ==
  /\ Page(3) /\ ~wizard.defaults
  /\ \/ \E n \in 1 .. MaxCount : Turn([wizard EXCEPT !.levels = SetLevelCount(n)])
     \/ \E i \in DOMAIN wizard.levels, b, m \in BOOLEAN :
          Turn([wizard EXCEPT !.levels[i] = [useMaster |-> b, matching |-> m]])

\* The first time the page is shown a key is generated, which may fail; then it is
\* copied or written to a file, and confirmed.
ShowRecoveryKey ==
  /\ Page(4) /\ wizard.shown = "none"
  /\ Turn([wizard EXCEPT !.shown = "generated"])

ConfirmRecoveryKey == Page(4) /\ \E b \in BOOLEAN : Turn([wizard EXCEPT !.confirmed = b])

CopyRecoveryKey ==
  /\ Page(4) /\ wizard.shown # "none"
  /\ clipboard' = "fresh"
  /\ UNCHANGED <<screen, wizard, made>>

Minute ==
  /\ clipboard = "fresh" /\ clipboard' = "due"
  /\ UNCHANGED <<screen, wizard, made>>

\* update looks at the time on this screen only.
ClearClipboard ==
  /\ screen = "VaultCreation" /\ clipboard = "due"
  /\ clipboard' = "none"
  /\ UNCHANGED <<screen, wizard, made>>

-----------------------------------------------------------------------------
(***************************************************************************)
(* The end of it.                                                          *)
(***************************************************************************)
\* Mutated form: the passwords are wiped as soon as the vault is there.
ExecuteVaultCreation_Wipes ==
  /\ Page(4) /\ CanProceed
  /\ made' = [by |-> wizard]
  /\ wizard' = [wizard EXCEPT !.step = "Complete", !.shown = "vault's", !.key = TRUE,
                             !.master = "", !.confirm = ""]
  /\ UNCHANGED <<screen, clipboard>>

\* execute_vault_creation.  The passwords of the levels are only passed on without
\* the default configuration.  create_vault draws a recovery key of its own, which
\* takes the place of the one that was shown.
ExecuteVaultCreation ==
  /\ Page(4) /\ CanProceed
  /\ \/ /\ made' = [by |-> wizard]
        /\ wizard' = [wizard EXCEPT !.step = "Complete", !.shown = "vault's", !.key = TRUE]
     \/ /\ wizard' = [wizard EXCEPT !.step = "Creating", !.failed = TRUE]
        /\ UNCHANGED made
  /\ UNCHANGED <<screen, clipboard>>

TryAgain ==
  /\ wizard.step = "Creating"
  /\ Turn([wizard EXCEPT !.failed = FALSE, !.step = "RecoveryKey"])

\* finish_vault_creation, with the password still in the wizard; the vault may not
\* open, and the page stays.
FinishVaultCreation ==
  /\ wizard.step = "Complete"
  /\ wizard' = NewWizard
  /\ screen' = "FileBrowser"
  /\ made' = <<>>
  /\ UNCHANGED clipboard

WizardNext ==
  \/ /\ screen = "VaultCreation"
     /\ \/ NextStep \/ PreviousStep \/ CancelVaultCreation \/ Leave
        \/ SetVaultPath \/ TypePassword \/ ChooseDefaults \/ EditLevels
        \/ ShowRecoveryKey \/ ConfirmRecoveryKey \/ CopyRecoveryKey
        \/ ExecuteVaultCreation \/ TryAgain \/ FinishVaultCreation
  \/ StartVaultCreation \/ Minute \/ ClearClipboard

WizardSpec == WizardInit /\ [][WizardNext]_wizardVars

-----------------------------------------------------------------------------
(***************************************************************************)
(* PasswordRecoveryState.  The key that is typed is right for the vault,   *)
(* wrong, or not a key at all; the password of one level is followed.      *)
(***************************************************************************)
Keys == {"", "malformed", "wrong", "right"}

NewRecovery ==
  [step |-> "EnterKey", key |-> "", error |-> FALSE, new |-> "", confirm |-> "", level |-> 1]

RecoveryInit == recovery = NewRecovery /\ password \in Passwords

Enter(r) == recovery' = r /\ UNCHANGED password

\* The error of an earlier attempt stays while the key is corrected.
TypeKey ==
  /\ recovery.step = "EnterKey"
  /\ \E k \in Keys : Enter([recovery EXCEPT !.key = k])

\* To the words or to base64, which clears the error.
ChangeMode == recovery.step = "EnterKey" /\ Enter([recovery EXCEPT !.error = FALSE])

\* attempt_recovery_key_verification: authenticate_recovery opens the vault.  Levels
\* 1 to 3 are offered, whichever the vault has.
VerifyKey ==
  /\ recovery.step = "EnterKey" /\ recovery.key # "" /\ ~recovery.error
  /\ \/ /\ recovery.key = "right"
        /\ Enter([recovery EXCEPT !.step = "EnterNewPassword", !.level = 1])
     \/ Enter([recovery EXCEPT !.error = TRUE])

TypeNewPassword ==
  /\ recovery.step = "EnterNewPassword"
  /\ \/ \E p \in Typed : \/ Enter([recovery EXCEPT !.new = p])
                         \/ Enter([recovery EXCEPT !.confirm = p])
     \/ \E l \in 1 .. 3 : Enter([recovery EXCEPT !.level = l])

CanSubmitPassword == recovery.new \in Acceptable /\ recovery.new = recovery.confirm

\* attempt_password_reset: reset_level_password_with_recovery does it or fails.
ResetPassword ==
  /\ recovery.step = "EnterNewPassword" /\ CanSubmitPassword
  /\ \/ /\ password' = IF recovery.level = 1 THEN recovery.new ELSE password
        /\ recovery' = [NewRecovery EXCEPT !.step = "Success", !.level = recovery.level]
     \/ Enter([recovery EXCEPT !.step = "Failed"])

\* Try Again, Back to Login, Return to Login, and "Forgot password?" of the login.
StartOver ==
  /\ recovery' = NewRecovery
  /\ UNCHANGED password

RecoveryNext ==
  \/ TypeKey \/ ChangeMode \/ VerifyKey \/ TypeNewPassword \/ ResetPassword \/ StartOver

-----------------------------------------------------------------------------
(***************************************************************************)
(* Properties.                                                             *)
(***************************************************************************)
\* The page that says the vault is complete still has the password that opens it.
CompletePageOpensVault ==
  wizard.step = "Complete" => made # <<>> /\ wizard.key /\ wizard.master = made.by.master

\* The recovery key the user has saved is the vault's.  Stated by the warning the
\* page shows ("this is the ONLY time you will see your recovery key") and known to
\* be violated: create_vault draws another, which is not shown any more.
SavedKeyIsTheVaults ==
  wizard.step = "Complete" => made.by.shown = wizard.shown
=============================================================================

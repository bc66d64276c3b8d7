----------------------------- MODULE MCScreens -----------------------------
(***************************************************************************)
(* The file browser, the wizards and the settings for TLC.  They share no  *)
(* state: a run stays in one of them.                                      *)
(***************************************************************************)
EXTENDS FileBrowser, VaultWizard, Settings, DriveSetup, TLC

Symmetry == Permutations(Vaults) \cup Permutations(Files)

VARIABLE used

screenVars == <<wizardVars, recoveryVars, levelVars, driveVars, driveSetupVars>>
vars == <<used, browserVars, screenVars>>

Init ==
  /\ used \in {"browser", "creation", "recovery", "levels", "letters", "drives"}
  /\ BrowserInit /\ WizardInit /\ RecoveryInit /\ LevelsInit /\ LettersInit /\ SetupInit
  \* What is not used starts in one state.
  /\ used # "browser" => at = [f \in Files |-> Gone]
  /\ used # "recovery" => password = CHOOSE p \in Passwords : TRUE
  /\ used # "levels" => config = [v \in Vaults |-> 1 .. MinLevels]
  /\ used # "letters" => free = Letters
  /\ used # "drives" => bus = <<>> /\ blank = Disks

Next ==
  /\ UNCHANGED used
  /\ \/ used = "browser" /\ BrowserNext /\ UNCHANGED screenVars
     \/ /\ used = "creation" /\ WizardNext
        /\ UNCHANGED <<browserVars, recoveryVars, levelVars, driveVars, driveSetupVars>>
     \/ /\ used = "recovery" /\ RecoveryNext
        /\ UNCHANGED <<browserVars, wizardVars, levelVars, driveVars, driveSetupVars>>
     \/ /\ used = "levels" /\ LevelsNext
        /\ UNCHANGED <<browserVars, wizardVars, recoveryVars, driveVars, driveSetupVars>>
     \/ /\ used = "letters" /\ LettersNext
        /\ UNCHANGED <<browserVars, wizardVars, recoveryVars, levelVars, driveSetupVars>>
     \/ /\ used = "drives" /\ SetupNext
        /\ UNCHANGED <<browserVars, wizardVars, recoveryVars, levelVars, driveVars>>

Spec == Init /\ [][Next]_vars
=============================================================================

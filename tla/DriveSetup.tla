----------------------------- MODULE DriveSetup -----------------------------
(***************************************************************************)
(* The wizard of the desktop application that encrypts a drive             *)
(* (crates/gui/src/app.rs from render_init_wizard on, with the state of    *)
(* screens.rs), over the list of drives.                                   *)
(*                                                                         *)
(* The wizard holds an index into that list.  The list is read anew when a *)
(* drive is ejected, locked, unlocked or removed and when Refresh is       *)
(* clicked, with the wizard still open on top of it.                       *)
(***************************************************************************)
EXTENDS Naturals, Sequences

CONSTANTS Disks, Nowhere

ASSUME DiskAssumption == Nowhere \notin Disks

VARIABLES
  bus,      \* the drives that are connected, in the order they are found
  found,     \* drives: the ones found last
  blank,    \* those that are not encrypted
  setup,    \* drive_init_wizard_state
  consent,  \* the disk on show when the loss of its data was agreed to
  erased    \* the disks that were initialised, each with that consent

driveSetupVars == <<bus, found, blank, setup, consent, erased>>

Steps == <<"DriveSelection", "MasterPassword", "AccessLevels", "EncryptionStrength",
           "Confirmation">>

\* Of the passwords: whether the master password is long enough and repeated, and so
\* for every level that is enabled.  The four levels start enabled, without one.
Closed ==
  [open |-> FALSE, step |-> "DriveSelection", index |-> 0, master |-> FALSE,
   levels |-> FALSE, confirmed |-> FALSE]

Orders == {<<>>} \cup {<<d>> : d \in Disks} \cup {s \in Disks \X Disks : s[1] # s[2]}

SetupInit ==
  /\ bus \in Orders /\ found = bus
  /\ blank \in SUBSET Disks
  /\ setup = Closed
  /\ consent = {} /\ erased = {}

\* The disk the pages show: whatever is at the index by now.
Shown == IF setup.index \in DOMAIN found THEN found[setup.index] ELSE Nowhere

\* reset leaves nothing of what was typed and ticked.
Reset == Closed

-----------------------------------------------------------------------------
HotPlug ==
  /\ bus' \in Orders \ {bus}
  /\ UNCHANGED <<found, blank, setup, consent, erased>>

\* refresh_drives, at the start of a frame.
RefreshDrives ==
  /\ found' = bus
  /\ UNCHANGED <<bus, blank, setup, consent, erased>>

\* Initialize, beside a drive that can_initialize.
OpenWizard ==
  /\ \E i \in DOMAIN found :
       /\ found[i] \in blank
       /\ setup' = [Reset EXCEPT !.open = TRUE, !.index = i]
  /\ consent' = {}
  /\ UNCHANGED <<bus, found, blank, erased>>

Set(s) == setup' = s /\ UNCHANGED <<bus, found, blank, consent, erased>>

\* Cancel, or Close on the last page, which shows a recovery key: random characters,
\* of which the drive knows nothing.
CloseWizard ==
  /\ setup.open /\ setup' = Reset
  /\ consent' = {}
  /\ UNCHANGED <<bus, found, blank, erased>>

PageDone ==
  CASE setup.step = "DriveSelection"     -> setup.index # 0
    [] setup.step = "MasterPassword"     -> setup.master
    [] setup.step = "AccessLevels"       -> setup.levels
    [] setup.step = "EncryptionStrength" -> TRUE
    [] setup.step = "Confirmation"       -> setup.confirmed
    [] OTHER                             -> FALSE

NextPage == \E i \in 1 .. 4 :
  setup.open /\ setup.step = Steps[i] /\ PageDone /\ Set([setup EXCEPT !.step = Steps[i + 1]])

PrevPage == \E i \in 2 .. 5 :
  setup.open /\ setup.step = Steps[i] /\ Set([setup EXCEPT !.step = Steps[i - 1]])

SelectDrive ==
  /\ setup.open /\ setup.step = "DriveSelection"
  /\ \E i \in DOMAIN found : found[i] \in blank /\ Set([setup EXCEPT !.index = i])

TypePasswords ==
  /\ setup.open
  /\ \/ setup.step = "MasterPassword" /\ Set([setup EXCEPT !.master = ~@])
     \/ setup.step = "AccessLevels" /\ Set([setup EXCEPT !.levels = ~@])

\* The box stays ticked when the user goes back to choose another drive.
ConfirmDataLoss ==
  /\ setup.open /\ setup.step = "Confirmation"
  /\ setup' = [setup EXCEPT !.confirmed = ~@]
  /\ consent' = IF setup.confirmed THEN {} ELSE {Shown}
  /\ UNCHANGED <<bus, found, blank, erased>>

\* start_drive_initialization.  The levels and the strength that were chosen are not
\* passed on.  An error leads back to the confirmation.
StartDriveInitialization ==
  /\ setup.open /\ setup.step = "Confirmation" /\ PageDone
  /\ \/ /\ \E i \in DOMAIN bus : bus[i] = Shown
        /\ erased' = erased \cup {[disk |-> Shown, consent |-> consent]}
        /\ blank' = blank \ {Shown}
        /\ setup' = [setup EXCEPT !.step = "Success"]
     \/ UNCHANGED <<erased, blank, setup>>
  /\ UNCHANGED <<bus, found, consent>>

SetupNext ==
  \/ HotPlug \/ RefreshDrives \/ OpenWizard \/ CloseWizard \/ NextPage \/ PrevPage
  \/ SelectDrive \/ TypePasswords \/ ConfirmDataLoss \/ StartDriveInitialization

-----------------------------------------------------------------------------
\* That drive is the one erased.  Known to be violated: the list is read anew while
\* the wizard is open, and another drive has its index; or the user goes back to
\* choose another, and the box is still ticked.
ErasedAsAgreed == \A e \in erased : e.consent = {e.disk}
=============================================================================

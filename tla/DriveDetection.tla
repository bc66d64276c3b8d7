--------------------------- MODULE DriveDetection ---------------------------
(* How crates/hardware finds drives and how the desktop follows one: the   *)
(* list of removable drives, the drive a vault's path lies on, and whether *)
(* that drive is still there.  Disks come and go and file systems are      *)
(* mounted on them while the program runs.                                 *)
EXTENDS Naturals

CONSTANTS
    Disks,        \* the disks' names
    DiskFacts,    \* [Disks -> what the system says of them]: removable, the
                  \* major number (the eight bits of it that are compared),
                  \* digits (the name has some before its end), readable by
                  \* the process, container (it has the header)
    Parts,        \* partition numbers; 0 is the whole disk
    MountFolders, \* where file systems are mounted (on Windows, letters)
    Above,        \* <<f, g>>: folder g is f or lies below f
    Systems       \* the systems the crate is built for

NoDrive == "no drive"
NoDevice == [disk |-> NoDrive, part |-> 0]

ASSUME DetectionAssumption ==
    /\ DiskFacts \in [Disks -> [removable : BOOLEAN, major : Nat,
                            digits : BOOLEAN, readable : BOOLEAN, container : BOOLEAN]]
    /\ 0 \in Parts /\ Parts \subseteq Nat
    /\ NoDrive \notin Disks
    /\ Above \subseteq MountFolders \X MountFolders
    /\ \A f \in MountFolders : <<f, f>> \in Above
    /\ Systems \subseteq {"linux", "macos", "windows"}

VARIABLES
    system,     \* the system of this build
    plugged,    \* the disks the machine has now
    mountedOn,  \* mountedOn[f]: the device /proc/mounts names for folder f
    current,    \* the drive the desktop follows while a vault is open
    vaultAt,    \* the folder of the vault that was opened last
    found,      \* the drive find_drive_for_path took that vault to be on
    told        \* "removed" after the desktop was told so, else "nothing"

detectvars == <<system, plugged, mountedOn, current, vaultAt, found, told>>
machine == <<plugged, mountedOn>>
asked == <<vaultAt, found>>

\* The disk a folder's files are on: the one mounted nearest above it.
Mounted(f) == {g \in MountFolders : <<g, f>> \in Above /\ mountedOn[g] # NoDevice}
DiskAt(f) ==
    IF Mounted(f) = {} THEN NoDrive
    ELSE mountedOn[CHOOSE g \in Mounted(f) : \A h \in Mounted(f) : <<h, g>> \in Above].disk

\* is_thc_container and detect_drive_type: the header's first eight bytes.
DriveTypeOf(d) ==
    CASE ~DiskFacts[d].readable -> "Unknown"
      [] DiskFacts[d].readable /\ DiskFacts[d].container -> "TesseractContainer"
      [] OTHER -> "Unencrypted"
Locked(d) == DriveTypeOf(d) = "TesseractContainer"

\* find_mount_point: the disk itself, else any partition, whose name is the
\* disk's name and digits.
OfDisk(dev, d) == dev.disk = d /\ dev.part # 0 /\ ~DiskFacts[d].digits

MountPointsOf(d) ==
    LET whole == {f \in MountFolders : mountedOn[f] = [disk |-> d, part |-> 0]}
    IN  IF whole # {} THEN whole
        ELSE {f \in MountFolders : OfDisk(mountedOn[f], d)}

Info(d, f, locked) ==
    [disk |-> d, folder |-> f, type |-> DriveTypeOf(d), locked |-> locked]

AnyInfo ==
    {Info(d, f, FALSE) : d \in plugged, f \in MountFolders \cup {NoDrive}}

\* detect_drives on Linux lists what the kernel flags as removable; locked is
\* left as DriveInfo::new sets it.
DetectLinux_Fixed ==
    {i \in AnyInfo : i.folder \in MountPointsOf(i.disk) \cup {NoDrive}}
DetectLinux ==
    {i \in AnyInfo :
        /\ DiskFacts[i.disk].removable
        /\ IF MountPointsOf(i.disk) = {} THEN i.folder = NoDrive
           ELSE i.folder \in MountPointsOf(i.disk)}

\* list_disks on macOS drops identifiers with an "s" in them, to skip
\* partitions (disk2s1); but every identifier begins with "disk".
HasAnS(d) == TRUE
ListDisks == {d \in plugged : ~HasAnS(d)}
IsDiskExternal(d) == DiskFacts[d].removable
GetDiskInfo(d) ==
    {Info(d, f, Locked(d)) :
        f \in IF MountPointsOf(d) = {} THEN {NoDrive} ELSE MountPointsOf(d)}
DetectMacOS == UNION {GetDiskInfo(d) : d \in {e \in ListDisks : IsDiskExternal(e)}}

\* On Windows: the letters of drives that GetDriveType calls removable.
GetLogicalDriveStrings == {f \in MountFolders : mountedOn[f].disk \in plugged}
GetDriveType(f) == IF DiskFacts[mountedOn[f].disk].removable THEN "Removable" ELSE "Fixed"
DetectWindows ==
    {Info(mountedOn[f].disk, f, Locked(mountedOn[f].disk)) :
        f \in {g \in GetLogicalDriveStrings : GetDriveType(g) = "Removable"}}

Detected ==
    CASE system = "linux" -> DetectLinux
      [] system = "macos" -> DetectMacOS
      [] system = "windows" -> DetectWindows

\* find_drive_for_path: the first drive of the list that is mounted above the
\* path, wherever another one is mounted nearer, or that shares the path's major
\* device number.  The list is in the order of /sys/block, and of several mounts
\* of a disk it names any one.  On Windows the canonical path begins with \\?\E:
\* and never with the drive's E:\.
Matches(i, f) ==
    \/ i.folder # NoDrive /\ <<i.folder, f>> \in Above
    \/ /\ system = "linux" /\ DiskAt(f) # NoDrive
       /\ DiskFacts[i.disk].major = DiskFacts[DiskAt(f)].major
       /\ DiskFacts[i.disk].major # 0
FindDriveForPath(f) ==
    LET matching == {i \in Detected : system # "windows" /\ Matches(i, f)}
        missed == \A i \in matching : \E j \in Detected \ matching : j.disk = i.disk
    IN  {i.disk : i \in matching} \cup (IF missed THEN {NoDrive} ELSE {})

\* is_drive_connected: on Linux the device file and a directory in /sys/block
\* whose name is the device's up to the first digit; on macOS and Windows also
\* that the question is answered: diskutil, or the device, can be opened.
ConnectedLinux(d) == d \in plugged /\ ~DiskFacts[d].digits
ConnectedMacOS(d, answers) == d \in plugged /\ answers
ConnectedWindows(d, opens) == d \in plugged /\ opens
IsDriveConnected(d, answers) ==
    CASE system = "linux" -> ConnectedLinux(d)
      [] system = "macos" -> ConnectedMacOS(d, answers)
      [] system = "windows" -> ConnectedWindows(d, answers)
---------------------------------------------------------------------------
DetectInit ==
    /\ system \in Systems
    /\ plugged = {d \in Disks : ~DiskFacts[d].removable}
    /\ mountedOn = [f \in MountFolders |-> NoDevice]
    /\ current = NoDrive /\ vaultAt = NoDrive /\ found = NoDrive
    /\ told = "nothing"

Plug(d) ==
    /\ d \notin plugged
    /\ plugged' = plugged \cup {d}
    /\ UNCHANGED <<system, mountedOn, current, asked, told>>

\* Mounts of a disk that is gone may stay listed.
Unplug(d) ==
    /\ d \in plugged
    /\ plugged' = plugged \ {d}
    /\ \E kept \in BOOLEAN :
         mountedOn' = [f \in MountFolders |->
                         IF mountedOn[f].disk = d /\ ~kept THEN NoDevice ELSE mountedOn[f]]
    /\ UNCHANGED <<system, current, asked, told>>

\* A mount that would hide another one is left out.
Mount(d, n, f) ==
    /\ d \in plugged
    /\ \A g \in MountFolders : <<f, g>> \in Above => mountedOn[g] = NoDevice
    /\ mountedOn' = [mountedOn EXCEPT ![f] = [disk |-> d, part |-> n]]
    /\ UNCHANGED <<system, plugged, current, asked, told>>

\* open_vault asks check_encrypted_drive_status where the vault lies, and
\* follows the drive it is given if that one is encrypted and not locked: on
\* Linux, which alone finds any, none is ever said to be locked.
CheckEncryptedDriveStatus(f) ==
    /\ DiskAt(f) \in plugged
    /\ vaultAt' = f
    /\ found' \in FindDriveForPath(f)
    /\ current' = IF found' # NoDrive /\ DriveTypeOf(found') = "TesseractContainer"
                  THEN found' ELSE current
    /\ told' = "nothing"
    /\ UNCHANGED <<system, machine>>

\* check_drive_removal, every two seconds.
CheckRemoval ==
    /\ current # NoDrive
    /\ \E answers \in BOOLEAN : ~IsDriveConnected(current, answers)
    /\ told' = "removed"
    /\ current' = NoDrive
    /\ UNCHANGED <<system, machine, asked>>

\* A drive of the list that has been unlocked becomes the one followed.
FollowUnlocked ==
    /\ \E i \in Detected : current' = i.disk
    /\ told' = "nothing"
    /\ UNCHANGED <<system, machine, asked>>

\* eject_drive: on Linux udisksctl powers a drive off that nothing uses, or
\* eject unmounts it first; a busy drive is an error and nothing happens.
EjectLinux ==
    /\ system = "linux" /\ current # NoDrive
    /\ plugged' = plugged \ {current}
    /\ mountedOn' = [f \in MountFolders |->
                       IF mountedOn[f].disk = current THEN NoDevice ELSE mountedOn[f]]
    /\ current' = NoDrive
    /\ UNCHANGED <<system, asked, told>>

\* On Windows the script succeeds whatever it did: the letters are removed, or
\* the command of the shell is asked for and nothing waits for it.
EjectWindows ==
    /\ system = "windows" /\ current # NoDrive
    /\ \E done \in BOOLEAN :
         mountedOn' = [f \in MountFolders |->
                         IF mountedOn[f].disk = current /\ done THEN NoDevice ELSE mountedOn[f]]
    /\ current' = NoDrive
    /\ UNCHANGED <<system, plugged, asked, told>>

DetectNext ==
    \/ \E d \in Disks :
         \/ Plug(d) \/ Unplug(d)
         \/ \E n \in Parts, f \in MountFolders : Mount(d, n, f)
    \/ \E f \in MountFolders : CheckEncryptedDriveStatus(f)
    \/ CheckRemoval
    \/ FollowUnlocked
    \/ EjectLinux \/ EjectWindows

DetectSpec == DetectInit /\ [][DetectNext]_detectvars
---------------------------------------------------------------------------
(* Known to be violated: find_drive_for_path returns the drive a path is   *)
(* on, or none (detect.rs:168).  It returns the first drive mounted above  *)
(* the path or with the path's major number, which all SCSI and USB disks  *)
(* share (detect.rs:178-206).                                              *)
FoundIsTheVaultsDrive ==
    [][ found' # found => found' \in {NoDrive, DiskAt(vaultAt')} ]_detectvars

(* Known to be violated: is_drive_connected returns false only for a drive *)
(* that is not connected (detect.rs:471).  On Windows it returns false     *)
(* when the device cannot be opened, whatever the reason (detect.rs:578).  *)
RemovedIsGone == [][ told' = "removed" /\ told # "removed" => current \notin plugged ]_detectvars

(* On Linux the desktop locks the vault because a drive was removed only   *)
(* when the drive it follows is gone, however it came to follow it.  The   *)
(* name's first digit ends the name is_drive_connected looks for           *)
(* (detect.rs:518), so a disk like nvme0n1 or mmcblk0 would be gone as     *)
(* soon as it is followed: what is listed must keep such a disk out.       *)
RemovedOnLinuxIsGone ==
    [][ system = "linux" /\ told' = "removed" /\ told # "removed"
          => current \notin plugged ]_detectvars
===========================================================================

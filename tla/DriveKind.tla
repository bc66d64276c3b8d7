----------------------------- MODULE DriveKind -----------------------------
(* Drive detection of the packaging crate: what kind of drive a path is on *)
(* on Linux (mounts and sysfs), macOS (diskutil) and Windows.  It changes  *)
(* nothing; usb.rs asks it before a drive is prepared.                     *)
EXTENDS Naturals

CONSTANTS
    BeginsWith, \* pairs of paths <<p, q>>: p's text begins with q's
    Below,      \* pairs of paths <<p, q>>: p is q, or in a directory under it
    Unknown     \* a value that could not be read or parsed

---------------------------------------------------------------------------
(* Linux.  A mount is [at, fs, class, disk]: class is the first part of    *)
(* the device's name, disk what sysfs says of the whole device.            *)

\* The mounts whose mount point the path begins with, as text; the longest.
FindMountForPath(mounts, path) ==
    LET matching == {m \in mounts : <<path, m.at>> \in BeginsWith}
    IN  {m \in matching : \A n \in matching : <<m.at, n.at>> \in BeginsWith}

SpecialFileSystem(m) ==
    CASE m.fs \in {"tmpfs", "ramfs"}         -> "RamDisk"
      [] m.fs \in {"nfs", "cifs", "smb"}     -> "Remote"
      [] m.fs \in {"iso9660", "udf"}         -> "CdRom"
      [] OTHER                               -> Unknown

\* The device mapper has a name sysfs does not know; what is not under /dev
\* has none.
ExtractBlockDevice(m) ==
    CASE m.class \in {"nvme", "mmcblk", "loop", "sd"} -> m.disk
      [] m.class = "mapper" -> [removable |-> Unknown, usb |-> FALSE, rotational |-> Unknown]
      [] OTHER -> Unknown

ReadRemovableFlag(disk) == disk.removable = TRUE

IsUsbDevice(disk) == disk.usb

DetectBlockDeviceType(class, disk) ==
    IF \/ class = "mmcblk"
       \/ ReadRemovableFlag(disk)
       \/ IsUsbDevice(disk) /\ disk.rotational = FALSE
    THEN "Removable" ELSE "Fixed"

\* The set of what detection may answer: no answer is an error.
KindOnLinux(mounts, path) ==
    {IF SpecialFileSystem(m) # Unknown THEN SpecialFileSystem(m)
                                 ELSE DetectBlockDeviceType(m.class, ExtractBlockDevice(m)) :
        m \in {n \in FindMountForPath(mounts, path) :
                 SpecialFileSystem(n) # Unknown \/ ExtractBlockDevice(n) # Unknown}}

---------------------------------------------------------------------------
(* macOS.  What diskutil prints of a volume and of its whole disk, one     *)
(* value per key.                                                          *)
DiskutilKeys == {"removable", "ejectable", "internal", "network", "virtual",
                 "protocol", "media", "name"}

ParseBoolValue(text) ==
    CASE text \in {"Yes", "True", "1"} -> TRUE
      [] text \in {"No", "False", "0"} -> FALSE
      [] OTHER                         -> Unknown

\* "Device Location: External" is read as internal = no; "Removable Media:
\* Fixed" and "Removable" are neither yes nor no.
ParseDiskutilOutput(out) ==
    [k \in DiskutilKeys |->
        CASE k \notin DOMAIN out -> Unknown
          [] k = "internal"      -> IF out[k] \in {"Internal", "External"}
                                    THEN out[k] = "Internal" ELSE ParseBoolValue(out[k])
          [] k \in {"protocol", "media", "name"} -> out[k]
          [] OTHER               -> ParseBoolValue(out[k])]

\* A partition takes from its whole disk what it does not say itself.
MergedWithParent(info, parent) ==
    [k \in DiskutilKeys |->
        IF info[k] = Unknown /\ k \in {"protocol", "internal", "name", "removable", "ejectable"}
        THEN parent[k] ELSE info[k]]

Optical == {"CD", "DVD", "Optical"}
UnplugProtocols == {"USB", "FireWire", "Secure Digital"}

IsRemovableDevice(info) ==
    /\ info.network # TRUE /\ info.virtual # TRUE
    /\ \/ info.removable = TRUE
       \/ info.ejectable = TRUE
       \/ info.protocol \in UnplugProtocols
       \/ info.protocol = "Thunderbolt" /\ info.internal # TRUE
       \/ info.name \in {"USB", "Flash"}
       \/ info.media \in Optical
       \/ info.internal = FALSE

ToDriveType(info) ==
    CASE info.network = TRUE      -> "Remote"
      [] info.media \in Optical   -> "CdRom"
      [] info.protocol = "ATAPI"  -> "CdRom"
      [] info.virtual = TRUE      -> "RamDisk"
      [] IsRemovableDevice(info)  -> "Removable"
      [] OTHER                    -> "Fixed"

\* diskutil knows the volume at a mount point; for a path below one the
\* mount point is looked for first.
RunDiskutilInfo(volumes, at) == {v \in volumes : v.at = at}

VolumeOf(volumes, path) ==
    {v \in volumes : /\ <<path, v.at>> \in Below
                     /\ \A w \in volumes : <<path, w.at>> \in Below
                                             => <<v.at, w.at>> \in Below}

KindOnMacOS(volumes, path) ==
    LET direct == RunDiskutilInfo(volumes, path)
        found == IF direct # {} THEN direct ELSE VolumeOf(volumes, path)
    IN  {ToDriveType(MergedWithParent(ParseDiskutilOutput(v.volume),
                                      ParseDiskutilOutput(v.whole))) : v \in found}

---------------------------------------------------------------------------
(* Windows: the kind of the drive letter's root, as the system names it.   *)
DriveTypeForRoot(kind) ==
    IF kind \in {"Removable", "Fixed", "Remote", "CdRom", "RamDisk", "NoRootDir"}
    THEN kind ELSE "Unknown"

KindOnWindows(roots, path) ==
    {DriveTypeForRoot(r.kind) : r \in {s \in roots : <<path, s.at>> \in Below}}

---------------------------------------------------------------------------
\* The answers for a target: the system it is attached to, what that has
\* mounted, and the path.
DetectDriveType(target) ==
    CASE target.system = "linux"   -> KindOnLinux(target.mounts, target.path)
      [] target.system = "macos"   -> KindOnMacOS(target.mounts, target.path)
      [] target.system = "windows" -> KindOnWindows(target.mounts, target.path)
      [] OTHER                     -> {}      \* unsupported

ValidateRemovable(target) == "Removable" \in DetectDriveType(target)
===========================================================================

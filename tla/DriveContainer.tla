-------------------------- MODULE DriveContainer --------------------------
(* A drive made into a TESSERACT hardware container: the header in its     *)
(* first 4096 bytes, the data region behind it, and what the operating     *)
(* system keeps while it is unlocked (loop device, dm-crypt mapping and    *)
(* mount on Linux).  Calls of crates/hardware run step by step, may be     *)
(* killed between two steps, and share one drive.                          *)
EXTENDS Naturals, FiniteSets

CONSTANTS
    Callers,    \* concurrent calls into the crate
    Passwords,
    Loops,      \* the loop devices the kernel has
    MaxSalt,    \* bound: salts drawn in a behaviour
    Platforms   \* the platforms the crate is built for

None == "none"
Key(p, n) == [pw |-> p, salt |-> n]
Blank == Key(None, 0)       \* nothing there
Torn == Key("torn", 0)      \* a header cut off in the middle
Plain == Key("plain", 0)    \* a file system of the drive's own
NoMapping == [key |-> Blank, loop |-> None]

VARIABLES
    platform,   \* the platform of this build
    header,     \* Blank, Torn, or the password and the salts of the header
    data,       \* Blank, Plain, or the key a file system was made under
    plainMount, \* the drive's own file system is mounted
    loops,      \* attached loop devices
    dm,         \* the key and the loop device of the mapping
    mounted,    \* the mapping is mounted
    call,       \* call[c]: the step a call is at and what it carries
    salt,       \* salts drawn so far
    leftover    \* a teardown failed or a process died half way

hwvars == <<platform, header, data, plainMount, loops, dm, mounted, call,
            salt, leftover>>
kernel == <<loops, dm, mounted>>
drive == <<header, data, plainMount>>

Step(s, k, l) == [at |-> s, key |-> k, loop |-> l]
Idle == Step("idle", Blank, None)

\* derive_dual_keys: both keys follow from the password and the two salts.
DeriveDualKeys(h) == h

HwInit ==
    /\ platform \in Platforms
    /\ header = Blank
    /\ data = Plain
    /\ plainMount \in BOOLEAN
    /\ loops = {} /\ dm = NoMapping /\ mounted = FALSE
    /\ call = [c \in Callers |-> Idle]
    /\ salt = 0
    /\ leftover = FALSE

Goto(c, step) == call' = [call EXCEPT ![c] = step]
Return(c) == Goto(c, Idle)

\* ThcHeader::initialize: fresh salts, keys from the password, a new master key.
Initialize(p) == Key(p, salt + 1)
DrawSalts == salt < MaxSalt /\ salt' = salt + 1

\* find_mount_point knows the drive and its partitions, not the mapper device.
FindMountPoint == plainMount

\* create_container on Linux refuses a drive it finds mounted, ...
CreateLinux(c, p) ==
    /\ platform = "linux" /\ call[c] = Idle
    /\ ~FindMountPoint
    /\ Goto(c, Step("create", Key(p, 0), None))
    /\ UNCHANGED <<platform, drive, kernel, salt, leftover>>

\* ... on macOS it unmounts the drive first, ...
CreateMacOS(c, p) ==
    /\ platform = "macos" /\ call[c] = Idle
    /\ plainMount' = FALSE
    /\ Goto(c, Step("create", Key(p, 0), None))
    /\ UNCHANGED <<platform, header, data, kernel, salt, leftover>>

\* ... and on Windows it looks at nothing but the drive's type and size.
CreateWindows(c, p) ==
    /\ platform = "windows" /\ call[c] = Idle
    /\ Goto(c, Step("create", Key(p, 0), None))
    /\ UNCHANGED <<platform, drive, kernel, salt, leftover>>

\* The header is written first, over whatever the drive held, ...
WriteHeader(c) ==
    /\ call[c].at = "create"
    /\ DrawSalts
    /\ header' = Initialize(call[c].key.pw)
    /\ Goto(c, Step("zero", Blank, None))
    /\ UNCHANGED <<platform, data, plainMount, kernel, leftover>>

\* ... then zeros to the end of the drive.  No file system is made.
ZeroData(c) ==
    /\ call[c].at = "zero"
    /\ data' = Blank
    /\ Return(c)
    /\ UNCHANGED <<platform, header, plainMount, kernel, salt, leftover>>

\* unlock_container reads the header and derives the keys from the password.
Opens(p) == header \notin {Blank, Torn} /\ header.pw = p

UnlockLinux(c, p) ==
    /\ platform = "linux" /\ call[c] = Idle
    /\ Opens(p)
    /\ Goto(c, Step("loop", DeriveDualKeys(header), None))
    /\ UNCHANGED <<platform, drive, kernel, salt, leftover>>

\* macOS unmounts the disk, checks the password and mounts nothing, ...
UnlockMacOS(c, p) ==
    /\ platform = "macos" /\ call[c] = Idle
    /\ plainMount' = FALSE
    /\ UNCHANGED <<platform, header, data, kernel, call, salt, leftover>>

\* ... and Windows checks the password and names a free drive letter.
UnlockWindows(c, p) ==
    /\ platform = "windows" /\ call[c] = Idle
    /\ Opens(p)
    /\ UNCHANGED hwvars

\* setup_loop_device: any free loop device, or the call fails.
SetupLoopDevice(c) ==
    /\ call[c].at = "loop"
    /\ \/ \E l \in Loops \ loops :
            /\ loops' = loops \cup {l}
            /\ Goto(c, Step("map", call[c].key, l))
       \/ Return(c) /\ loops' = loops
    /\ UNCHANGED <<platform, drive, dm, mounted, salt, leftover>>

\* setup_dm_crypt: cryptsetup refuses a name that is taken, and may fail.
SetupDmCrypt(c) ==
    /\ call[c].at = "map"
    /\ \/ /\ dm = NoMapping
          /\ dm' = [key |-> call[c].key, loop |-> call[c].loop]
          /\ Goto(c, [call[c] EXCEPT !.at = "mount"])
       \/ Goto(c, [call[c] EXCEPT !.at = "undo loop"]) /\ dm' = dm
    /\ UNCHANGED <<platform, drive, loops, mounted, salt, leftover>>

\* mount finds a file system only under the key it was made with.
Readable == dm # NoMapping /\ data = dm.key

MountFilesystem_NoCleanup(c) ==
    /\ call[c].at = "mount"
    /\ \/ /\ Readable /\ ~mounted
          /\ mounted' = TRUE
       \/ mounted' = mounted
    /\ Return(c)
    /\ UNCHANGED <<platform, drive, loops, dm, salt, leftover>>

\* unlock_container, the mount and what follows when it fails.
MountFilesystem(c) ==
    /\ call[c].at = "mount"
    /\ \/ /\ Readable /\ ~mounted
          /\ mounted' = TRUE
          /\ Return(c)
       \/ Goto(c, [call[c] EXCEPT !.at = "undo map"]) /\ mounted' = mounted
    /\ UNCHANGED <<platform, drive, loops, dm, salt, leftover>>

\* teardown_dm_crypt: the mapping goes, or cryptsetup finds it busy.
TeardownDmCrypt(closed) ==
    \/ closed /\ ~mounted /\ dm' = NoMapping /\ leftover' = leftover
    \/ ~closed /\ dm' = dm /\ leftover' = TRUE

\* The cleanup of a failed unlock ignores what the teardowns return.
UndoMapping(c) ==
    /\ call[c].at = "undo map"
    /\ \E closed \in BOOLEAN : TeardownDmCrypt(closed)
    /\ Goto(c, [call[c] EXCEPT !.at = "undo loop"])
    /\ UNCHANGED <<platform, drive, loops, mounted, salt>>

\* teardown_loop_device: losetup keeps a device the mapping still holds.
UndoLoop(c) ==
    /\ call[c].at = "undo loop"
    /\ LET held == dm # NoMapping /\ dm.loop = call[c].loop IN
         /\ loops' = IF held THEN loops ELSE loops \ {call[c].loop}
         /\ leftover' = (leftover \/ held)
    /\ Return(c)
    /\ UNCHANGED <<platform, drive, dm, mounted, salt>>

\* lock_container: unmount, ...
Lock(c) ==
    /\ platform = "linux" /\ call[c] = Idle
    /\ mounted
    /\ mounted' = FALSE
    /\ Goto(c, Step("close", Blank, None))
    /\ UNCHANGED <<platform, drive, loops, dm, salt, leftover>>

\* ... close the mapping, or return the error, ...
CloseMapping(c) ==
    /\ call[c].at = "close"
    /\ \E closed \in BOOLEAN :
         /\ TeardownDmCrypt(closed)
         /\ Goto(c, IF closed THEN Step("find", Blank, None) ELSE Idle)
    /\ UNCHANGED <<platform, drive, loops, mounted, salt>>

\* ... and ask the mapping that has just been closed for its loop device
\* (find_loop_device_for_dm): none is found, unless another call has made a
\* mapping of the same name, whose loop device is then in use.
DetachLoop(c) ==
    /\ call[c].at = "find"
    /\ Return(c)
    /\ UNCHANGED <<platform, drive, kernel, salt, leftover>>

\* change_drive_password: a header with new salts, written over the old one.
ChangePassword(c, old, new) ==
    /\ call[c] = Idle
    /\ Opens(old)
    /\ DrawSalts
    /\ header' = Initialize(new)
    /\ UNCHANGED <<platform, data, plainMount, kernel, call, leftover>>

\* The write is cut off by a power failure.
ChangePasswordTorn(c, old) ==
    /\ call[c] = Idle
    /\ Opens(old)
    /\ DrawSalts
    /\ header' = Torn
    /\ loops' = {} /\ dm' = NoMapping /\ mounted' = FALSE
    /\ call' = [d \in Callers |-> Idle]
    /\ leftover' = FALSE
    /\ UNCHANGED <<platform, data, plainMount>>

\* A process dies between two steps: the kernel's state stays.
Killed(c) ==
    /\ call[c] # Idle
    /\ Return(c)
    /\ leftover' = TRUE
    /\ UNCHANGED <<platform, drive, kernel, salt>>

\* The machine restarts.
Reboot ==
    /\ loops' = {} /\ dm' = NoMapping /\ mounted' = FALSE
    /\ plainMount' \in IF data = Plain THEN BOOLEAN ELSE {FALSE}
    /\ call' = [c \in Callers |-> Idle]
    /\ leftover' = FALSE
    /\ UNCHANGED <<platform, header, data, salt>>

\* An administrator makes a file system on a mapping that is not mounted.
MakeFilesystem ==
    /\ dm # NoMapping /\ ~mounted
    /\ data' = dm.key
    /\ UNCHANGED <<platform, header, plainMount, kernel, call, salt, leftover>>

HwNext ==
    \/ \E c \in Callers, p \in Passwords :
         \/ CreateLinux(c, p) \/ CreateMacOS(c, p) \/ CreateWindows(c, p)
         \/ UnlockLinux(c, p) \/ UnlockMacOS(c, p) \/ UnlockWindows(c, p)
         \/ ChangePasswordTorn(c, p)
         \/ \E q \in Passwords : ChangePassword(c, p, q)
    \/ \E c \in Callers :
         \/ WriteHeader(c) \/ ZeroData(c)
         \/ SetupLoopDevice(c) \/ SetupDmCrypt(c) \/ MountFilesystem(c)
         \/ UndoMapping(c) \/ UndoLoop(c)
         \/ Lock(c) \/ CloseMapping(c) \/ DetachLoop(c)
         \/ Killed(c)
    \/ MakeFilesystem
    \/ Reboot

HwSpec == HwInit /\ [][HwNext]_hwvars
---------------------------------------------------------------------------
(* While no call runs, no teardown has failed and no process was killed,   *)
(* the drive is decrypted only if its file system is mounted: a failed     *)
(* unlock and a finished lock leave no mapping behind, whatever the other  *)
(* caller did in between (platform/linux.rs:413-430, 451-517).             *)
DecryptedOnlyWhileMounted ==
    (\A c \in Callers : call[c] = Idle) /\ ~leftover => (dm # NoMapping <=> mounted)

(* Known to be violated: lock_container asks for the loop device after the *)
(* mapping is gone (linux.rs:502-509), so every lock leaves one attached.  *)
LoopsAreReturned ==
    (\A c \in Callers : call[c] = Idle) /\ ~leftover =>
        Cardinality(loops) = IF dm = NoMapping THEN 0 ELSE 1

(* Known to be violated: what is mounted can be read.  create_container    *)
(* does not see that the drive is in use through /dev/mapper and erases it *)
(* (linux.rs:222-228).                                                     *)
UnlockedDriveIsNotErased == mounted => Readable

(* Known to be violated: the key of the data follows from the salts, and   *)
(* change_password draws new ones (container.rs:463-483), so the file      *)
(* system made before can no longer be unlocked.                           *)
PasswordChangeKeepsData ==
    [][ header' # header /\ header' \notin {Blank, Torn} /\ data' = data
        /\ header \notin {Blank, Torn} /\ data = DeriveDualKeys(header)
            => data = DeriveDualKeys(header') ]_hwvars
===========================================================================

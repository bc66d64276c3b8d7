# Tesseract: a verification project in TLA+

Tesseract keeps encrypted vaults: a directory on a (removable) drive that holds a
512-byte header, one keystore per access level, a blob and a metadata file per
stored file, a recovery blob and an encrypted level configuration. Around it are
two file systems that mount a vault, a desktop application, encrypted drives, and
the tools that put the program on a drive. This directory models the part of it
whose correctness depends on order: what is written when, what is still in memory
meanwhile, what a crash or an I/O error leaves, and who else is at work on the
same state.

## The system

| Part | State it keeps | Operations | What is hard about it |
|---|---|---|---|
| Header and opening (`core/src/header.rs`, `session.rs`) | `vault.header`: wrapped master key, attempt counter, lockout time, HMAC over them | `open_vault`, backoff, reset | Read, seconds of key derivation, write back, with no lock; a failed attempt edits fields the HMAC covers |
| Files of a vault (`files.rs`, `metadata.rs`, `blob.rs`) | `blobs/`, `metadata/` | import, export, delete, rename, move, set level, list | Each touches up to four files and the session's memory, with no undo |
| Session and keystores (`session.rs`, `keystore.rs`) | unlocked keystores in memory, `keystores/L<n>.keys.enc`, access mode | unlock one level or a hierarchy, lock, `assign_file_level`, `persist_keystore` | Memory and disk may disagree; files are truncated in place; keystores change under the session |
| Levels, passwords, recovery (`session.rs`, `access.rs`) | level configuration (password hash, KEK under the master key), `recovery.key` | change, reset, create, delete a level | Work on the files behind an open session's back; two files to keep in agreement |
| Creation and deletion (`vault.rs`) | the directory itself | `create_vault`, `delete_vault` | Rollback, concurrent attempts, leftovers |
| Temporary files (`tempfile.rs`) | map of decrypted copies, a directory all managers share | create, secure delete, clean up, drop | Tracking lost when a step fails; one manager cleans up another's |
| FUSE file system (`vfs/src/fuse.rs`) | inode table, handles with write buffers, the session | callbacks, one at a time | A write commits as delete and import; stale inode entries and handles |
| Dokan file system (`vfs/src/dokan.rs`) | handles, chunk cache, session, each behind a lock | callbacks of several threads, unmount | Lock order, buffers copied out of a lock, a cache filled after it was cleared |
| Streaming, nonces, secure memory (`crypto/src/`) | nonce registry, locked pages | chunked encryption, buffers that wipe themselves | Boundaries of sizes; pages that several keys share |
| Desktop application (`gui/src/app.rs`, `screens.rs`) | screen, session, lists read earlier, wizards left half way | one frame after another | What is shown is older than what is stored; ways out of a vault that reset different parts |
| Encrypted drives (`hardware/src/`) | container header, loop device, dm-crypt mapping, mount; a self-encrypting drive's owner and lock | create, unlock, lock, re-key, detect, initialize | Tools called one after the other, each of which may fail; drives come and go |
| Packaging (`packaging/src/`) | build outputs, the files on a stick, a version file | build, bundle, check and prepare a drive | Interrupted and repeated over what is there |
| Command line, primitives, tests | none | call the above | |

The desktop and the VFS handlers own a `VaultSession` and call the functions of
the core with `&mut`, so the operations of one session run one after the other.
The files are shared by everything: another process, another session, and the
functions that take a path and no session (`change_level_password`, recovery,
`create_level`, `delete_level`, `create_vault`). Nothing locks them. The Dokan
callbacks take the session's lock in one order or the other with that of the
handle table. The desktop asks the drive detection every two seconds whether the
vault's drive is there, and copies files out of a vault for other applications.

## Modules

| Module | What it is | Stands on |
|---|---|---|
| `VaultUnlock` | `open_vault` on one header, any number of openers, a clock | |
| `FileCatalog` | what a vault promises of its files: abstract | |
| `VaultFiles` | one session's file operations, statement by statement | implements `FileCatalog` |
| `LevelPasswords` | passwords and KEKs of the levels, with a session open meanwhile | `FileStates` |
| `VaultCreation` | `create_vault` and `delete_vault` at one path | `FileStates` |
| `SessionAccess` | levels a session has unlocked, the access mode, the KEK it uses | |
| `FuseHandler` | inodes, handles, write buffers | files by the actions of `FileCatalog` |
| `DokanHandler` | the same for several threads, and unmounting | files by the actions of `FileCatalog` |
| `ChunkCache` | reads through the cache of decrypted chunks | |
| `TempFiles` | decrypted copies | |
| `Desktop` | screens, session, copies, drive | extends `TempFiles` |
| `FileBrowser`, `VaultWizard`, `Settings`, `DriveSetup` | what goes on inside a screen | |
| `DriveContainer`, `OpalDrive`, `DriveDetection` | encrypted drives and finding them | |
| `DriveKind`, `DrivePackage` | what kind of drive a path is on; builds and drives prepared from them | `DrivePackage` extends `DriveKind` |
| `Streaming`, `NonceRegistry`, `SecureMemory` | the stateful parts of the cryptography | |
| `VaultUnlockProofs` | theorems about `open_vault` | `VaultUnlock` |
| `VaultFilesProofs` | about the files, and that they implement `FileCatalog` | `VaultFiles` |
| `VaultSetupProofs` | about KEKs and passwords, and about creating a vault | `LevelPasswords`, `VaultCreation` |
| `FuseHandlerProofs`, `DokanHandlerProofs` | about the two file systems | |
| `DesktopProofs` | about copies and the password entry | `Desktop` |
| `ScreensProofs` | about the browser, the wizard and the settings | `FileBrowser`, `VaultWizard`, `Settings` |
| `PartsProofs` | about the parts that share no state | the other modules |
| `MC...` | instances for TLC: constants and symmetry | |

`MCVaultSetup`, `MCScreens` and `MCParts` each check several modules that share no
state. Their variable `used` is chosen at the start and says which of them a
behaviour stays in; the others do not move from one initial state. The states
add up instead of multiplying, and every action of every part is reached.

A write to a file of a vault is two steps throughout, `File::create` (the file is
torn) and `write_all` with `sync_all` (it is whole), since a crash, an I/O error or
another process can come between. The packaging tools sync nothing, and their module
says so (below). A crash forgets memory and keeps the disk. Cryptography is perfect
and is represented by what it is computed from: an HMAC by the fields it covers,
an encrypted text by its plaintext and its key.

### VaultUnlock

| Model | Code |
|---|---|
| `disk`, `copy[o]` | the header file; the `VaultHeader` in an `open_vault` call |
| `h.tag` | `hmac_tag`, as the body it was computed over |
| `ReadHeader` | structure check, read, `is_locked_out` |
| `Deny` | `unlock_header` failed, or no keystore opened; `apply_backoff` on the copy, tag unchanged |
| `Grant` | success; `reset_attempts` if the counter is not zero |
| `Truncate`, `WriteHeader`, `WriteFails` | `write_vault_header`, whose error is printed and swallowed |
| `ledger` | a history variable: what has been written back since the counter was last reset |
| `late[o]`, `EndGuess` | history: guesses `o` was answered while the header on disk was under a lockout, since that header was written |

A keystore is represented by the password that opens it. The clock only moves by
`Tick`, at any time, also during a key derivation. It never moves backwards; a
system clock that does defeats any lockout and is left out.

### VaultFiles and FileCatalog

An operation is a plan: a sequence of statements in the order of the code
(`ImportPlan` is blob, metadata, DEK entry in memory, keystore file). The actions
`Import`, `Delete` and so on are the checks before the first statement and set
`job`; the actions under "The statements" execute it; `IOError` and `Crash` may
end it before any of them. `Refuse` is an error the code returns by itself.

A DEK is drawn once per file, so a keystore is a set of file ids. Metadata
carries its key, the level under whose KEK it is encrypted, which is what makes
`set_access_level` fail: it reads with the target's. `known` and `cut` are
history variables: what returned calls have told the user, and how the last
failed operation on a file ended. `find_file_level` walks a hash map, so
`AssignFileLevel` may find any level that holds the file; `FoundAt` is the loop
over levels 1 to 3 that the functions of `files.rs` use.

`FileCatalog` is what a caller may rely on: a file comes, changes and goes in one
step, no step touches two, and a failed operation spoils its own file only. The
refinement mapping (`SeenFile`) reads a file off the disk and the session's memory
together: its level and path if blob, metadata and DEK agree, absent if no metadata
and no keystore has it. A torn keystore may have held anything. While an operation
runs, its own file is what the last call told the user, and once one was cut off it
is spoiled. `ImplementsCatalog` is checked as a property. The two file systems use
the catalog's actions for the vault below them, so what they are checked over is
what `VaultFiles` was shown to provide.

### LevelPasswords, VaultCreation, SessionAccess

`keystore[l]` is the password and salt its key is derived from, its KEK as a
number, and the KEK its DEK entries are wrapped under (0 for none). `config` is
the level configuration: a hash (as the password) and the KEK stored for
recovery (0 for none) per level. `session` is what an open session unlocked, as
it was then. The calls run one at a time, on the desktop's thread; the session's
imports and deletions at a level are `PersistKeystore`. A recovery session
holds the master key whatever the header says, so `ResetPassword` only needs the
files it reads. `place` is the path the vault is reached at: the configuration is
authenticated with that path as a string, so it does not decrypt anywhere but at
`Home`. Backoff is reduced to the one bit `verifies`; the times are in `VaultUnlock`.

`Crash` may come between any two steps, and ends the session. `IOError` may too: the
call returns `Err`, the file it was writing stays torn, and the session stays open.
`unsaved` is a history variable: the levels of the session whose keystore a write
failed on since it was last saved whole.

In `VaultCreation` a file holds the number of the attempt that wrote it. `Plan(n)`
is `create_vault` for `n` levels; `tracked` is `created_dirs` and `created_files`,
which `Undo` removes from the end. `remove_dir` refuses a directory that is not
empty, and errors of the rollback are ignored, as in the code. `delete_vault`
removes entries in any order and may stop early. It is not called while an
attempt is under way: the vault an attempt makes is not offered to the user
before it is finished.

`SessionAccess` is `unlock_level`, `unlock_hierarchy`, `lock`, the access mode and
the KEK a file at a level is read with, while keystores on disk disappear and
change their passwords.

### FuseHandler, DokanHandler, ChunkCache

`FuseHandler` has one step per callback, since fuser calls them with `&mut self`,
except that a commit is two, `delete_file` and `import_bytes`, with a failure or
a crash possible between them (`job`). `inode[p]` is the uuid the table has for a
path and may be stale in every way the code allows; a handle has its buffer, the
uuid and the path it was opened with. `Refresh` fills in what is listed and not in the
table. `saved`, `blind` and `touched` are history: what the callbacks have
reported as saved, whether `open` took an unreadable file for an empty one, and
what a handle changed.

In `DokanHandler` a step is what a thread does without letting go of a lock; a lock
that is kept while waiting for the other is part of the thread's step
(`HandlesRead`, `HandlesWrite`, `SessionFree` say when one is granted). A content is
the set of changes in it, which is enough to tell whether one was lost. History are
`saved` in a handle (the content last committed or loaded), `raced` (a write was
stored while a flush of it was committing), `late` in an unmount (handles written
since it began) and `thrown`: what an unmount has dropped with a handle, a `raced`
write or a `settled` one. A write is told from the buffer's content and what was
committed, not from the handle's own flag, since a flush that raced with it clears
the flag. `unmount` flushes what is dirty, closes every handle, and wipes the keys,
with callbacks running throughout; `UnmountTimeout` is the timeout, `force_unmount`
the impatient form.

`ChunkCache` is the read path: look up, decrypt, fill and evict in separate steps,
between which the file may be deleted or the vault locked. The cache is the set of
its chunks with `before`, which of two was accessed earlier: that is all
eviction asks of `last_accessed`. `cache_file_content` keeps the cache's lock while
it inserts a file's chunks, which are one step each here, with the evictions
that make room for them; `CacheFree` is what everybody else waits for.

### Desktop, TempFiles and the screens

`Desktop` is one action per frame: `CheckAutoLock` and `CheckDriveRemoval` come
first in `update`, then at most one click. A click counts as activity before the
timeout is looked at. The managers of decrypted copies are those of `TempFiles`, so
that replacing one at an unlock drops the other and empties the directory both use.
The drive that is looked for is `current_drive`, the last one opened, which need not
be that of the open session's vault: opening another vault replaces it, ejecting
clears it and keeps the session. `MistakenRemoval` is `is_drive_connected` being
wrong, which `DriveDetection` shows that it may be. `FileBrowser`, `VaultWizard`,
`Settings` and `DriveSetup` go inside a screen: the list that was read earlier, the
selection, dialogs that remember a file, and wizards that keep their page when the
user leaves. Operations of the core are one step in them, with success or failure,
and a failure may leave something behind: an import whose keystore cannot be saved
is in the session all the same, and a rename that fails may have cut off the
metadata. `unread` is a history variable: the files so changed since the list was
last read.

### Drives and packaging

`DriveContainer` runs the tools of Linux one by one (losetup, dmsetup, mount and
their undoing), and what macOS and Windows do instead, which mounts nothing, for
several callers, any of which may be killed or see a tool fail. A data key is what
it is derived from: password and salts. `OpalDrive` is one status query and one
command per call, so that calls interleave between the two.

`DriveDetection` has the drives that are plugged in, what is mounted where, what is
detected, the drive a vault was taken to be on (`found`) and the drive the desktop
follows. Folders may lie below one another (`Above`), so a path has a nearest mount
(`DiskAt`) and others above it. The question whether a drive is there may be answered
wrongly (`answers`): diskutil may fail, or the device not open. On Linux nothing ever
sets `is_locked`, so a locked container is followed like an open one. A stick that
comes back under the name of another is not told apart from it, in the model as in
the code.

`DriveKind` is a set of pure operators on a target (mounts and sysfs, diskutil,
drive types), used by `DrivePackage`, whose state is the build outputs and the
stick. There `partial` is the output of a build that did not finish and `cut` a copy
that broke off. `unsynced` are the files of the stick that may not have reached it: a
drive that is pulled, also after the call returned, loses any of them, whole or in
part (`PullDrive`), unless the system has written them back first (`WriteBack`).
What the operating system does is external: file system creation,
sedutil and PowerShell, loop devices and the device mapper, the kernel's
`removable` flag, a crash, pulling a drive.

### Streaming, NonceRegistry, SecureMemory

A stream is a sequence of chunks, each sealed under the file, its index and whether
it is the last; the damage a store can do (cut, drop, double, move, splice, another
header) is an action. Sizes are counted in units, with chunks of two. A nonce is the
set of the bits that are one in it, so that the XOR with the index is a symmetric
difference. `decrypt_bytes` is stated by what its loop comes to: the pieces it cuts,
whether all of them open, and which bytes are left of them. `NonceRegistry` draws
and registers in separate steps. `SecureMemory` has places on the heap and on the
stack with pages they lie on: `secret` is where bytes of keys are, `lockedPages`
what the kernel locked, which counts nothing.

## Runs

All passing runs switch the deadlock check off, because the system may really stop: the
clock, the KEKs, the uuids and the attempts are bounded by the model, a torn
header ends the vault, an unmounted file system has no callbacks, and two Dokan
callbacks may block each other (`CallsEnd` says that nothing else does).

| Run | Instance | What it shows |
|---|---|---|
| `vault_unlock` | 1 opener, 2 passwords, clock to 18, threshold 3, counter to 4 | The header is the exact record of the failures written, and failures are paid for in time |
| `vault_unlock_two` | 2 openers, clock to 8 | Concurrent openers lose failures but invent none; a lockout on disk lets each of them finish only the guess it had begun |
| `vault_unlock_correct` | 1 opener, clock to 6 | *Violated*: `CorrectPasswordOpens` |
| `vault_files` | 2 files, 2 levels (one with its own password), 2 paths | Any operation, cut off anywhere, damages its own file at most; sessions show what was promised; no orphans; imports are all or nothing; deletions stay; the catalog is implemented |
| `vault_files_set_level` | the same, with import and `set_access_level` only | *Violated*: `EntryDecryptsMetadata` |
| `vault_setup` | 2 levels and one to create, 2 passwords, 3 KEKs, 2 places; 2 creators, 3 attempts | With I/O errors and crashes: KEKs in keystores and configuration agree; a session's files stay on disk at every level whose keystore was not torn under it; a finished vault stays, a running attempt keeps what it made, no vault mixes two attempts |
| `level_passwords_recovery` | as above, without creation | *Violated*: `RecoveryRegainsAccess` |
| `fuse` | 2 uuids, 2 paths, 2 handles, contents of up to 2 blocks | A path in the table names the file that is there; what was reported as saved is kept; a handle's change to a block is not undone by another's commit unless it changed it too |
| `dokan` | 2 threads, 1 handle, 2 paths, 2 uuids, 2 changes, one of which truncates | A clean buffer is in the vault unless it was written during a flush; a patient unmount drops no other write older than itself; every call ends or runs into the one deadlock |
| `desktop` | 2 vaults, one on the built-in disk, 2 encrypted drives, copies of one vault | Decrypted copies belong to the open vault; a password is tried on the vault shown; an idle session ends, and so does one whose drive is pulled while the application follows that drive |
| `screens` | 2 vaults, 2 files, 1 folder, 2 drives, 2 letters, 2 kinds of passwords | The list shows what is stored, but for files a failed import or rename has changed since it was read; the wizard's last page has the right password; no level with files is deleted |
| `parts` | see `MCParts.cfg` | Nine properties of eight modules: damaged streams, the cache's books, the level a session believes to be its highest, mappings without mounts, who owns a drive, what a readable version file vouches for over failed builds, crashes and pulled drives, locked pages, removed drives on Linux |

Why the bounds are enough:

- Time in `vault_unlock` runs past the threshold, the saturation of the counter
  and one more lockout. Two openers are the smallest number that can lose an update,
  and time to 8 is enough for one of them to be locked out and guess again while the
  other still holds the header from before.
- Two drives are what lets the drive the application follows be another than the
  open session's. Only one vault of `desktop` lies on one, and only that one has copies,
  since the graph has to be searched for cycles; that decrypted copies belong to the
  open vault is proved for any vaults, drives and copies.
- Two files suffice for one to be damaged by an operation on the other, and two
  levels for a file to move. Three KEKs are those of the two levels and of one
  that is created. Three attempts at a path are one that leaves something behind,
  and two that meet.
- The file systems need two handles or two threads to meet, two uuids for a
  commit to replace one by another, and two changes for one to come during the
  flush of the other. With one handle all calls meet on it; a second
  one multiplies the states and adds only calls that do not meet. No run
  takes much more than two minutes.
- `MaxDamage` is 2 so that one splice can be followed by another that undoes or
  extends it, or by another stream's header;
  lengths 0, 2 and 5 are no chunk, exactly one, and two and a part.
- Three buffers over three heap places of which two share a page, and a stack
  page: the smallest layout with a neighbour that is unlocked too early and a
  buffer that has its page to itself.
- `vault_setup` and `parts` have a VIEW, which leaves out what no property and no step of
  the run looks at again: `told` (what the user was told of passwords) in the first, a
  prepared drive's vault directories and the parts that stay as they are in the second.
- Three loop devices: every lock leaves one attached, so that a caller meets the
  case of two lost ones, and of none free.

A type invariant is stated in `VaultUnlock`, `VaultFiles`, `LevelPasswords`,
`VaultCreation`, `TempFiles` and `Desktop`, and proved with the invariants; those of
the other modules are the first conjuncts of the inductive invariants in the proof
modules. `VaultUnlock`'s is also part of a run.

### What is violated

Three runs are quotations: each says what a document or a comment of the
repository promises, and the counterexample is what the code does. They are
described, with the lines on both sides, under `findings` in `PROJECT.json`.

- A wrong password changes fields the header's HMAC covers, and the tag is not
  recomputed: the master password never opens the vault again (`vault_unlock_correct`).
- `set_access_level` reads the metadata with the key of the level it moves to
  (`vault_files_set_level`).
- Recovery resets every level's password and not the one the header is opened with
  (`level_passwords_recovery`).

More properties are stated in the modules, with what is known of why they fail.
They are in no run; each can be checked by naming it in the configuration of its
module's run. Of these, five are what a document or a comment promises, and are the
other side of a property that holds:

- `EveryFailureCounts` (VAULT_FORMAT.md:149, for `vault_unlock_two`): two processes that
  fail at the same time write their headers over each other, and the counter moves by one.
- `UnmountKeepsEveryWrite` (dokan.rs:2469, for `dokan`): a write stored while another
  thread's flush commits is marked clean with it. An unmount that begins later drops it
  and returns `Ok`.
- `DisconnectLocks` (USER_MANUAL.md:535, for `desktop`): the desktop looks for the
  drive it follows, not for the one the session's vault is on, so a session may outlive
  its drive.
- `FoundIsTheVaultsDrive` (detect.rs:168, for `parts`): on Linux every SCSI or USB disk has
  the major number of every other, and what is mounted nearer does not count: a vault
  on the built-in disk is taken to be on a stick that is plugged in.
- `RemovedIsGone` (detect.rs:471, for `parts`): on Windows a drive that cannot be opened
  for a moment counts as removed, and the vault is locked with the drive in place. The
  same may happen on macOS when diskutil fails.

| Module | Properties known to be violated |
|---|---|
| `VaultUnlock` | `EveryFailureCounts` |
| `VaultFiles` | `KeystoresAlwaysWhole` |
| `LevelPasswords` | `PasswordChangeSticks` |
| `VaultCreation` | `RollbackIsComplete` |
| `SessionAccess` | `AccessibleHasKey` |
| `ChunkCache` | `CacheForgets` |
| `FuseHandler` | `CommitIsAtomic` |
| `DokanHandler` | `UnmountKeepsEveryWrite` |
| `Desktop` | `DisconnectLocks` |
| `DriveDetection` | `FoundIsTheVaultsDrive`, `RemovedIsGone` |
| `VaultWizard` | `SavedKeyIsTheVaults` |
| `Settings` | `EveryLevelHasItsKeystore` |
| `DriveSetup` | `ErasedAsAgreed` |
| `DriveContainer` | `LoopsAreReturned`, `UnlockedDriveIsNotErased`, `PasswordChangeKeepsData` |
| `OpalDrive` | `OwnerIsNotToldWrong`, `FailedInitCanBeRepeated` |
| `DrivePackage` | `AcceptedIsDetachable`, `InstalledMeansPrepared` |
| `SecureMemory` | `EveryLockedIsInMemory`, `MovedKeysAreWiped`, `PagesAreReturned` |

Some invariants that hold say in their own words what the code does not keep, and a
reader should not take them for more:

- `CleanIsSaved` excepts a buffer that was written while a flush of it was committing,
  which is the hazard at `dokan.rs:1865` itself. `UnmountKeepsWrites` excepts the same
  writes; without the exception it is `UnmountKeepsEveryWrite`, which is violated.
  `CallsEnd` excepts the deadlock of the two locks.
- `NoLostUpdate` excepts what `open` could not read. `SavedIsKept` drops its
  promise for a file that is renamed while a handle has it open for writing, since the
  handle's commit brings it back under the old name, for a file whose rename or
  commit fails, and until the import of a commit is done.
- `SessionFilesOnDisk` excepts the levels whose keystore a failed write tore while
  the session was open: those files are in memory only until the keystore is saved
  again.
- `ShowsWhatIsStored` excepts the files that a failed import or rename changed, until the
  list is read again: with no import that succeeded, and after a failed
  rename, the desktop does not.
- `RemovalLocks` is about the drive the application follows.
- `VersionMeansWritten` excepts an installation that was broken off over an earlier
  one, whose version file stands meanwhile, and a drive pulled before the system had
  written everything back. What a failed build left at its output path may be
  listed as real: the tools do not look at it. What it does say is that no
  placeholder, no half-made copy and no mixture of two bundles is.
- `RemovedOnLinuxIsGone` is about Linux, where nothing has to be opened.
- `LockedIsInMemory` excepts pages that are shared.

Every passing property has a mutated form of the code beside it (`X_Something`
next to `X` in the modules, marked "Mutated form"), which violates it.

### Fairness

Two specifications state fairness, each for one liveness property or two.

- `DokanHandler`: `SF_vars(Step(t))` for every thread. A thread inside a callback
  is scheduled, and one that waits for a lock gets it some time although others
  take it in between. The standard library promises no order among the waiters
  of a `RwLock`, so this is what is assumed of the system's locks: nobody is passed
  over for ever. Without it a thread could starve. Nothing is assumed of programs: no
  callback need ever begin. `Deadlocked` is the pair of waits that no scheduling resolves.
- `Desktop`: `WF_vars(CheckAutoLock)` and `SF_vars(CheckDriveRemoval)`. While a
  session is open every frame requests another one within a second or two, so
  `update` is called whether the user does anything or not, and the timeout is
  looked at in each call. The drive that is followed is looked for every two seconds
  only, so the action is enabled again and again and not continuously, hence the strong
  form.
  Nothing is assumed of the user.

The other specifications state none: nothing in them must happen.

## Proofs

Every safety invariant and every safety action property that a run finds to hold is
a theorem about the module's specification, for all values of its constants:
any number of files, levels, openers, threads, handles, attempts and callers, contents
and streams of any length. Each is proved by an inductive invariant that implies it,
with one lemma per action that says how the action keeps it. The theorems
rest on the assumptions the modules name (`ASSUME ...Assumption`), which say
that placeholders differ from what they stand for, that constants have their types,
and the few inequalities between the code's own limits; TLC evaluates all of them
on its instances.

### Opening (`VaultUnlockProofs`)

What carries all of it is `IInv`: every tag in the system was computed over a zero
counter, and a header whose counter is zero is exactly what its tag covers
(`TagsUncounted`). So a header that verifies has a zero counter, `Grant` never
reaches `reset_attempts`, and every opener on its way to a write carries a failure it
counted (`WritersCarryFailure`): the ledger only grows.

For any number of openers, `NoneIsInvented` says that no header counts a failure that
was not written: a copy holds at most what the ledger had when it was read, and one
more once it is denied (`CountInv`). `LateGuessesAreFew` says that a lockout on disk
lets every opener finish the one guess it had begun, however they overtake each
other: one that still derives keys under it has not finished any since that
header was written (`LateInv`). That failures are lost between openers is the
violated `EveryFailureCounts`.

`LedgerIsExact` and `GuessesArePaidFor` have the hypothesis that there is one opener.
`LedgerInv`
says what the opener holds is the ledger with one failure more. `GuessesArePaidFor` also
needs the threshold not to be above where the counter saturates (10 and 2^32 - 1 in
the code). It compares the clock with a sum over the table of delays, a recursive
function; that such a function exists is not given to the prover, so the proof
builds it: there is a beginning of every length, since otherwise there would be
a smallest length without one (`BeginningsExist`, by `NatLessThanWellFounded`).
`CostInv` says which delay has passed at which place of the program.

### Files (`VaultFilesProofs`)

`DamageIsLocal` is not inductive, since it speaks only of files at rest. `FilesInv`
splits the files: one that no operation is at is `Settled`, that is, exactly what the
user was told (`Kept`, `Gone`) or what a cut import may leave (`Sound`); of the one
that an operation is at, `Placing` says at each statement of its plan which
keystores name it, in memory and on disk, and `Writing` what its blob and its metadata
hold. The lemma of each statement moves that description on by one; the lemma of
an error or a crash shows that what the description allows at that statement is what
`Settled` allows of a file that was cut off. From this `ErrorsAreLocal`,
`SessionIsRight`, `NoOrphans`, `ImportIsAllOrNothing` and `DeletedFilesStay`
(an action property) are consequences.

`FilesAreACatalog` is the refinement: with `FilesInv`, the state that `SeenFile` reads
off disk and memory changes for no file but the job's, and for that one as a step
of the catalogue; while an operation runs nothing changes at all. The torn keystores
are why the mapping reads disk and memory together. `FuseUsesTheCatalog`
and `DokanUsesTheCatalog` are the other side: what the file systems do to their
`file` is a behaviour of `FileCatalog`, for Dokan with up to two of its steps where
the session's lock is kept across a removal and what follows it.

### Levels and creation (`VaultSetupProofs`)

`PasswordsInv` gives every level of the vault one KEK (`OneKek`), wherever it is: in
the keystore, in the session, in the configuration, or in the text a call under way
is going to write, which counts as stored. Without the last the invariant breaks
between truncating a file and filling it. `EntriesStored` is the same for the DEK
entries of a session. An I/O error takes the text in hand away and leaves the file
torn with the session open: what may then be missing is exactly the level in
`unsaved` (`FailedCall`), and a crash empties `unsaved` with the session. The proof
needs `Cardinality(Original) <= MaxKek`, that is, enough KEKs to begin with.

In `CreationInv` the directory `keystores` is a lock: `create_dir` fails if it is there,
so the attempt that has it among what it made is the only one past that statement
(`LockInv`), until its rollback has removed it. `Progress` says that what an attempt
has made is what comes before its statement in the plan, `InOrder` that the
rollback, from the end, leaves the lock and then the vault's directory for last.
`ExistingVaultStays`, `RollbackIsOwn` and `VaultIsOfOneAttempt` follow; nothing in
it depends on how many processes there are.

### File systems (`FuseHandlerProofs`, `DokanHandlerProofs`)

`FuseInv` adds to the three properties that every uuid anybody holds was drawn, so that
a commit's is new, and that the file which holds what was saved at a path is open for
writing at no other path (`Holds`). Without it a rename under an open handle would
bring the file back at the old path, in place of what was saved there.

`DokanInv` has what each thread knows. `FlushOK`: between the copy of a buffer and
the end of its flush, the copy is the buffer unless a write was stored meanwhile,
which marks the handle. `UnmountOK`: a handle that is dirty, and not written since
the unmount began, is on its list, or in hand, or a flush has failed, and then it
does not go on to closing. So what an unmount drops of an older write is on a handle
that is clean, and a clean handle is saved or raced (`OnlyRacedAreDropped`).
`OthersKeep` is the lemma that makes the proof one about single threads: what a step
does to one handle leaves what other threads know of theirs, if it is `Calm`.

Proving this found a mistake in the model that TLC's instance could not show: two
conditions of a CASE overlapped for a thread that was closing, and TLC takes
the first where the prover may not. The conditions now exclude each other, as the
code's branches do.

### Desktop and screens (`DesktopProofs`, `ScreensProofs`)

`DesktopInv` says that the manager knows every copy but those left behind
(`ManagerInv`), and that on the way from the password entry to the recovery and back
the header read stays that of the path (`EntryInv`). `TheListIsCurrent` is an
induction over the dialogs: an operation leaves files, folder and list alone, or
reads the list anew, or sorts it, or fails and changes no file but those that count
as unread. `LastPageOpensTheVault` is: no page but the last shows the password, and
it is left only by starting again. `FilledLevelsStay` says nothing about the list of
levels on the screen, which may be of any age and of another vault; it counts the
levels in the configuration, finite sets that change by one.

### Parts (`PartsProofs`)

- `NoncesAreUnique`: what was given out is what is registered, once (`NonceInv`).
- `HeapIsWiped`: keys and nonces lie on the stack, so only `SecureBytes`, which wipes
  before it frees, has secrets on the heap. `MovedKeysAreWiped`, the same
  for the stack, is violated, and the proof shows where: a move copies.
- `LockedStaysInMemory`: no two buffers share a place, so unlocking the pages of one
  takes none from a buffer alone on its page (`PagesInv`).
- `TopHasItsKey`: the highest unlocked level is what the session says; that there is a
  highest is shown by the smallest distance from a bound (`HighestIsThere`).
- `NoMappingIsLeft`: a mapping that is not mounted is in the hands of a call that
  will mount or close it, unless a teardown failed or a process died (`ContainerInv`).
- `OkIsForTheOwner`: once somebody owns the drive, the tool refuses everybody
  else who saw it uninitialized (`OpalInv`).
- `RemovedDriveIsGone`: on Linux a drive said to be removed is not plugged in. The drive
  that is followed is flagged removable, and the theorem has the hypothesis that no
  removable disk has digits before the end of its name: with them
  `is_drive_connected` looks for a wrong directory. The code does not check it;
  nvme0n1 and mmcblk0 are not flagged by the kernel, which is what saves them.
- `VersionIsWritten`: a version file can be read only after its executables were copied,
  and unless an installation was broken off or files were lost, what it
  lists as real was copied whole from a build output (`PackInv`).
- `OnlyWhatWasEncrypted`: every byte in a stored stream names the stream, the chunk
  and the place it was sealed for, so a piece that opens is that chunk and no other
  (`AuthenticPiece`); `StreamInv` adds up the pieces opened.
- `StreamsAreBytes`: what `encrypt_stream` has stored is a beginning of what
  `encrypt_bytes` would return, ending where chunk `index` begins (`SoFar`), and the
  pieces `decrypt_stream` has opened are those `decrypt_bytes` would cut (`AgreeInv`).
  The two size functions are inverse to each other by division with remainder
  (`SizesAgree`). A header with another chunk size is why the invariant says that whoever
  is past the first piece has the encryptor's.
- `CacheHoldsWhatItCounts`: the total is the number of bytes of the chunks at every
  step, so `saturating_sub` never saturates; a chunk is inserted after the
  file's were cleared, and its index is above all that were inserted since
  (`CacheInv`), so none is counted twice. The bytes are counted as a set, by cardinality,
  since a recursive sum could not be reasoned about.

`NoncesAreUnique` and `HeapIsWiped` are proved instead of being checked in a run.

### What is only model-checked

Liveness: `CallsEnd`, `IdleIsLocked` and `RemovalLocks`. They rest on fairness,
that is on ENABLED, for which the prover has no rules. So do, of course, the properties
that are violated. Two definitions were rewritten so that they could be proved about
(the chunk cache and `decrypt_bytes`, formerly recursive); none was weakened.

## Not modelled, and why

- Cryptographic primitives, their vectors and randomised tests: taken as perfect.
- Contents, sizes, names and timestamps of files, except where a property is
  about them; virtual directories other than as part of a path; attributes;
  read-only mounts.
- Reading functions (export, list, verify): they change nothing; what they would
  find is in the properties.
- Two sessions on one vault: they overwrite each other's keystores, and nothing
  about files survives it; it is listed as a hazard.
- Levels above 3, which `files.rs` does not search; listed as a hazard.
- Drive letters as the mount point module chooses them, detection of the FUSE and
  Dokan drivers, the drivers' own loops, error tables: queries of the operating
  system without state of their own.
- The contents of property lists, desktop files and icons; the command line; the
  desktop's settings file; layout, colours and wording.
- The Dokan handler as it stands does not compile (two methods
  `has_pending_writes` in one `impl`, `VaultError::FileNotFound` used without its
  field); its callbacks are modelled as they are written.

## Plan

The model covers the parts that keep state, and the safety properties of the runs are
proved. What is left, in this order:

1. The deadlock of the Dokan callbacks: that threads which all wait hold the two locks
   crosswise, from the guards of their steps, without ENABLED.
2. `SavedIsKept` across a restart of `FuseHandler`, and the same for Dokan, on top of
   `FilesAreACatalog` instead of the catalogue itself.
3. A second session on the vault of `VaultFiles`, and levels above 3, as models of
   what is now only listed as hazards.

---------------------------- MODULE DrivePackage ----------------------------
(* Packaging: the builders that make the Linux and macOS executables, and  *)
(* the two ways they reach a drive, prepare_drive (the command line tool)  *)
(* and create_bundle.  Every call may fail at a step, or be broken off     *)
(* there by a crash or by pulling the drive.  Nothing is synced: a drive   *)
(* that is pulled, even after the call returned, may lose what was written *)
(* last.                                                                   *)
EXTENDS DriveKind

CONSTANTS
    Media,      \* the targets the drive may be prepared as, as DriveKind sees them
    SourceSets, \* the sets of executables an installation may be given
    ArtifactSize,     \* the size of what a build leaves, by content
    MaxSize     \* the limit on a bundle

Executables == <<"windows", "linux", "macos">>     \* the order of copying
Exe == {Executables[i] : i \in DOMAIN Executables}

\* What is at a path: nothing, what an unfinished build leaves, a copy cut off
\* in the middle, a placeholder, a build, or a bundle mixed from two of them.
Contents == {"absent", "partial", "cut", "placeholder", "built", "signed", "mixed"}

NoVersion == [readable |-> FALSE, real |-> {}]

VARIABLES
    artifacts,  \* what the builders have left at their output paths
    build,      \* the build that runs: what, its step, is it to be signed
    stick,      \* the drive: its TESSERACT directory, vault and read-me
    install,    \* the installation that runs: its tool, step and sources
    unsynced,   \* the files of the drive that may not have reached it yet
    broken      \* a run over an installation was broken off, or files were lost

packvars == <<artifacts, build, stick, install, unsynced, broken>>
medium == <<stick, unsynced>>

---------------------------------------------------------------------------
(* The builders. *)
NoBuild == [of |-> "none", at |-> "idle", sign |-> FALSE]

StartBuild(x, step, sign) ==
    /\ build = NoBuild
    /\ build' = [of |-> x, at |-> step, sign |-> sign]

\* Whether it returns Ok or an error: what it has written stays.
EndBuild == build' = NoBuild

\* AppImageBuilder::build works in a directory of its own until the tool runs.
BuildAppImage ==
    /\ StartBuild("linux", "tool", FALSE)
    /\ UNCHANGED <<artifacts, medium, install, broken>>

\* create_appimage: the tool writes the output, or fails on the way.
CreateAppImage ==
    /\ build.at = "tool"
    /\ \/ /\ artifacts' = [artifacts EXCEPT !.linux = "partial"]
          /\ UNCHANGED build
       \/ /\ artifacts' = [artifacts EXCEPT !.linux = "built"]
          /\ build' = [build EXCEPT !.at = "size"]
       \/ /\ \E left \in {artifacts.linux, "partial"} :
               artifacts' = [artifacts EXCEPT !.linux = left]
          /\ EndBuild
    /\ UNCHANGED <<medium, install, broken>>

\* The size limit is checked on the written output, which stays.
CheckSize ==
    /\ build.at = "size"
    /\ EndBuild
    /\ UNCHANGED <<artifacts, medium, install, broken>>

\* AppBundleBuilder::build removes the old bundle and makes the directories, ...
BuildAppBundle(sign) ==
    /\ StartBuild("macos", "fill", sign)
    /\ artifacts' = [artifacts EXCEPT !.macos = "partial"]
    /\ UNCHANGED <<medium, install, broken>>

\* ... copies the binary and writes the lists and the icon, ...
FillAppBundle ==
    /\ build.at = "fill"
    /\ \/ /\ artifacts' = [artifacts EXCEPT !.macos = "built"]
          /\ build' = [build EXCEPT !.at = "sign"]
       \/ EndBuild /\ artifacts' = artifacts
    /\ UNCHANGED <<medium, install, broken>>

\* ... signs it when an identity is configured, ...
CodeSign ==
    /\ build.at = "sign"
    /\ \/ /\ artifacts' = [artifacts EXCEPT !.macos = IF build.sign THEN "signed" ELSE @]
          /\ build' = [build EXCEPT !.at = "publish"]
       \/ build.sign /\ EndBuild /\ artifacts' = artifacts
    /\ UNCHANGED <<medium, install, broken>>

\* ... and has it notarized and put into a disk image: either may fail.
PublishAppBundle ==
    /\ build.at = "publish"
    /\ EndBuild
    /\ UNCHANGED <<artifacts, medium, install, broken>>

---------------------------------------------------------------------------
(* Getting the executables onto the drive. *)
NoInstall == [tool |-> "none", at |-> "idle", from |-> {}, done |-> {},
              real |-> {}, over |-> FALSE, initVault |-> FALSE]

IsInstalled == stick.dir

\* get_install_info: the first line of the version file.
InstalledVersion == IsInstalled /\ stick.version.readable

Start(tool, step, sources, initVault) ==
    /\ install = NoInstall
    /\ install' = [NoInstall EXCEPT !.tool = tool, !.at = step, !.from = sources,
                                    !.over = InstalledVersion, !.initVault = initVault]

\* prepare_drive up to the directories; sources = {} asks for placeholders.
Prepare(target, force, skip, sources, initVault) ==
    /\ install = NoInstall
    /\ force \/ ~IsInstalled
    /\ skip \/ ValidateRemovable(target)
    /\ Start("prepare", "copy", sources, initVault)
    /\ stick' = [stick EXCEPT !.dir = TRUE, !.vault = IF @ = "absent" THEN "empty" ELSE @]
    /\ UNCHANGED <<artifacts, build, unsynced, broken>>

\* Sizes as they are before anything is copied; one that cannot be read is 0.
EstimateBundleSize(sources) ==
    LET size == [x \in Exe |-> IF x \in sources THEN ArtifactSize[artifacts[x]] ELSE 0]
    IN  size["windows"] + size["linux"] + size["macos"]

\* create_bundle: some executable is configured; the old directory goes.
CreateBundle(force, sources) ==
    /\ sources # {}
    /\ force \/ ~IsInstalled
    /\ EstimateBundleSize(sources) <= MaxSize
    /\ Start("bundle", "clear", sources, FALSE)
    /\ UNCHANGED <<artifacts, build, medium, broken>>

NothingCopied == [x \in Exe |-> "absent"]

\* remove_dir_all and create_dir_all.
ClearBundle ==
    /\ install.at = "clear"
    /\ stick' = [stick EXCEPT !.dir = TRUE, !.exe = NothingCopied, !.version = NoVersion]
    /\ install' = [install EXCEPT !.at = "copy"]
    /\ unsynced' = {}
    /\ UNCHANGED <<artifacts, build, broken>>

\* The executables are copied one after the other.
NextExe(x) ==
    /\ install.at = "copy"
    /\ \E i \in DOMAIN Executables :
         /\ x = Executables[i]
         /\ install.done = {Executables[j] : j \in 1 .. i - 1}

Available(x) == x \in install.from /\ artifacts[x] # "absent"

\* A directory is copied into the one that is there; a file replaces it.
CopiedOver(x, new) ==
    IF x = "macos" /\ stick.exe[x] \notin {"absent", new} THEN "mixed" ELSE new

Place(x, what, isReal) ==
    /\ stick' = [stick EXCEPT !.exe[x] = what]
    /\ unsynced' = unsynced \cup {x}
    /\ install' = [install EXCEPT !.done = @ \cup {x},
                                  !.real = IF isReal THEN @ \cup {x} ELSE @]

WritePlaceholder(x) == Place(x, CopiedOver(x, "placeholder"), FALSE)

\* copy_or_create_executables: what is missing becomes a placeholder.
CopyExecutable(x) ==
    /\ NextExe(x) /\ install.tool = "prepare"
    /\ IF Available(x) THEN Place(x, CopiedOver(x, artifacts[x]), FALSE)
                       ELSE WritePlaceholder(x)
    /\ UNCHANGED <<artifacts, build, broken>>

CopyIntoBundle(x) == Available(x) /\ Place(x, artifacts[x], TRUE)

\* A directory whose copy failed half way is not removed first.
CreatePlaceholder(x) ==
    \/ ~Available(x) /\ Place(x, "placeholder", FALSE)
    \/ Available(x) /\ Place(x, IF x = "macos" THEN "mixed" ELSE "placeholder", FALSE)

\* create_bundle does the same, and for a copy that fails as well.
BundleExecutable(x) ==
    /\ NextExe(x) /\ install.tool = "bundle"
    /\ CopyIntoBundle(x) \/ CreatePlaceholder(x)
    /\ UNCHANGED <<artifacts, build, broken>>

Finish ==
    /\ install' = NoInstall
    /\ broken' = FALSE

WriteVersionFile_First ==
    /\ install.at = "copy"
    /\ stick' = [stick EXCEPT !.version = [readable |-> TRUE, real |-> install.real]]
    /\ install' = [install EXCEPT !.at = IF install.done = Exe THEN "vault" ELSE "copy"]
    /\ unsynced' = unsynced \cup {"version"}
    /\ UNCHANGED <<artifacts, build, broken>>

\* A bundle's version file tells the executables from the placeholders, that
\* of a prepared drive lists none.
BundleVersion == [readable |-> TRUE, real |-> install.real]

\* write_version_file, after the last executable.
WriteVersionFile ==
    /\ install.at = "copy" /\ install.done = Exe
    /\ stick' = [stick EXCEPT !.version =
            IF install.tool = "bundle" THEN BundleVersion ELSE [BundleVersion EXCEPT !.real = {}]]
    /\ install' = [install EXCEPT !.at = "vault"]
    /\ unsynced' = unsynced \cup {"version"}
    /\ UNCHANGED <<artifacts, build, broken>>

\* initialize_vault makes directories and a mark, and may fail on the way.
InitializeVault ==
    \E marked \in {install.initVault, FALSE} :
        stick' = [stick EXCEPT !.vault = IF marked THEN "marked" ELSE @]

\* prepare_drive goes on with initialize_vault, whose failure is a warning,
\* and the read-me; create_bundle with its additional files.
FinishInstall ==
    /\ install.at = "vault"
    /\ IF install.tool = "prepare" THEN InitializeVault ELSE stick' = stick
    /\ Finish
    /\ UNCHANGED <<artifacts, build, unsynced>>

\* The run fails or is killed: the file being written is cut, a directory being
\* removed has lost some of its files.
BreakOff ==
    /\ install # NoInstall
    /\ \/ stick' = stick
       \/ \E x \in Exe : NextExe(x) /\ stick' = [stick EXCEPT !.exe[x] = "cut"]
       \/ /\ install.at = "clear" /\ stick.dir
          /\ \E lost \in SUBSET Exe, version \in {stick.version, NoVersion} :
               stick' = [stick EXCEPT !.version = version,
                                      !.exe = [x \in Exe |-> IF x \in lost THEN "absent" ELSE @[x]]]
    /\ install' = NoInstall
    /\ broken' = (broken \/ install.over)
    /\ UNCHANGED <<artifacts, build, unsynced>>

\* The system writes back what it holds.
WriteBack ==
    /\ unsynced # {} /\ unsynced' = {}
    /\ UNCHANGED <<artifacts, build, stick, install, broken>>

\* The drive is pulled, which breaks off what runs first.  Files it was not sent
\* are cut or not there; its directories are taken to stay, as without them
\* nothing is installed.
PullDrive ==
    /\ install = NoInstall
    /\ \E lost \in (SUBSET unsynced) \ {{}}, left \in {"absent", "cut"} :
         stick' = [stick EXCEPT
                     !.exe = [x \in Exe |-> IF x \in lost THEN left ELSE @[x]],
                     !.version = IF "version" \in lost THEN NoVersion ELSE @]
    /\ unsynced' = {} /\ broken' = TRUE
    /\ UNCHANGED <<artifacts, build, install>>

PackInit ==
    /\ artifacts = [x \in Exe |-> IF x = "windows" THEN "built" ELSE "absent"]
    /\ build = NoBuild
    /\ stick = [dir |-> FALSE, exe |-> NothingCopied, version |-> NoVersion,
                vault |-> "absent"]
    /\ install = NoInstall
    /\ unsynced = {} /\ broken = FALSE

PackNext ==
    \/ BuildAppImage \/ CreateAppImage \/ CheckSize
    \/ \E sign \in BOOLEAN : BuildAppBundle(sign)
    \/ FillAppBundle \/ CodeSign \/ PublishAppBundle
    \/ \E target \in Media, force, skip, initVault \in BOOLEAN, sources \in SourceSets \cup {{}} :
         Prepare(target, force, skip, sources, initVault)
    \/ \E force \in BOOLEAN, sources \in SourceSets : CreateBundle(force, sources)
    \/ ClearBundle \/ WriteVersionFile \/ FinishInstall \/ BreakOff
    \/ WriteBack \/ PullDrive
    \/ \E x \in Exe : CopyExecutable(x) \/ BundleExecutable(x)

PackSpec == PackInit /\ [][PackNext]_packvars
---------------------------------------------------------------------------
(* A version that can be read stands for an installation that was written  *)
(* to its end: every executable, or its placeholder, is there and whole,   *)
(* and what a bundle's version file lists as real is a copy of what was at *)
(* the builder's output path, be it what a failed build left there.  Two   *)
(* things may leave less: a run over an earlier installation that was      *)
(* broken off (usb.rs:258-272, bundle.rs:475-604), and a drive pulled      *)
(* before all was written back, for nothing is synced (usb.rs:427).        *)
VersionMeansWritten ==
    InstalledVersion /\ install = NoInstall /\ ~broken =>
        \A x \in Exe :
            /\ stick.exe[x] \notin {"absent", "cut"}
            /\ x \in stick.version.real => stick.exe[x] \notin {"placeholder", "mixed"}

(* Known to be violated: what detection takes for removable can be taken    *)
(* out.  A built-in eMMC is an "mmcblk" device as well (detection.rs:367),  *)
(* and a folder whose name continues a stick's mount point is taken to be   *)
(* on the stick (detection.rs:236).                                         *)
AcceptedIsDetachable ==
    \A target \in Media : ValidateRemovable(target) => target.detachable

(* Known to be violated: is_installed tells a drive that was prepared.  The *)
(* directory is made first (usb.rs:252), so a preparation that was broken   *)
(* off can only be repeated with --force.                                   *)
InstalledMeansPrepared ==
    IsInstalled /\ install = NoInstall => stick.version.readable
===========================================================================

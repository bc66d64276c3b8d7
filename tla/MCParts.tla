------------------------------ MODULE MCParts ------------------------------
(***************************************************************************)
(* The smaller parts for TLC: streaming, the chunk cache, the access modes *)
(* of a session, hardware containers, self-encrypting drives, preparing a  *)
(* drive, finding a drive.  They share no state: a run stays in one.       *)
(***************************************************************************)
EXTENDS Streaming, ChunkCache, SessionAccess, DriveContainer, OpalDrive, DrivePackage,
  DriveDetection, SecureMemory, NonceRegistry

VARIABLE used

dataVars == <<streamvars, cachevars, accessvars, memoryvars, noncevars>>
deviceVars == <<hwvars, opalvars, packvars, detectvars>>
vars == <<used, dataVars, deviceVars>>

MCStreams == {<<"f", {}>>, <<"f", {0}>>, <<"g", {}>>}
MCContent == [f \in CachedFiles |-> <<2, 2, 1>>]

\* Targets: a folder on the built-in disk that is named like a stick, the same
\* rotating disk on USB on two systems.
Stick == [at |-> "/mnt/usb", fs |-> "vfat", class |-> "sd",
          disk |-> [removable |-> TRUE, usb |-> TRUE, rotational |-> TRUE]]
Root == [at |-> "/", fs |-> "ext4", class |-> "nvme",
         disk |-> [removable |-> FALSE, usb |-> FALSE, rotational |-> FALSE]]
Platters == [at |-> "/mnt/hdd", volume |-> [protocol |-> "USB"],
             whole |-> [removable |-> "Fixed", internal |-> "External"]]
MCMedia ==
  {[system |-> "linux", mounts |-> {Stick, Root}, path |-> "/mnt/usb2", detachable |-> FALSE],
   [system |-> "macos", mounts |-> {Platters}, path |-> "/mnt/hdd/x", detachable |-> TRUE],
   [system |-> "windows", mounts |-> {[at |-> "E:", kind |-> "Fixed"]}, path |-> "E:",
    detachable |-> TRUE]}
MCBelow ==
  {<<p, "/">> : p \in {"/", "/mnt/usb", "/mnt/usb2", "/mnt/hdd", "/mnt/hdd/x"}}
  \cup {<<p, p>> : p \in {"/mnt/usb", "/mnt/hdd", "E:"}} \cup {<<"/mnt/hdd/x", "/mnt/hdd">>}
MCBeginsWith == MCBelow \cup {<<"/mnt/usb2", "/mnt/usb">>}
\* A bundle with a signed executable is too large.
MCArtifactSize == [c \in Contents |-> CASE c = "absent" -> 0 [] c = "signed" -> 2 [] OTHER -> 1]
MCSourceSets == {{"linux", "macos"}}


\* nvme0n1 is built in, sdb and sdc are sticks with the same major number, one
\* of them a container.
Disk(removable, major, digits, container) ==
  [removable |-> removable, major |-> major, digits |-> digits,
   readable |-> TRUE, container |-> container]
MCDiskFacts == [d \in Disks |-> CASE d = "nvme0n1" -> Disk(FALSE, 3, TRUE, FALSE)
                                [] d = "sdb" -> Disk(TRUE, 8, FALSE, TRUE)
                                [] d = "sdc" -> Disk(TRUE, 8, FALSE, FALSE)]
MCAbove == {e \in MountFolders \X MountFolders : e[1] \in {e[2], "/"}}
\* One place on the heap has a page to itself.
MCPageOf == [p \in Places |-> CASE p = "h1" -> 1 [] p \in {"h2", "h3"} -> 2
                             [] p \in {"s1", "s2"} -> 3]

Init ==
  /\ used \in {"stream", "cache", "access", "container", "opal", "package",
              "detect", "memory", "nonce"}
  \* What is not used starts in one state; what a stream is damaged with is
  \* not empty.
  /\ used # "stream" => length = [s \in Streams |-> CHOOSE n \in Lengths : TRUE]
  /\ StreamInit
  /\ IF used = "stream" THEN \A s \in Streams \ {work.of} : length[s] # 0
                        ELSE work.of = CHOOSE s \in Streams : TRUE
  /\ used # "opal" => target = "linux"
  /\ OpalInit
  /\ used # "opal" => opal.supported /\ ~opal.mbrdone
  /\ used # "access" => disk = [l \in Levels |-> NoKeystore]
  /\ used # "container" => platform = "linux" /\ plainMount = FALSE
  /\ used # "detect" => system = "linux"
  /\ AccessInit /\ HwInit /\ DetectInit /\ PackInit
  /\ CacheInit /\ MemoryInit /\ NonceInit

Next ==
  /\ UNCHANGED used
  /\ \/ used = "stream" /\ StreamNext /\ UNCHANGED <<cachevars, accessvars, memoryvars, noncevars, deviceVars>>
     \/ used = "cache" /\ CacheNext /\ UNCHANGED <<streamvars, accessvars, memoryvars, noncevars, deviceVars>>
     \/ used = "access" /\ AccessNext /\ UNCHANGED <<streamvars, cachevars, memoryvars, noncevars, deviceVars>>
     \/ used = "memory" /\ MemoryNext /\ UNCHANGED <<streamvars, cachevars, accessvars, noncevars, deviceVars>>
     \/ used = "nonce" /\ NonceNext /\ UNCHANGED <<streamvars, cachevars, accessvars, memoryvars, deviceVars>>
     \/ used = "container" /\ HwNext /\ UNCHANGED <<dataVars, opalvars, packvars, detectvars>>
     \/ used = "opal" /\ OpalNext /\ UNCHANGED <<dataVars, hwvars, packvars, detectvars>>
     \/ used = "package" /\ PackNext /\ UNCHANGED <<dataVars, hwvars, opalvars, detectvars>>
     \/ used = "detect" /\ DetectNext /\ UNCHANGED <<dataVars, hwvars, opalvars, packvars>>

Spec == Init /\ [][Next]_vars

\* What is not used stays as it is, and nothing looks at the vault's
\* directories of a prepared drive again.
View ==
  CASE used = "package" -> <<used, artifacts, build, stick.dir, stick.exe, stick.version,
                             [install EXCEPT !.initVault = FALSE], unsynced, broken>>
    [] used = "stream"  -> <<used, streamvars>>
    [] OTHER            -> <<used, cachevars, accessvars, memoryvars, noncevars, hwvars,
                             opalvars, detectvars>>
=============================================================================

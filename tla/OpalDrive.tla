----------------------------- MODULE OpalDrive -----------------------------
(* A self-encrypting drive behind crates/hardware/src/sed: every call runs *)
(* the tool (sedutil) once for the status and decides on the answer, then  *)
(* runs it again for the command.  Calls interleave, the tool may fail and *)
(* the drive locks itself when it loses power.                             *)
EXTENDS Naturals

CONSTANTS
    OpalCallers, OpalPasswords,
    OpalPlatforms   \* the platforms the crate is built for

NoOwner == "nobody"

ASSUME OpalAssumption == NoOwner \notin OpalPasswords

VARIABLES
    target,     \* the platform of this build
    opal,       \* the drive: has it Opal, who owns it, is locking enabled,
                \* is it locked, has its boot record been set up
    cmd,        \* cmd[c]: the command a call has decided on, with its password
    answer,     \* answer[c]: what the last call of c returned
    claimed     \* the passwords initialize has returned Ok for

opalvars == <<target, opal, cmd, answer, claimed>>

\* What a run of the tool can come to, told apart as far as the code does.
Outcomes == {"no tool", "not permitted to run", "operation not permitted",
             "access denied", "not authorized", "not initialized", "failed"}
MachineOutcomes == Outcomes \ {"not authorized", "not initialized"}

\* parse_sedutil_query_output, on what the tool prints of the drive.
ParseSedutilQueryOutput(d) ==
    CASE ~d.supported -> "NotSupported"
      [] d.supported /\ d.locked -> "Locked"
      [] d.supported /\ ~d.locked /\ (d.enabled \/ d.mbrdone) -> "Unlocked"
      [] OTHER -> "Uninitialized"

Statuses == {"NotSupported", "Uninitialized", "Locked", "Unlocked",
             "ToolNotFound", "PermissionDenied"}

ToolError(outcome) ==
    IF outcome = "no tool" THEN "ToolNotFound" ELSE "PermissionDenied"

\* get_opal_status: the parsed answer; when the tool fails, Locked if it
\* prints that the caller is not authorized, and NotSupported if anything else.
GetOpalStatus(status) ==
    \/ status = ParseSedutilQueryOutput(opal)
    \/ status = "Locked" /\ opal.locked
    \/ status = "NotSupported"
    \/ \E o \in {"no tool", "not permitted to run"} : status = ToolError(o)

Ready == [do |-> "none", pw |-> NoOwner]
Ask(what, p) == [do |-> what, pw |-> p]

OpalInit ==
    /\ target \in OpalPlatforms
    /\ opal \in [supported : BOOLEAN, owner : {NoOwner}, enabled : {FALSE},
                 locked : {FALSE}, mbrdone : BOOLEAN]
    /\ cmd = [c \in OpalCallers |-> Ready]
    /\ answer = [c \in OpalCallers |-> "none"]
    /\ claimed = {}

\* A call goes on to its command, or returns.
Decide(c, ask) ==
    /\ cmd' = [cmd EXCEPT ![c] = ask]
    /\ answer' = [answer EXCEPT ![c] = "none"]
Returns(c, what) ==
    /\ cmd' = [cmd EXCEPT ![c] = Ready]
    /\ answer' = [answer EXCEPT ![c] = what]

\* OpalDrive::unlock: an unlocked drive takes any password.
Unlock(c, p) ==
    /\ cmd[c] = Ready
    /\ \E status \in Statuses :
         /\ GetOpalStatus(status)
         /\ CASE status = "Locked" -> Decide(c, Ask("unlock", p))
              [] status = "Unlocked" -> Returns(c, "Ok")
              [] OTHER -> Returns(c, status)
    /\ UNCHANGED <<target, opal, claimed>>

\* OpalDrive::initialize: only an uninitialized drive.
InitializeDrive(c, p) ==
    /\ cmd[c] = Ready
    /\ \E status \in Statuses :
         /\ GetOpalStatus(status)
         /\ CASE status = "Uninitialized" -> Decide(c, Ask("initialize", p))
              [] status \in {"Locked", "Unlocked"} -> Returns(c, "CommandFailed")
              [] OTHER -> Returns(c, status)
    /\ UNCHANGED <<target, opal, claimed>>

\* OpalDrive::lock: only an unlocked drive; the tool is given no password.
LockDrive(c) ==
    /\ cmd[c] = Ready
    /\ \E status \in Statuses :
         /\ GetOpalStatus(status)
         /\ CASE status = "Unlocked" -> Decide(c, Ask("lock", NoOwner))
              [] status = "Locked" -> Returns(c, "Ok")
              [] OTHER -> Returns(c, status)
    /\ UNCHANGED <<target, opal, claimed>>

\* The tool opens a locked drive to its owner's password only.
Fits(c) == opal.owner = cmd[c].pw
Refusals(c) ==
    MachineOutcomes \cup (IF Fits(c) THEN {} ELSE {"not authorized", "not initialized"})

\* What unlock_opal_* does with the tool's answer: the status it reads after
\* a success is thrown away, a refusal becomes the error of errorOf.
UnlockWith(c, errorOf) ==
    /\ cmd[c].do = "unlock"
    /\ \/ Fits(c) /\ opal' = [opal EXCEPT !.locked = FALSE] /\ Returns(c, "Ok")
       \/ \E o \in Refusals(c) : opal' = opal /\ Returns(c, errorOf[o])
    /\ UNCHANGED <<target, claimed>>

LinuxErrors ==
    [o \in Outcomes |->
        CASE o \in {"no tool", "not permitted to run"} -> ToolError(o)
          [] o = "not authorized" -> "InvalidPassword"
          [] o = "not initialized" -> "OpalNotInitialized"
          [] OTHER -> "OpalNotSupported"]

UnlockOpalLinux(c) == target = "linux" /\ UnlockWith(c, LinuxErrors)

\* On macOS what the system does not permit is told from a wrong password, ...
UnlockOpalMacOS(c) ==
    /\ target = "macos"
    /\ UnlockWith(c, [LinuxErrors EXCEPT !["operation not permitted"] = "PermissionDenied"])

\* ... on Windows the system's refusal is taken for one.
UnlockOpalWindows(c) ==
    /\ target = "windows"
    /\ UnlockWith(c, [LinuxErrors EXCEPT !["access denied"] = "InvalidPassword"])

\* The tool takes ownership of a drive without an owner, ...
SetUp(p) == [opal EXCEPT !.owner = p, !.enabled = TRUE, !.mbrdone = TRUE]

\* (A wrong form: a drive that has an owner already is taken for set up.)
InitializeWith_OwnedIsOk(c, errors) ==
    /\ cmd[c].do = "initialize"
    /\ opal' = IF opal.owner = NoOwner THEN SetUp(cmd[c].pw) ELSE opal
    /\ claimed' = claimed \cup {cmd[c].pw}
    /\ Returns(c, "Ok")
    /\ UNCHANGED target

\* ... and fails for any other: what initialize_opal_* makes of its answer.
InitializeWith(c, errors) ==
    /\ cmd[c].do = "initialize"
    /\ \/ /\ opal.owner = NoOwner
          /\ opal' = SetUp(cmd[c].pw)
          /\ claimed' = claimed \cup {cmd[c].pw}
          /\ Returns(c, "Ok")
       \/ \E e \in errors : UNCHANGED <<opal, claimed>> /\ Returns(c, e)
    /\ UNCHANGED target

InitializeErrors ==
    {"CommandFailed", "OpalNotSupported", "ToolNotFound", "PermissionDenied"}

InitializeOpalUnix(c) ==
    /\ target # "windows"
    /\ InitializeWith(c, InitializeErrors)

InitializeOpalWindows(c) ==
    /\ target = "windows"
    /\ InitializeWith(c, InitializeErrors)

\* The tool stops after taking ownership: the call fails, the drive has an
\* owner and does not lock.
InitializeOpalHalfway(c) ==
    /\ cmd[c].do = "initialize"
    /\ opal.owner = NoOwner
    /\ opal' = [opal EXCEPT !.owner = cmd[c].pw]
    /\ Returns(c, "CommandFailed")
    /\ UNCHANGED <<target, claimed>>

LockOpal(c) ==
    /\ cmd[c].do = "lock"
    /\ \/ opal' = [opal EXCEPT !.locked = opal.enabled] /\ Returns(c, "Ok")
       \/ opal' = opal /\ Returns(c, "CommandFailed")
    /\ UNCHANGED <<target, claimed>>

\* The drive is unplugged and plugged in again.
PowerCycle ==
    /\ opal' = [opal EXCEPT !.locked = opal.enabled]
    /\ UNCHANGED <<target, cmd, answer, claimed>>

OpalNext ==
    \/ \E c \in OpalCallers, p \in OpalPasswords :
         Unlock(c, p) \/ InitializeDrive(c, p)
    \/ \E c \in OpalCallers :
         \/ LockDrive(c)
         \/ UnlockOpalLinux(c) \/ UnlockOpalMacOS(c) \/ UnlockOpalWindows(c)
         \/ InitializeOpalUnix(c) \/ InitializeOpalWindows(c)
         \/ InitializeOpalHalfway(c) \/ LockOpal(c)
    \/ PowerCycle

OpalSpec == OpalInit /\ [][OpalNext]_opalvars
---------------------------------------------------------------------------
(* A call of initialize_drive that returned Ok has made its own password   *)
(* the drive's, even when two calls saw the drive uninitialized            *)
(* (sed/mod.rs:43-47): nobody is told Ok for a password that opens nothing.*)
OkMeansOwned == claimed # {} => claimed = {opal.owner}

(* Known to be violated: whoever is told that the password is wrong can    *)
(* believe it.  On Windows the system's "access denied" reads the same     *)
(* (opal.rs:878).                                                          *)
OwnerIsNotToldWrong ==
    [][ \A c \in OpalCallers :
          cmd[c].do = "unlock" /\ answer'[c] = "InvalidPassword" => ~Fits(c) ]_opalvars

(* Known to be violated: a drive whose initialization failed can be        *)
(* initialized again.  Its status still reads Uninitialized (opal.rs:532), *)
(* but the tool refuses it because it has an owner.                        *)
FailedInitCanBeRepeated ==
    ParseSedutilQueryOutput(opal) = "Uninitialized" => opal.owner = NoOwner
===========================================================================

--------------------------- MODULE SessionAccess ---------------------------
(* What a session may use (session.rs:237-568): the levels it has unlocked, *)
(* the highest of them and the access mode, while the keystores on disk    *)
(* are removed and get new passwords behind its back.                      *)
EXTENDS Naturals

CONSTANTS Levels, LevelPasswordsOf, NoKeystore

NoLevel == 0

\* Levels are numbered from 1, and one of them is the highest.
ASSUME AccessAssumption ==
    /\ Levels \subseteq Nat \ {NoLevel}
    /\ \E top \in Levels : \A l \in Levels : l <= top

VARIABLES
    disk,       \* disk[l]: the password of the keystore of level l
    state,      \* "closed", "Active" or "Locked"
    access_mode,
    unlocked,   \* unlocked_keystores: level -> the password that opened it
    max_level

accessvars == <<disk, state, access_mode, unlocked, max_level>>

Nothing == [l \in {} |-> NoKeystore]
Unlocked == DOMAIN unlocked

AccessInit ==
    /\ disk \in [Levels -> LevelPasswordsOf \cup {NoKeystore}]
    /\ state = "closed" /\ access_mode = "Isolated"
    /\ unlocked = Nothing /\ max_level = NoLevel

\* load_and_unlock_keystore: the levels among ls that the password opens
OpenedBy(p, ls) == {l \in ls : disk[l] = p}

With(ls, p) == [l \in Unlocked \cup ls |-> IF l \in Unlocked THEN unlocked[l] ELSE p]

Highest(ls) == IF ls = {} THEN NoLevel ELSE CHOOSE l \in ls : \A k \in ls : k <= l

\* max_level is raised by each level unlocked.
Raised(ls) == Highest({max_level} \cup ls)

\* open_vault and open_vault_hierarchical: all levels, at least one opens.
OpenVault(p, mode) ==
    /\ state = "closed"
    /\ LET opened == OpenedBy(p, Levels) IN
         /\ opened # {}
         /\ unlocked' = [l \in opened |-> p]
         /\ max_level' = Highest(opened)
    /\ state' = "Active" /\ access_mode' = mode
    /\ UNCHANGED disk

SetAccessMode(mode) ==
    /\ state # "closed"
    /\ access_mode' = mode
    /\ UNCHANGED <<disk, state, unlocked, max_level>>

\* unlock_level: a level that is open already takes any password.
UnlockLevel(l, p) ==
    /\ state = "Active"
    /\ l \notin Unlocked /\ l \in OpenedBy(p, Levels)
    /\ unlocked' = With({l}, p)
    /\ max_level' = Raised({l})
    /\ UNCHANGED <<disk, state, access_mode>>

UnlockHierarchy_AllUpTo(top, p) ==
    /\ state = "Active"
    /\ unlocked' = With(OpenedBy(p, {l \in Levels : l <= top}), p)
    /\ max_level' = Raised({top})
    /\ UNCHANGED <<disk, state, access_mode>>

\* unlock_hierarchy: what does not open with the password is skipped.
UnlockHierarchy(top, p) ==
    /\ state = "Active"
    /\ LET opened == OpenedBy(p, {l \in Levels : l <= top} \ Unlocked) IN
         /\ unlocked' = With(opened, p)
         /\ max_level' = Raised(opened)
    /\ UNCHANGED <<disk, state, access_mode>>

CanAccessLevel(l) ==
    /\ state = "Active"
    /\ \/ access_mode = "Isolated" /\ l \in Unlocked
       \/ access_mode = "Hierarchical" /\ l # 0 /\ l <= max_level

AccessibleLevels == {l \in Levels : CanAccessLevel(l)}

\* get_effective_kek
HasEffectiveKek(l) == CanAccessLevel(l) /\ l \in Unlocked

\* lock, close and drop: the keys go.
LockSession ==
    /\ state = "Active"
    /\ state' = "Locked"
    /\ unlocked' = Nothing /\ max_level' = NoLevel
    /\ UNCHANGED <<disk, access_mode>>

\* A new session after the old one was closed.
CloseSession ==
    /\ state # "closed"
    /\ state' = "closed" /\ access_mode' = "Isolated"
    /\ unlocked' = Nothing /\ max_level' = NoLevel
    /\ UNCHANGED disk

\* Another session changes a level's password, or removes the level.
KeystoreChanged(l, p) ==
    /\ disk[l] # NoKeystore
    /\ disk' = [disk EXCEPT ![l] = p]
    /\ UNCHANGED <<state, access_mode, unlocked, max_level>>

AccessNext ==
    \/ \E p \in LevelPasswordsOf, mode \in {"Isolated", "Hierarchical"} : OpenVault(p, mode)
    \/ \E mode \in {"Isolated", "Hierarchical"} : SetAccessMode(mode)
    \/ \E l \in Levels, p \in LevelPasswordsOf : UnlockLevel(l, p) \/ UnlockHierarchy(l, p)
    \/ LockSession \/ CloseSession
    \/ \E l \in Levels, p \in LevelPasswordsOf \cup {NoKeystore} : KeystoreChanged(l, p)

AccessSpec == AccessInit /\ [][AccessNext]_accessvars
---------------------------------------------------------------------------
(* The top of what a session may access, in either mode, is a level whose  *)
(* own password was given: changing the mode, or unlocking a hierarchy     *)
(* whose upper levels have other passwords, opens nothing above it, and a  *)
(* locked session opens nothing (session.rs:366-494, 553-568).             *)
TopLevelWasUnlocked ==
    AccessibleLevels # {} => HasEffectiveKek(Highest(AccessibleLevels))

(* Known to be violated: what can be accessed has a key.  In hierarchical   *)
(* mode every level below the highest counts as accessible, whether its    *)
(* keystore was opened or not (session.rs:376-386, 506-521).               *)
AccessibleHasKey == \A l \in AccessibleLevels : HasEffectiveKek(l)
===========================================================================

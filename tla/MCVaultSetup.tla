---------------------------- MODULE MCVaultSetup ----------------------------
(***************************************************************************)
(* Creating and deleting vaults, and the passwords of their levels, for    *)
(* TLC.  They share no state: a run stays in one of them.  Two levels of   *)
(* the vault and one to create, the master password and one other, one KEK *)
(* to draw; two processes that create vaults of one or two levels, in      *)
(* three attempts in all.                                                  *)
(***************************************************************************)
EXTENDS LevelPasswords, VaultCreation, TLC

VARIABLE used

MCLevelFiles == <<"L1", "L2">>
LevelSymmetry == Permutations(Original)
Symmetry == LevelSymmetry \cup Permutations(Creators)

MCInit ==
  /\ used \in {"creation", "passwords"}
  /\ Init /\ CreationInit
  \* What is not used starts in one state.
  /\ used # "passwords" => \A l \in Original : told[l] = Master
  /\ used # "creation" => dirs = {}

MCNext ==
  /\ UNCHANGED used
  /\ \/ used = "passwords" /\ Next /\ UNCHANGED creationVars
     \/ used = "creation" /\ CreationNext /\ UNCHANGED vars

\* What the user was told guides no step and is in none of this run's invariants:
\* states that differ in it alone are one.
View == <<used, files, session, job, kekCount, created, unsaved, creationVars>>

MCSpec == MCInit /\ [][MCNext]_<<used, vars, creationVars>>
=============================================================================

---------------------------- MODULE MCVaultFiles ----------------------------
(***************************************************************************)
(* VaultFiles for TLC: two files, two levels of which the master password  *)
(* opens one, and the operations each configuration names.                 *)
(***************************************************************************)
EXTENDS VaultFiles, TLC

FileSymmetry == Permutations(Files) \cup Permutations(Names)
=============================================================================

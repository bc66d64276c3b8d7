--------------------------- MODULE MCVaultUnlock ---------------------------
(***************************************************************************)
(* VaultUnlock for TLC.  The delays are scaled down and keep their order:  *)
(* backoff 2 then 3 (the cap), threshold 3, lockout 4, a counter that      *)
(* saturates one above the threshold.                                      *)
(***************************************************************************)
EXTENDS VaultUnlock, TLC

OpenerSymmetry == Permutations(Openers)
=============================================================================

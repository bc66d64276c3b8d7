----------------------------- MODULE MCDesktop -----------------------------
(***************************************************************************)
(* Desktop for TLC: two vaults, one on an encrypted drive, one on the      *)
(* built-in disk; that drive can be pulled or locked, and another be       *)
(* opened in its place.                                                    *)
(***************************************************************************)
EXTENDS Desktop, TLC

CONSTANTS v1, v2, d1, d2

OneOnDisk == v1 :> d1 @@ v2 :> None
=============================================================================

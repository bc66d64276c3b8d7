--------------------------- MODULE MCFuseHandler ---------------------------
(***************************************************************************)
(* FuseHandler for TLC: two paths, two handles, contents of up to two      *)
(* blocks.                                                                 *)
(***************************************************************************)
EXTENDS FuseHandler, TLC

Symmetry == Permutations(Files) \cup Permutations(Paths) \cup Permutations(Handles)
=============================================================================

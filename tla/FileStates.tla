----------------------------- MODULE FileStates -----------------------------
(***************************************************************************)
(* What a vault's file may be besides whole: not there, or cut off by a    *)
(* crash while it was written in place.                                    *)
(***************************************************************************)
CONSTANTS Absent, Torn
=============================================================================

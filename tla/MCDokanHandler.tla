--------------------------- MODULE MCDokanHandler ---------------------------
(***************************************************************************)
(* DokanHandler for TLC: two threads, one handle and two changes, which is *)
(* where calls meet.                                                       *)
(***************************************************************************)
EXTENDS DokanHandler
=============================================================================

---------------------------- MODULE FileCatalog ----------------------------
(***************************************************************************)
(* What a vault promises of its files (crates/core/src/files.rs): a file   *)
(* comes, changes and goes in one step, and no step touches two.  An       *)
(* operation that fails spoils its own file, of which nothing is promised  *)
(* any more.                                                               *)
(***************************************************************************)
CONSTANTS
  Files,    \* uuids
  Entries,  \* what a file that is whole can be
  Spoiled,  \* what an operation that failed half way may leave of one
  Absent    \* no such file

VARIABLE file

Add(f, e)   == file[f] = Absent /\ file' = [file EXCEPT ![f] = e]
Alter(f, e) == file[f] \in Entries /\ file' = [file EXCEPT ![f] = e]
Remove(f)   == file[f] # Absent /\ file' = [file EXCEPT ![f] = Absent]
Spoil(f, s) == file' = [file EXCEPT ![f] = s]

CatalogInit == file \in [Files -> Entries \cup {Absent}]

CatalogNext ==
  \E f \in Files :
    \/ Remove(f)
    \/ \E e \in Entries : Add(f, e) \/ Alter(f, e)
    \/ \E s \in Spoiled : Spoil(f, s)

CatalogSpec == CatalogInit /\ [][CatalogNext]_file
=============================================================================

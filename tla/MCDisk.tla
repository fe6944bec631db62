------------------------------- MODULE MCDisk -------------------------------
(***************************************************************************)
(* Small instances of Disk: OBS may have named the file of the configured  *)
(* collection otherwise than NewCollectionFile does.                       *)
(***************************************************************************)
EXTENDS Disk

\* Every name gives the same file: sanitize replaces what it does not know.
MCSanitize == [n \in Names |-> 2]

=============================================================================

-------------------------- MODULE MCLibraryUpgrade --------------------------
(***************************************************************************)
(* Instances of LibraryUpgrade for TLC.                                    *)
(***************************************************************************)
EXTENDS LibraryUpgrade

Symmetry == Permutations(Processes)
=============================================================================

--------------------------- MODULE MCLibraryBackup ---------------------------
(* A small instance of LibraryBackup for TLC. *)
EXTENDS LibraryBackup, TLC

MCSymmetry == Permutations(Procs)

=============================================================================

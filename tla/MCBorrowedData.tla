--------------------------- MODULE MCBorrowedData ---------------------------
(***************************************************************************)
(* Borrowed data on a small instance.                                      *)
(***************************************************************************)
EXTENDS BorrowedData, TLC

Symmetry == Permutations(Threads)
=============================================================================

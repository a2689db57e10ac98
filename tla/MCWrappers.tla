----------------------------- MODULE MCWrappers -----------------------------
(***************************************************************************)
(* The handle wrappers on a small instance.                                *)
(***************************************************************************)
EXTENDS Wrappers, TLC

Symmetry ==
    Permutations(Holders) \cup Permutations(Objects) \cup Permutations(Closers)
=============================================================================

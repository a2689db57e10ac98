--------------------------- MODULE MCRuleBindings ---------------------------
(***************************************************************************)
(* The bindings' rule helpers on small instances.                          *)
(***************************************************************************)
EXTENDS RuleBindings, TLC

Symmetry == Permutations(Threads) \cup Permutations(Rules)
=============================================================================

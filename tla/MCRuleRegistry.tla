--------------------------- MODULE MCRuleRegistry ---------------------------
(***************************************************************************)
(* The rule registry on small instances.                                   *)
(***************************************************************************)
EXTENDS RuleRegistry, TLC

\* Threads are alike, and so are the closures of one kind.
Symmetry ==
    Permutations(Threads) \cup Permutations(Rules \ NativeRules)
                          \cup Permutations(NativeRules \ UserDrop)
                          \cup Permutations(UserDrop)
=============================================================================

--------------------------- MODULE MCSessionFiles ---------------------------
(***************************************************************************)
(* Session files on small instances.                                       *)
(***************************************************************************)
EXTENDS SessionFiles, TLC

CONSTANTS p1, p2, t1, t2, d1

\* A process with two threads, and one with a single thread beside it.
TwoProcesses == {<<p1, t1>>, <<p1, t2>>, <<p2, t1>>}
OneProcess == {<<p1, t1>>, <<p1, t2>>}

\* The host of the first process found the compiler on its PATH already.
PathOfFirst == (p1 :> {d1}) @@ (p2 :> {})
\* The process with two threads compiles twice, its neighbour once.
SessionsOfEach == (p1 :> 2) @@ (p2 :> 1)
TwoSessions == [p \in Procs |-> 2]

NoPath == [p \in Procs |-> {}]

\* Process ids and formulas are each alike.
Symmetry == Permutations(Pids) \cup Permutations(Formulas)
=============================================================================

------------------------ MODULE MCPlaywrightExecutors ------------------------
(* Small instances of PlaywrightExecutors for TLC.                         *)
EXTENDS PlaywrightExecutors, TLC

CONSTANTS default, a, b, d, x, y, k1, k2, c1, c2

JustNamed == {a}
TwoNamed == {a, b}
OneName == {default, a}
TwoNames == {default, a, b}
TwoObjects == {d, x}
ThreeObjects == {d, x, y}
OneChild == {k1}
TwoChildren == {k1, k2}
TwoExecutions == {c1, c2}

(* Requests, processes and the structs of named executors are              *)
(* interchangeable.                                                        *)
Symmetry == Permutations(Executions) \cup Permutations(Children)
            \cup Permutations(Objects \ {Default})
            \cup Permutations(Names \ {DefaultName})
=============================================================================

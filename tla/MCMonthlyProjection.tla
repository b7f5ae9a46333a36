-------------------------- MODULE MCMonthlyProjection --------------------------
(* Small instances of MonthlyProjection. *)
EXTENDS MonthlyProjection, TLC

CONSTANTS a1, a2, x1, b1, b2, t1, t2, m1, m2

\* The months and the processes of one kind are interchangeable.
ProcessSymmetry == Permutations(Runtimes) \cup Permutations(Rebuilders)
MonthSymmetry == Permutations(Months)
=============================================================================

-------------------------- MODULE MCStatisticTask --------------------------
(* Instances of StatisticTask for TLC. *)
EXTENDS StatisticTask, TLC

CONSTANTS t1, t2, t3

\* The tasks are interchangeable.
Symmetry == Permutations({t1, t2, t3})
=============================================================================

------------------------------- MODULE MCSched -------------------------------
(* Model-checking values for Sched: records as model values, children      *)
(* interchangeable when none of them is a spinner.                         *)
EXTENDS Sched, TLC

CONSTANTS c1, c2, c3, a, b, coord, nil

Children == Permutations(Child)
=============================================================================

------------------------------- MODULE Pareto -------------------------------
(***************************************************************************)
(* The Pareto frontier over named points, each with a number for every     *)
(* objective; an objective is maximized or minimized.                      *)
(***************************************************************************)
EXTENDS Integers

AsGood(a, b, direction) == IF direction = "maximize" THEN a >= b ELSE a <= b

\* Faulty: points that are equal on every objective dominate each other.
WeaklyDominates(a, b, directions) == \A key \in DOMAIN directions : AsGood(a[key], b[key], directions[key])

\* _dominates: as good everywhere, strictly better somewhere.
Dominates(a, b, directions) ==
  /\ \A key \in DOMAIN directions : AsGood(a[key], b[key], directions[key])
  /\ \E key \in DOMAIN directions : ~ AsGood(b[key], a[key], directions[key])

Dominators(points, p, directions) ==
  {q \in DOMAIN points \ {p} : Dominates(points[q], points[p], directions)}

\* pareto_frontier: the points no other one dominates.
Frontier(points, directions) == {p \in DOMAIN points : Dominators(points, p, directions) = {}}
=============================================================================

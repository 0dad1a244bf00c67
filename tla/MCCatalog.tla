------------------------------ MODULE MCCatalog ------------------------------
(* Small instances of Catalog for TLC. *)
EXTENDS Catalog, TLC

CONSTANTS r1, r2, e1, e2, nobody

\* Stands for the hash: neighbouring seeds, positions and names fall into different splits.
Parity(seed, id) ==
  IF (seed + id.pos + id.renamed) % 2 = 0 THEN "train" ELSE "holdout"

\* Explored are the requests about datasets alone, and those about experiments beside one version:
\* the two meet in the first version only, which a create adds where there is none.
Bounded == Created = {} \/ Cardinality(rows) <= 1

Symmetry == Permutations({r1, r2}) \cup Permutations({e1, e2})
=============================================================================

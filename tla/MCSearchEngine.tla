--------------------------- MODULE MCSearchEngine ---------------------------
(* Values of the constants of SearchEngine for TLC. *)
EXTENDS SearchEngine

MCDraw == [k \in Nat |-> 1 + ((k * (k + 3) + (k \div 2)) % 5)]

MCAcquisition(told, p) == (3 * p + 2 * Len(told) + Last(told)[2]) % 7

MCUcb(reward, pulls, total) == (reward + 10 * total) \div pulls

\* A tournament of up to three takes everyone while a generation has no more.
MCContenders(n, draw) == 1..Min({3, n})

MCBreed(a, b, draw) == 1 + ((a + 2 * b + draw) % 5)

MCPatience == [k \in Kinds |-> 1]

MCMinDelta == [k \in Kinds |-> 1]

MCWeights == [quality |-> 6, compliance |-> 1, cost |-> 3]

MCBaseline == [quality |-> 7, safety |-> 9, compliance |-> 8, cost |-> 4, latency |-> 4, failures |-> 0]

MCGates == [minQuality |-> 6, minConfidence |-> 9, maxCost |-> 1, maxLatency |-> 2, significant |-> TRUE]

MCLimits == [minSafety |-> 8, maxViolation |-> 3]

\* Just inside the margins; better and cheaper, but against the policy.
MCMeasurements ==
  {[MCBaseline EXCEPT !.quality = 8], [MCBaseline EXCEPT !.quality = 10, !.cost = 2, !.compliance = 6]}
=============================================================================

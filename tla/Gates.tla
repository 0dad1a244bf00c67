------------------------------- MODULE Gates -------------------------------
(***************************************************************************)
(* What a candidate must satisfy: hard safety limits, the metric gates,    *)
(* the promotion decision with its regression guard, the recommendation    *)
(* of a finished search and the rollback of a canary.  Pure decisions on   *)
(* aggregated metrics.                                                     *)
(*                                                                         *)
(* Fractions are integers in units of 1/Unit, so a relative limit of -30%  *)
(* is -30 for Unit = 100.  Metrics a domain does not report have their     *)
(* defaults: full compliance and a safety score of Unit, quality 0.        *)
(***************************************************************************)
EXTENDS Integers

CONSTANT Unit

ASSUME UnitAssumption == Unit \in Nat \ {0}

Metrics == [quality : Int, safety : Int, compliance : Int, cost : Int, latency : Int, failures : Int]

Limits == [minSafety : 0..Unit, maxViolation : 0..Unit]

GateConfigs == [minQuality : 0..Unit, minConfidence : 0..Unit, maxCost : Int, maxLatency : Int,
                significant : BOOLEAN]

Estimates == [safety : Int, violation : Int]

Comparisons == [conclusion : {"improvement", "regression", "inconclusive"}, confidence : 0..Unit]

AtLeastZero(x) == IF x > 0 THEN x ELSE 0

-----------------------------------------------------------------------------
(* Safety *)

\* Faulty: the margin is applied in the wrong direction.
LoosenedLimits(limits, margin) ==
  [minSafety |-> AtLeastZero(limits.minSafety - margin),
   maxViolation |-> IF limits.maxViolation + margin > Unit THEN Unit ELSE limits.maxViolation + margin]

\* SafetyConstraints.tightened: a margin stricter, within 0..Unit.
Tightened(limits, margin) ==
  [minSafety |-> IF limits.minSafety + margin > Unit THEN Unit ELSE limits.minSafety + margin,
   maxViolation |-> AtLeastZero(limits.maxViolation - margin)]

\* check_safety looks at the aggregate itself.
PointEstimate(m) == [safety |-> m.safety, violation |-> Unit - m.compliance]

\* A SafetyEstimate is a lower bound of the score and an upper bound of the violation rate,
\* the latter 0 for a domain that does not report compliance.
Safe(estimate, limits) ==
  estimate.safety >= limits.minSafety /\ estimate.violation <= limits.maxViolation

\* violation_magnitude.
SafetyExcess(estimate, limits) ==
  AtLeastZero(limits.minSafety - estimate.safety) + AtLeastZero(estimate.violation - limits.maxViolation)

-----------------------------------------------------------------------------
(* Metric gates *)

\* _fractional_increase in units, rounded up: exact when compared with a whole limit.
FractionalIncrease(old, new) ==
  IF old <= 0 THEN IF new <= 0 THEN 0 ELSE Unit
  ELSE - (((old - new) * Unit) \div old)

CostIncrease(baseline, m) == FractionalIncrease(baseline.cost, m.cost)

LatencyIncrease(baseline, m) == FractionalIncrease(baseline.latency, m.latency)

\* metric_gate_findings: the gates a candidate fails.
Findings(baseline, m, gates, limits, estimate) ==
  {g \in {"safety", "quality", "cost", "latency"} :
     \/ g = "safety" /\ ~ Safe(estimate, limits)
     \/ g = "quality" /\ m.quality < gates.minQuality
     \/ g = "cost" /\ CostIncrease(baseline, m) > gates.maxCost
     \/ g = "latency" /\ LatencyIncrease(baseline, m) > gates.maxLatency}

\* The sum of the findings' magnitudes.
Violation(baseline, m, gates, limits, estimate) ==
  SafetyExcess(estimate, limits)
  + AtLeastZero(gates.minQuality - m.quality)
  + AtLeastZero(CostIncrease(baseline, m) - gates.maxCost)
  + AtLeastZero(LatencyIncrease(baseline, m) - gates.maxLatency)

\* The copy of the gates a search uses.
SearchGates(gates, margin) ==
  [gates EXCEPT !.minQuality = IF @ + margin > Unit THEN Unit ELSE @ + margin]

-----------------------------------------------------------------------------
(* Decisions *)

\* compare: an interval of the relative difference, and its mean, against the least useful effect.
Conclusion(low, high, mean, minImprovement) ==
  IF low > 0 /\ mean >= minImprovement THEN "improvement"
  ELSE IF high < 0 /\ mean <= - minImprovement THEN "regression"
  ELSE "inconclusive"

\* _guard_limit: twice an allowance, but 0 for a required reduction.
GuardLimit(limit) == limit + (IF limit < 0 THEN - limit ELSE limit)

\* A quality gain at a disproportionate price.
Disproportionate(baseline, m, gates) ==
  /\ m.quality > baseline.quality
  /\ \/ CostIncrease(baseline, m) > GuardLimit(gates.maxCost)
     \/ LatencyIncrease(baseline, m) > GuardLimit(gates.maxLatency)

Convincing(comparison, gates) ==
  gates.significant => /\ comparison.conclusion = "improvement"
                       /\ comparison.confidence >= gates.minConfidence

\* evaluate_promotion.
Approved(baseline, m, comparison, gates, limits, estimate) ==
  /\ Findings(baseline, m, gates, limits, estimate) = {}
  /\ Convincing(comparison, gates)
  /\ ~ Disproportionate(baseline, m, gates)

\* ExperimentEngine._recommend.
Recommendation(baseline, m, comparison, gates, limits, estimate) ==
  IF ~ Safe(estimate, limits) THEN "unsafe"
  ELSE IF comparison.conclusion = "improvement"
       THEN IF Findings(baseline, m, gates, limits, estimate) # {} THEN "gate" ELSE "promote"
       ELSE IF comparison.conclusion = "regression" THEN "reject" ELSE "inconclusive"

\* simulate_canary: what takes a candidate out of live traffic.
RolledBack(baseline, m, limits, maxRegression, maxFailures) ==
  \/ ~ Safe(PointEstimate(m), limits)
  \/ baseline.quality - m.quality > maxRegression
  \/ m.failures > baseline.failures + maxFailures
=============================================================================

------------------------- MODULE SearchEngineProofs -------------------------
(***************************************************************************)
(* Proofs about SearchEngine and the modules it is composed of, for every  *)
(* strategy, search space, scale, limit and number of crashes and reruns.  *)
(***************************************************************************)
EXTENDS SearchEngine, FiniteSetTheorems, WellFoundedInduction, TLAPS

-----------------------------------------------------------------------------
(* Gates: what the decisions have to do with each other *)

Inputs(baseline, m, gates, limits, estimate) ==
  /\ baseline \in Metrics /\ m \in Metrics
  /\ gates \in GateConfigs /\ limits \in Limits /\ estimate \in Estimates

\* A shortfall is zero exactly when nothing falls short.
LEMMA AtLeastZeroFact ==
  ASSUME NEW x \in Int
  PROVE  AtLeastZero(x) \in Nat /\ (AtLeastZero(x) = 0 <=> x <= 0)
BY DEF AtLeastZero

\* _fractional_increase is a number whatever the baseline, zero included.
LEMMA IncreaseType ==
  ASSUME NEW old \in Int, NEW new \in Int
  PROVE  FractionalIncrease(old, new) \in Int
BY UnitAssumption DEF FractionalIncrease

\* So are the cost and latency increases the gates look at.
LEMMA IncreaseTypes ==
  ASSUME NEW baseline \in Metrics, NEW m \in Metrics
  PROVE  CostIncrease(baseline, m) \in Int /\ LatencyIncrease(baseline, m) \in Int
BY IncreaseType DEF CostIncrease, LatencyIncrease, Metrics

(* Rounding up loses nothing: a whole limit is exceeded exactly when the     *)
(* increase itself exceeds it (_fractional_increase divides, this compares). *)
THEOREM IncreaseIsExact ==
  ASSUME NEW old \in Int, old > 0, NEW new \in Int, NEW limit \in Int
  PROVE  FractionalIncrease(old, new) > limit <=> (new - old) * Unit > limit * old
PROOF
<1> DEFINE saved == (old - new) * Unit
           part == saved \div old
<1>1. saved \in Int /\ part \in Int
  BY UnitAssumption
<1>2. part * old <= saved /\ saved < (part + 1) * old
  BY <1>1
<1>3. part < - limit <=> saved < (- limit) * old
  <2>1. CASE part < - limit
    <3>1. part + 1 <= - limit
      BY <1>1, <2>1
    <3>2. (part + 1) * old <= (- limit) * old
      BY <1>1, <3>1
    <3> QED BY <1>1, <1>2, <2>1, <3>2
  <2>2. CASE part >= - limit
    <3>1. part * old >= (- limit) * old
      BY <1>1, <2>2
    <3> QED BY <1>1, <1>2, <2>2, <3>1
  <2> QED BY <1>1, <2>1, <2>2
<1>4. saved = - ((new - old) * Unit) /\ (- limit) * old = - (limit * old)
  BY UnitAssumption
<1> QED BY <1>1, <1>3, <1>4, UnitAssumption DEF FractionalIncrease

-----------------------------------------------------------------------------
(* The sum of magnitudes the search penalizes is zero exactly when no gate   *)
(* fails (engine.py takes a candidate with no violation for feasible).       *)
THEOREM NoViolationNoFinding ==
  ASSUME NEW baseline, NEW m, NEW gates, NEW limits, NEW estimate,
         Inputs(baseline, m, gates, limits, estimate)
  PROVE  Violation(baseline, m, gates, limits, estimate) = 0
           <=> Findings(baseline, m, gates, limits, estimate) = {}
PROOF
<1> DEFINE cost == CostIncrease(baseline, m) - gates.maxCost
           latency == LatencyIncrease(baseline, m) - gates.maxLatency
           quality == gates.minQuality - m.quality
           safety == limits.minSafety - estimate.safety
           harm == estimate.violation - limits.maxViolation
<1>1. /\ cost \in Int /\ latency \in Int /\ quality \in Int /\ safety \in Int /\ harm \in Int
      /\ CostIncrease(baseline, m) \in Int /\ LatencyIncrease(baseline, m) \in Int
      /\ gates.maxCost \in Int /\ gates.maxLatency \in Int /\ gates.minQuality \in Int
      /\ m.quality \in Int /\ limits.minSafety \in Int /\ limits.maxViolation \in Int
      /\ estimate.safety \in Int /\ estimate.violation \in Int
  BY IncreaseTypes, UnitAssumption DEF Inputs, Metrics, GateConfigs, Limits, Estimates
<1>2. Violation(baseline, m, gates, limits, estimate) = 0
        <=> safety <= 0 /\ harm <= 0 /\ quality <= 0 /\ cost <= 0 /\ latency <= 0
  <2>1. /\ AtLeastZero(cost) \in Nat /\ (AtLeastZero(cost) = 0 <=> cost <= 0)
        /\ AtLeastZero(latency) \in Nat /\ (AtLeastZero(latency) = 0 <=> latency <= 0)
        /\ AtLeastZero(quality) \in Nat /\ (AtLeastZero(quality) = 0 <=> quality <= 0)
        /\ AtLeastZero(safety) \in Nat /\ (AtLeastZero(safety) = 0 <=> safety <= 0)
        /\ AtLeastZero(harm) \in Nat /\ (AtLeastZero(harm) = 0 <=> harm <= 0)
    BY <1>1, AtLeastZeroFact
  <2>2. Violation(baseline, m, gates, limits, estimate)
          = AtLeastZero(safety) + AtLeastZero(harm) + AtLeastZero(quality)
            + AtLeastZero(cost) + AtLeastZero(latency)
    BY DEF Violation, SafetyExcess
  <2> HIDE DEF cost, latency, quality, safety, harm
  <2> QED BY <2>1, <2>2
<1>3. Safe(estimate, limits) <=> safety <= 0 /\ harm <= 0
  BY <1>1 DEF Safe
<1>4. Findings(baseline, m, gates, limits, estimate) = {}
        <=> /\ Safe(estimate, limits)
            /\ ~ (m.quality < gates.minQuality)
            /\ ~ (CostIncrease(baseline, m) > gates.maxCost)
            /\ ~ (LatencyIncrease(baseline, m) > gates.maxLatency)
  BY DEF Findings
<1>5. /\ ~ (m.quality < gates.minQuality) <=> quality <= 0
      /\ ~ (CostIncrease(baseline, m) > gates.maxCost) <=> cost <= 0
      /\ ~ (LatencyIncrease(baseline, m) > gates.maxLatency) <=> latency <= 0
  BY <1>1
<1> QED BY <1>2, <1>3, <1>4, <1>5

(* safety.py: limits a margin tighter are never easier to meet.             *)
LEMMA TightenedIsStricter ==
  ASSUME NEW limits \in Limits, NEW margin \in Nat, NEW estimate \in Estimates,
         Safe(estimate, Tightened(limits, margin))
  PROVE  Safe(estimate, limits)
BY UnitAssumption DEF Safe, Tightened, AtLeastZero, Limits, Estimates

(* A candidate the search calls feasible, under gates and safety limits made *)
(* stricter by the two margins (engine.py:286-293), fails none of the gates  *)
(* the same metrics are later held to, whatever the margins.                 *)
THEOREM FeasiblePassesGates ==
  ASSUME NEW baseline, NEW m, NEW gates, NEW limits, NEW estimate,
         NEW quality \in Nat, NEW safety \in Nat,
         Inputs(baseline, m, gates, limits, estimate),
         Violation(baseline, m, SearchGates(gates, quality), Tightened(limits, safety), estimate) = 0
  PROVE  Findings(baseline, m, gates, limits, estimate) = {}
PROOF
<1>1. /\ SearchGates(gates, quality) \in GateConfigs
      /\ SearchGates(gates, quality).minQuality >= gates.minQuality
      /\ SearchGates(gates, quality).maxCost = gates.maxCost
      /\ SearchGates(gates, quality).maxLatency = gates.maxLatency
  BY UnitAssumption DEF Inputs, SearchGates, GateConfigs
<1>2. Tightened(limits, safety) \in Limits
  BY UnitAssumption DEF Inputs, Tightened, AtLeastZero, Limits
<1>3. Inputs(baseline, m, SearchGates(gates, quality), Tightened(limits, safety), estimate)
  BY <1>1, <1>2 DEF Inputs
<1>4. Findings(baseline, m, SearchGates(gates, quality), Tightened(limits, safety), estimate) = {}
  BY <1>3, NoViolationNoFinding
<1>5. Safe(estimate, limits)
  BY <1>4, TightenedIsStricter DEF Findings, Inputs
<1>6. /\ ~ (m.quality < gates.minQuality)
      /\ ~ (CostIncrease(baseline, m) > gates.maxCost)
      /\ ~ (LatencyIncrease(baseline, m) > gates.maxLatency)
  <2>1. /\ m.quality \in Int /\ gates.minQuality \in Int
        /\ SearchGates(gates, quality).minQuality \in Int
    BY <1>1, UnitAssumption DEF Inputs, Metrics, GateConfigs
  <2>2. /\ ~ (m.quality < SearchGates(gates, quality).minQuality)
        /\ ~ (CostIncrease(baseline, m) > SearchGates(gates, quality).maxCost)
        /\ ~ (LatencyIncrease(baseline, m) > SearchGates(gates, quality).maxLatency)
    BY <1>4 DEF Findings
  <2> QED BY <1>1, <2>1, <2>2
<1> QED BY <1>5, <1>6 DEF Findings

-----------------------------------------------------------------------------
\* _guard_limit is never below the gate it doubles.
LEMMA GuardIsWider ==
  ASSUME NEW limit \in Int
  PROVE  GuardLimit(limit) \in Int /\ GuardLimit(limit) >= limit
BY DEF GuardLimit

(* The regression guard (gates.py:148-155) refuses nothing of its own: a     *)
(* candidate that has passed the cost and latency gates is never beyond the  *)
(* guard's limits, whether an allowance or a required reduction.             *)
THEOREM GuardNeverDecides ==
  ASSUME NEW baseline, NEW m, NEW comparison, NEW gates, NEW limits, NEW estimate,
         Inputs(baseline, m, gates, limits, estimate)
  PROVE  Approved(baseline, m, comparison, gates, limits, estimate)
           <=> /\ Findings(baseline, m, gates, limits, estimate) = {}
               /\ Convincing(comparison, gates)
PROOF
<1>1. /\ CostIncrease(baseline, m) \in Int /\ LatencyIncrease(baseline, m) \in Int
      /\ gates.maxCost \in Int /\ gates.maxLatency \in Int
  BY IncreaseTypes DEF Inputs, GateConfigs
<1>2. Findings(baseline, m, gates, limits, estimate) = {}
        => ~ (CostIncrease(baseline, m) > gates.maxCost) /\ ~ (LatencyIncrease(baseline, m) > gates.maxLatency)
  BY DEF Findings
<1>3. Findings(baseline, m, gates, limits, estimate) = {} => ~ Disproportionate(baseline, m, gates)
  BY <1>1, <1>2, GuardIsWider DEF Disproportionate
<1> QED BY <1>3 DEF Approved

(* What a finished search recommends for promotion (engine.py:497-580) is    *)
(* approved on the same metrics when its comparison is confident enough, and *)
(* where significance is required nothing else is approved.                  *)
THEOREM RecommendationAgrees ==
  ASSUME NEW baseline, NEW m, NEW comparison, NEW gates, NEW limits, NEW estimate,
         Inputs(baseline, m, gates, limits, estimate), gates.significant
  PROVE  Approved(baseline, m, comparison, gates, limits, estimate)
           <=> /\ Recommendation(baseline, m, comparison, gates, limits, estimate) = "promote"
               /\ comparison.confidence >= gates.minConfidence
PROOF
<1>1. Findings(baseline, m, gates, limits, estimate) = {} => Safe(estimate, limits)
  BY DEF Findings
<1>2. Recommendation(baseline, m, comparison, gates, limits, estimate) = "promote"
        <=> /\ Safe(estimate, limits)
            /\ comparison.conclusion = "improvement"
            /\ Findings(baseline, m, gates, limits, estimate) = {}
  BY DEF Recommendation
<1>3. Convincing(comparison, gates)
        <=> comparison.conclusion = "improvement" /\ comparison.confidence >= gates.minConfidence
  BY DEF Convincing
<1> QED BY <1>1, <1>2, <1>3, GuardNeverDecides
-----------------------------------------------------------------------------
(* Lists *)

(* A nonempty set of naturals has a least element: the shortest counterexample. *)
LEMMA NatMin ==
  ASSUME NEW T \in SUBSET Nat, T # {}
  PROVE  \E m \in T : \A n \in T : m <= n
<1> DEFINE R == {ss \in Nat \X Nat : ss[1] < ss[2]}
<1>1. IsWellFoundedOn(R, Nat)
  BY NatLessThanWellFounded DEF OpToRel
<1>2. PICK m \in T : \A y \in T : ~(<<y, m>> \in R)
  <2> HIDE DEF R
  <2> QED BY <1>1, WFMin
<1>3. \A y \in T : ~(y < m)
  BY <1>2
<1> QED BY <1>3

\* A sequence of anything is a list.
LEMMA SeqIsList ==
  ASSUME NEW S, NEW s \in Seq(S)
  PROVE  IsList(s)
BY DEF IsList, ToSet

\* A list is what its positions hold.
LEMMA ListFacts ==
  ASSUME NEW s, IsList(s)
  PROVE  /\ Len(s) \in Nat /\ DOMAIN s = 1..Len(s)
         /\ s = [i \in 1..Len(s) |-> s[i]]
         /\ s = << >> <=> Len(s) = 0
BY DEF IsList

\* A function on the first numbers is a list.
LEMMA FunctionIsList ==
  ASSUME NEW n \in Nat, NEW s, s = [i \in 1..n |-> s[i]]
  PROVE  IsList(s) /\ Len(s) = n
<1> DEFINE S == {s[i] : i \in 1..n}
<1>1. \A i \in 1..n : s[i] \in S
  OBVIOUS
<1> HIDE DEF S
<1>2. s \in Seq(S) /\ Len(s) = n
  BY <1>1
<1> QED BY <1>2, SeqIsList

\* One more element.
LEMMA AppendList ==
  ASSUME NEW s, IsList(s), NEW e
  PROVE  /\ IsList(Append(s, e)) /\ Len(Append(s, e)) = Len(s) + 1
         /\ \A i \in 1..Len(s) : Append(s, e)[i] = s[i]
         /\ Append(s, e)[Len(s) + 1] = e
<1> DEFINE S == ToSet(s) \cup {e}
<1>1. s \in Seq(ToSet(s)) /\ e \in S
  BY DEF IsList
<1> HIDE DEF S
<1>2. s \in Seq(S)
  BY <1>1 DEF S
<1>3. /\ Append(s, e) \in Seq(S) /\ Len(Append(s, e)) = Len(s) + 1
      /\ \A i \in 1..Len(s) : Append(s, e)[i] = s[i]
      /\ Append(s, e)[Len(s) + 1] = e
  BY <1>1, <1>2
<1> QED BY <1>3, SeqIsList

\* One list after another.
LEMMA ConcatList ==
  ASSUME NEW s, IsList(s), NEW t, IsList(t)
  PROVE  /\ IsList(s \o t) /\ Len(s \o t) = Len(s) + Len(t)
         /\ \A i \in 1..(Len(s) + Len(t)) : (s \o t)[i] = IF i <= Len(s) THEN s[i] ELSE t[i - Len(s)]
<1> DEFINE S == ToSet(s) \cup ToSet(t)
<1>1. s \in Seq(ToSet(s)) /\ t \in Seq(ToSet(t))
  BY DEF IsList
<1>2. s \in Seq(S) /\ t \in Seq(S)
  BY <1>1
<1> HIDE DEF S
<1>3. /\ s \o t \in Seq(S) /\ Len(s \o t) = Len(s) + Len(t)
      /\ \A i \in 1..(Len(s) + Len(t)) : (s \o t)[i] = IF i <= Len(s) THEN s[i] ELSE t[i - Len(s)]
  BY <1>2
<1> QED BY <1>3, SeqIsList

\* The beginning of a list.
LEMMA BeginningOfList ==
  ASSUME NEW s, NEW n \in Int
  PROVE  /\ IsList(SubSeq(s, 1, n))
         /\ Len(SubSeq(s, 1, n)) = IF 1 <= n THEN n ELSE 0
<1> DEFINE S == {s[i] : i \in 1..n}
<1>1. \A i \in 1..n : s[i] \in S
  OBVIOUS
<1> HIDE DEF S
<1>2. SubSeq(s, 1, n) \in Seq(S) /\ Len(SubSeq(s, 1, n)) = IF 1 <= n THEN n ELSE 0
  BY <1>1
<1> QED BY <1>2, SeqIsList

-----------------------------------------------------------------------------
(* What the recursive definitions compute: the value for a longer list from  *)
(* that for a shorter one.                                                   *)

\* f is the loading of the first n lines.
IsReading(f, n, file) ==
  f = [k \in 0..n |-> IF k = 0 THEN << >> ELSE ReadLine(f[k - 1], file[k])]

(* There is one for every number of lines, by the least number that would have none. *)
LEMMA ReadingExists ==
  ASSUME NEW file, NEW len \in Nat
  PROVE  \E f : IsReading(f, len, file)
<1> DEFINE Bad == {n \in Nat : ~ \E f : IsReading(f, n, file)}
<1> SUFFICES ASSUME Bad # {} PROVE FALSE
  OBVIOUS
<1>1. PICK m \in Bad : \A n \in Bad : m <= n
  BY NatMin
<1>2. m # 0
  <2> DEFINE g == [k \in 0..0 |-> << >>]
  <2>1. IsReading(g, 0, file)
    BY DEF IsReading
  <2> QED BY <2>1
<1>3. PICK f : IsReading(f, m - 1, file)
  BY <1>1, <1>2
<1> DEFINE g == [k \in 0..m |-> IF k = m THEN ReadLine(f[m - 1], file[m]) ELSE f[k]]
<1>4. IsReading(g, m, file)
  <2>0. /\ m \in Nat /\ m # 0
        /\ f = [k \in 0..(m - 1) |-> IF k = 0 THEN << >> ELSE ReadLine(f[k - 1], file[k])]
    BY <1>1, <1>2, <1>3 DEF IsReading
  <2>1. ASSUME NEW k \in 0..m
        PROVE  g[k] = IF k = 0 THEN << >> ELSE ReadLine(g[k - 1], file[k])
    <3>1. CASE k = m
      <4>1. g[k - 1] = f[m - 1]
        BY <3>1, <2>0
      <4> QED BY <3>1, <4>1, <2>0
    <3>2. CASE k # m /\ k # 0
      <4>1. g[k - 1] = f[k - 1] /\ g[k] = f[k] /\ k \in 0..(m - 1)
        BY <3>2, <2>0
      <4>2. f[k] = ReadLine(f[k - 1], file[k])
        BY <4>1, <3>2, <2>0
      <4> QED BY <3>2, <4>1, <4>2
    <3>3. CASE k = 0
      BY <3>3, <2>0
    <3> QED BY <3>1, <3>2, <3>3
  <2> QED BY <2>1 DEF IsReading
<1> QED BY <1>1, <1>4

(* It does not depend on the lines that come later. *)
LEMMA ReadingPrefix ==
  \A n \in Nat : \A file, more, f, g :
     /\ \A k \in 1..n : file[k] = more[k]
     /\ IsReading(f, n, file)
     /\ IsReading(g, n + 1, more)
     => f[n] = g[n]
<1> TAKE n \in Nat
<1> TAKE file, more, f, g
<1> HAVE /\ \A k \in 1..n : file[k] = more[k]
         /\ IsReading(f, n, file)
         /\ IsReading(g, n + 1, more)
<1> DEFINE Bad == {k \in Nat : k <= n /\ f[k] # g[k]}
<1> SUFFICES ASSUME Bad # {} PROVE FALSE
  OBVIOUS
<1>1. PICK k \in Bad : \A j \in Bad : k <= j
  BY NatMin
<1>2. /\ f[k] = IF k = 0 THEN << >> ELSE ReadLine(f[k - 1], file[k])
      /\ g[k] = IF k = 0 THEN << >> ELSE ReadLine(g[k - 1], more[k])
  BY <1>1 DEF IsReading
<1>3. k # 0 => f[k - 1] = g[k - 1] /\ file[k] = more[k]
  BY <1>1
<1> QED BY <1>1, <1>2, <1>3

(* Reading is the loading of all lines. *)
LEMMA ReadingDefined ==
  ASSUME NEW file, Len(file) \in Nat
  PROVE  IsReading(Reading(file), Len(file), file)
<1>1. \E f : IsReading(f, Len(file), file)
  BY ReadingExists
<1> QED BY <1>1 DEF IsReading, Reading

(* No lines, and one more at the end. *)
LEMMA EventsInSteps ==
  ASSUME NEW file, IsList(file), NEW line
  PROVE  /\ EventsIn(<< >>) = << >>
         /\ EventsIn(Append(file, line)) = ReadLine(EventsIn(file), line)
<1> DEFINE more == Append(file, line)
           n == Len(file)
<1>1. /\ IsList(more) /\ n \in Nat /\ Len(more) = n + 1 /\ more[n + 1] = line
      /\ \A k \in 1..n : file[k] = more[k]
  BY AppendList, ListFacts
<1> HIDE DEF more
<1>2. IsReading(Reading(file), n, file) /\ IsReading(Reading(more), n + 1, more)
  BY <1>1, ReadingDefined
<1>3. Reading(file)[n] = Reading(more)[n]
  <2> DEFINE f == Reading(file)
             g == Reading(more)
  <2>1. IsReading(f, n, file) /\ IsReading(g, n + 1, more)
    BY <1>2
  <2>2. n + 1 \in Nat /\ n <= n + 1
    BY <1>1
  <2> HIDE DEF f, g, n
  <2>3. f[n] = g[n]
    BY <1>1, <2>1, <2>2, ReadingPrefix
  <2> QED BY <2>3 DEF f, g
<1>4. Reading(more)[n + 1] = ReadLine(Reading(more)[n], more[n + 1])
  BY <1>1, <1>2 DEF IsReading
<1>5. EventsIn(more) = ReadLine(EventsIn(file), line)
  BY <1>1, <1>3, <1>4 DEF EventsIn
<1>6. EventsIn(<< >>) = << >>
  <2>1. IsReading(Reading(<< >>), 0, << >>)
    BY ReadingDefined
  <2> QED BY <2>1 DEF IsReading, EventsIn
<1> QED BY <1>5, <1>6 DEF more

\* f is the course of a strategy of the first n generations.
IsCourse(f, n, kind, batches) ==
  f = [k \in 0..n |-> IF k = 0 THEN NewStrategy(kind) ELSE Continued(kind, f[k - 1], batches[k])]

(* There is one for every number of generations, by the least number that would have none. *)
LEMMA CourseExists ==
  ASSUME NEW kind, NEW batches, NEW len \in Nat
  PROVE  \E f : IsCourse(f, len, kind, batches)
<1> DEFINE Bad == {n \in Nat : ~ \E f : IsCourse(f, n, kind, batches)}
<1> SUFFICES ASSUME Bad # {} PROVE FALSE
  OBVIOUS
<1>1. PICK m \in Bad : \A n \in Bad : m <= n
  BY NatMin
<1>2. m # 0
  <2> DEFINE g == [k \in 0..0 |-> NewStrategy(kind)]
  <2>1. IsCourse(g, 0, kind, batches)
    BY DEF IsCourse
  <2> QED BY <2>1
<1>3. PICK f : IsCourse(f, m - 1, kind, batches)
  BY <1>1, <1>2
<1> DEFINE g == [k \in 0..m |-> IF k = m THEN Continued(kind, f[m - 1], batches[m]) ELSE f[k]]
<1>4. IsCourse(g, m, kind, batches)
  <2>0. /\ m \in Nat /\ m # 0
        /\ f = [k \in 0..(m - 1) |-> IF k = 0 THEN NewStrategy(kind) ELSE Continued(kind, f[k - 1], batches[k])]
    BY <1>1, <1>2, <1>3 DEF IsCourse
  <2>1. ASSUME NEW k \in 0..m
        PROVE  g[k] = IF k = 0 THEN NewStrategy(kind) ELSE Continued(kind, g[k - 1], batches[k])
    <3>1. CASE k = m
      <4>1. g[k - 1] = f[m - 1]
        BY <3>1, <2>0
      <4> QED BY <3>1, <4>1, <2>0
    <3>2. CASE k # m /\ k # 0
      <4>1. g[k - 1] = f[k - 1] /\ g[k] = f[k] /\ k \in 0..(m - 1)
        BY <3>2, <2>0
      <4>2. f[k] = Continued(kind, f[k - 1], batches[k])
        BY <4>1, <3>2, <2>0
      <4> QED BY <3>2, <4>1, <4>2
    <3>3. CASE k = 0
      BY <3>3, <2>0
    <3> QED BY <3>1, <3>2, <3>3
  <2> QED BY <2>1 DEF IsCourse
<1> QED BY <1>1, <1>4

(* It does not depend on the generations that come later. *)
LEMMA CoursePrefix ==
  ASSUME NEW kind, NEW batches, NEW more, NEW n \in Nat, NEW m \in Nat, n <= m,
         \A k \in 1..n : batches[k] = more[k],
         NEW f, IsCourse(f, n, kind, batches), NEW g, IsCourse(g, m, kind, more)
  PROVE  f[n] = g[n]
<1> DEFINE Bad == {k \in Nat : k <= n /\ f[k] # g[k]}
<1> SUFFICES ASSUME Bad # {} PROVE FALSE
  OBVIOUS
<1>1. PICK k \in Bad : \A j \in Bad : k <= j
  BY NatMin
<1>2. /\ f[k] = IF k = 0 THEN NewStrategy(kind) ELSE Continued(kind, f[k - 1], batches[k])
      /\ g[k] = IF k = 0 THEN NewStrategy(kind) ELSE Continued(kind, g[k - 1], more[k])
  BY <1>1 DEF IsCourse
<1>3. k # 0 => f[k - 1] = g[k - 1] /\ batches[k] = more[k]
  BY <1>1
<1> QED BY <1>1, <1>2, <1>3

(* Course is the course of a strategy of all generations. *)
LEMMA CourseDefined ==
  ASSUME NEW kind, NEW batches, Len(batches) \in Nat
  PROVE  IsCourse(Course(kind, batches), Len(batches), kind, batches)
<1>1. \E f : IsCourse(f, Len(batches), kind, batches)
  BY CourseExists
<1> QED BY <1>1 DEF IsCourse, Course

(* No generations, and one more at the end. *)
LEMMA StrategyAfterSteps ==
  ASSUME NEW kind, NEW batches, IsList(batches), NEW b
  PROVE  /\ StrategyAfter(kind, << >>) = NewStrategy(kind)
         /\ StrategyAfter(kind, Append(batches, b)) = Continued(kind, StrategyAfter(kind, batches), b)
<1> DEFINE more == Append(batches, b)
           n == Len(batches)
<1>1. /\ IsList(more) /\ n \in Nat /\ Len(more) = n + 1 /\ more[n + 1] = b
      /\ \A k \in 1..n : batches[k] = more[k]
  BY AppendList, ListFacts
<1> HIDE DEF more
<1>2. IsCourse(Course(kind, batches), n, kind, batches) /\ IsCourse(Course(kind, more), n + 1, kind, more)
  BY <1>1, CourseDefined
<1>3. Course(kind, batches)[n] = Course(kind, more)[n]
  BY <1>1, <1>2, CoursePrefix
<1>4. Course(kind, more)[n + 1] = Continued(kind, Course(kind, more)[n], more[n + 1])
  BY <1>1, <1>2 DEF IsCourse
<1>5. StrategyAfter(kind, more) = Continued(kind, StrategyAfter(kind, batches), b)
  BY <1>1, <1>3, <1>4 DEF StrategyAfter
<1>6. StrategyAfter(kind, << >>) = NewStrategy(kind)
  <2>1. IsCourse(Course(kind, << >>), 0, kind, << >>)
    BY CourseDefined
  <2> QED BY <2>1 DEF IsCourse, StrategyAfter
<1> QED BY <1>5, <1>6 DEF more

\* f is the listing of the first n generations.
IsListing(f, n, batches) ==
  f = [k \in 0..n |-> IF k = 0 THEN << >> ELSE Listed(f[k - 1], batches[k])]

(* There is one for every number of generations, by the least number that would have none. *)
LEMMA ListingExists ==
  ASSUME NEW batches, NEW len \in Nat
  PROVE  \E f : IsListing(f, len, batches)
<1> DEFINE Bad == {n \in Nat : ~ \E f : IsListing(f, n, batches)}
<1> SUFFICES ASSUME Bad # {} PROVE FALSE
  OBVIOUS
<1>1. PICK m \in Bad : \A n \in Bad : m <= n
  BY NatMin
<1>2. m # 0
  <2> DEFINE g == [k \in 0..0 |-> << >>]
  <2>1. IsListing(g, 0, batches)
    BY DEF IsListing
  <2> QED BY <2>1
<1>3. PICK f : IsListing(f, m - 1, batches)
  BY <1>1, <1>2
<1> DEFINE g == [k \in 0..m |-> IF k = m THEN Listed(f[m - 1], batches[m]) ELSE f[k]]
<1>4. IsListing(g, m, batches)
  <2>0. /\ m \in Nat /\ m # 0
        /\ f = [k \in 0..(m - 1) |-> IF k = 0 THEN << >> ELSE Listed(f[k - 1], batches[k])]
    BY <1>1, <1>2, <1>3 DEF IsListing
  <2>1. ASSUME NEW k \in 0..m
        PROVE  g[k] = IF k = 0 THEN << >> ELSE Listed(g[k - 1], batches[k])
    <3>1. CASE k = m
      <4>1. g[k - 1] = f[m - 1]
        BY <3>1, <2>0
      <4> QED BY <3>1, <4>1, <2>0
    <3>2. CASE k # m /\ k # 0
      <4>1. g[k - 1] = f[k - 1] /\ g[k] = f[k] /\ k \in 0..(m - 1)
        BY <3>2, <2>0
      <4>2. f[k] = Listed(f[k - 1], batches[k])
        BY <4>1, <3>2, <2>0
      <4> QED BY <3>2, <4>1, <4>2
    <3>3. CASE k = 0
      BY <3>3, <2>0
    <3> QED BY <3>1, <3>2, <3>3
  <2> QED BY <2>1 DEF IsListing
<1> QED BY <1>1, <1>4

(* It does not depend on the generations that come later. *)
LEMMA ListingPrefix ==
  \A n \in Nat : \A batches, more, f, g :
     /\ \A k \in 1..n : batches[k] = more[k]
     /\ IsListing(f, n, batches)
     /\ IsListing(g, n + 1, more)
     => f[n] = g[n]
<1> TAKE n \in Nat
<1> TAKE batches, more, f, g
<1> HAVE /\ \A k \in 1..n : batches[k] = more[k]
         /\ IsListing(f, n, batches)
         /\ IsListing(g, n + 1, more)
<1> DEFINE Bad == {k \in Nat : k <= n /\ f[k] # g[k]}
<1> SUFFICES ASSUME Bad # {} PROVE FALSE
  OBVIOUS
<1>1. PICK k \in Bad : \A j \in Bad : k <= j
  BY NatMin
<1>2. /\ f[k] = IF k = 0 THEN << >> ELSE Listed(f[k - 1], batches[k])
      /\ g[k] = IF k = 0 THEN << >> ELSE Listed(g[k - 1], more[k])
  BY <1>1 DEF IsListing
<1>3. k # 0 => f[k - 1] = g[k - 1] /\ batches[k] = more[k]
  BY <1>1
<1> QED BY <1>1, <1>2, <1>3

(* Listing is the listing of all generations. *)
LEMMA ListingDefined ==
  ASSUME NEW batches, Len(batches) \in Nat
  PROVE  IsListing(Listing(batches), Len(batches), batches)
<1>1. \E f : IsListing(f, Len(batches), batches)
  BY ListingExists
<1> QED BY <1>1 DEF IsListing, Listing

(* No generations, and one more at the end. *)
LEMMA RecordedSteps ==
  ASSUME NEW batches, IsList(batches), NEW b
  PROVE  /\ Recorded(<< >>) = << >>
         /\ Recorded(Append(batches, b)) = Listed(Recorded(batches), b)
<1> DEFINE more == Append(batches, b)
           n == Len(batches)
<1>1. /\ IsList(more) /\ n \in Nat /\ Len(more) = n + 1 /\ more[n + 1] = b
      /\ \A k \in 1..n : batches[k] = more[k]
  BY AppendList, ListFacts
<1> HIDE DEF more
<1>2. IsListing(Listing(batches), n, batches) /\ IsListing(Listing(more), n + 1, more)
  BY <1>1, ListingDefined
<1>3. Listing(batches)[n] = Listing(more)[n]
  <2> DEFINE f == Listing(batches)
             g == Listing(more)
  <2>1. IsListing(f, n, batches) /\ IsListing(g, n + 1, more)
    BY <1>2
  <2>2. n + 1 \in Nat /\ n <= n + 1
    BY <1>1
  <2> HIDE DEF f, g, n
  <2>3. f[n] = g[n]
    BY <1>1, <2>1, <2>2, ListingPrefix
  <2> QED BY <2>3 DEF f, g
<1>4. Listing(more)[n + 1] = Listed(Listing(more)[n], more[n + 1])
  BY <1>1, <1>2 DEF IsListing
<1>5. Recorded(more) = Listed(Recorded(batches), b)
  BY <1>1, <1>3, <1>4 DEF Recorded
<1>6. Recorded(<< >>) = << >>
  <2>1. IsListing(Listing(<< >>), 0, << >>)
    BY ListingDefined
  <2> QED BY <2>1 DEF IsListing, Recorded
<1> QED BY <1>5, <1>6 DEF more

-----------------------------------------------------------------------------
(* The event log *)

\* What the log is at any time: no writer is past its check of the end while the end is torn.
LogInv ==
  /\ IsList(lines) /\ IsList(emitted)
  /\ checked => tail = Empty
  /\ EventsSurvive

\* An event is no fragment.
LEMMA EventIsNoText ==
  ASSUME NEW type, NEW version, NEW point, NEW outcome
  PROVE  Event(type, version, point, outcome) \notin {Fragment, Empty}
<1> DEFINE e == Event(type, version, point, outcome)
<1>1. DOMAIN e = {"type", "version", "point", "outcome"} /\ DOMAIN Fragment = {"text"} /\ DOMAIN Empty = {"text"}
  BY DEF Event, Fragment, Empty
<1>2. "type" \in DOMAIN e /\ "type" \notin DOMAIN Fragment /\ "type" \notin DOMAIN Empty
  BY <1>1
<1> QED BY <1>2

\* An append finds what can be read in complete lines.
LEMMA EndIsTerminated ==
  ASSUME LogInv
  PROVE  EventsIn(LinesToAppendTo) = emitted /\ IsList(LinesToAppendTo)
<1>1. EventsIn(Append(lines, tail)) = emitted /\ IsList(lines)
  BY DEF LogInv, EventsSurvive, Readable
<1>2. CASE tail # Empty
  <2>1. ~ checked
    BY <1>2 DEF LogInv
  <2> QED BY <1>1, <1>2, <2>1, AppendList DEF LinesToAppendTo
<1>3. CASE tail = Empty
  <2>1. EventsIn(Append(lines, tail)) = EventsIn(lines)
    BY <1>1, <1>3, EventsInSteps DEF ReadLine
  <2> QED BY <1>1, <1>3, <2>1 DEF LinesToAppendTo
<1> QED BY <1>2, <1>3

\* A complete append: the events that were there, and the new one.
LEMMA EmitKeepsLog ==
  ASSUME LogInv, NEW e, e \notin {Fragment, Empty}, Emit(e)
  PROVE  LogInv'
<1>1. IsList(lines') /\ IsList(emitted') /\ checked' /\ tail' = Empty
  BY AppendList DEF LogInv, Emit, LinesToAppendTo
<1>2. EventsIn(LinesToAppendTo) = emitted /\ IsList(LinesToAppendTo)
  BY EndIsTerminated
<1>3. EventsIn(lines') = Append(emitted, e)
  BY <1>2, EventsInSteps DEF Emit, ReadLine
<1>4. EventsIn(Append(lines', tail')) = Append(emitted, e)
  BY <1>1, <1>3, EventsInSteps DEF ReadLine
<1> QED BY <1>1, <1>4 DEF LogInv, EventsSurvive, Readable, Emit

\* An append that was torn: the event is there as a whole, or not at all.
LEMMA TearKeepsLog ==
  ASSUME LogInv, NEW e, e \notin {Fragment, Empty}, TearEmit(e)
  PROVE  LogInv'
<1>1. IsList(emitted') /\ ~ checked'
  BY AppendList DEF LogInv, TearEmit
<1>2. EventsIn(LinesToAppendTo) = emitted /\ IsList(LinesToAppendTo)
  BY EndIsTerminated
<1>3. IsList(lines') /\ EventsIn(lines') = emitted
  BY <1>2 DEF TearEmit
<1>4. EventsIn(Append(lines', tail')) = ReadLine(emitted, tail')
  BY <1>3, EventsInSteps
<1>5. ReadLine(emitted, tail') = emitted'
  BY DEF TearEmit, ReadLine
<1> QED BY <1>1, <1>3, <1>4, <1>5 DEF LogInv, EventsSurvive, Readable

\* A process that opens the log, or dies without writing, forgets that it checked the end.
LEMMA OpenKeepsLog ==
  ASSUME LogInv, ~ checked', UNCHANGED <<lines, tail, emitted>>
  PROVE  LogInv'
BY DEF LogInv, EventsSurvive, Readable

LEMMA QuietKeepsLog ==
  ASSUME LogInv, UNCHANGED logVars
  PROVE  LogInv'
BY DEF LogInv, EventsSurvive, Readable, logVars

LEMMA InitLog ==
  ASSUME LogInit
  PROVE  LogInv
<1>1. IsList(<< >>)
  BY DEF IsList
<1>2. EventsIn(Append(<< >>, Empty)) = << >>
  BY <1>1, EventsInSteps DEF ReadLine
<1> QED BY <1>1, <1>2 DEF LogInit, LogInv, EventsSurvive, Readable

\* Whoever writes to the log appends an event.
LEMMA NextEventIsEvent ==
  ASSUME mem.phase \in {"opened", "generating", "evaluated", "completing", "stopped"}
  PROVE  NextEvent \notin {Fragment, Empty}
BY EventIsNoText DEF NextEvent, Milestone

\* No action of the search costs an event.
LEMMA NextKeepsLog ==
  ASSUME LogInv, [Next]_vars
  PROVE  LogInv'
<1>1. CASE Open
  BY <1>1, OpenKeepsLog DEF Open, OpenLog
<1>2. CASE ResumeWithMore
  BY <1>2, OpenKeepsLog DEF ResumeWithMore, OpenLog
<1>3. CASE BeginFresh
  BY <1>3, EmitKeepsLog, EventIsNoText DEF BeginFresh, Milestone
<1>4. CASE Resume \/ TakeCancel \/ ReachLimit \/ AskBatch \/ RunOut \/ Evaluate \/ SaveGeneration \/ Stop
            \/ RequestCancel
  BY <1>4, QuietKeepsLog
     DEF Resume, TakeCancel, ReachLimit, AskBatch, RunOut, Evaluate, SaveGeneration, Stop, RequestCancel
<1>5. CASE GenerateCandidate
  BY <1>5, EmitKeepsLog, NextEventIsEvent DEF GenerateCandidate
<1>6. CASE RecordCandidate
  BY <1>6, EmitKeepsLog, NextEventIsEvent DEF RecordCandidate
<1>7. CASE CompleteGeneration
  BY <1>7, EmitKeepsLog, NextEventIsEvent DEF CompleteGeneration
<1>8. CASE EmitStopped
  BY <1>8, EmitKeepsLog, NextEventIsEvent DEF EmitStopped
<1>9. CASE Crash
  BY <1>9, OpenKeepsLog, TearKeepsLog, NextEventIsEvent DEF Crash, Emitting
<1>10. CASE UNCHANGED vars
  BY <1>10, QuietKeepsLog DEF vars
<1> QED BY <1>1, <1>2, <1>3, <1>4, <1>5, <1>6, <1>7, <1>8, <1>9, <1>10 DEF Next

(* An event that was written completely is read by everyone from then on, in *)
(* its place, however often a process dies while it writes (events.py).      *)
THEOREM NoEventIsLost == Spec => []EventsSurvive
<1>1. Init => LogInv
  BY InitLog DEF Init
<1>2. LogInv /\ [Next]_vars => LogInv'
  BY NextKeepsLog
<1>3. LogInv => EventsSurvive
  BY DEF LogInv
<1> QED BY <1>1, <1>2, <1>3, PTL DEF Spec

-----------------------------------------------------------------------------
(* Strategies *)

\* What the ask side of a strategy can be relied on for.
StrategyOK(kind, s) ==
  /\ kind \in {"grid", "evolutionary", "bandit"} => s = [f \in DOMAIN Blank |-> s[f]]
  /\ kind = "grid" => s.cursor \in 0..GridSize
  /\ kind = "evolutionary" => IsList(s.pending)

LEMMA MinOfTwo ==
  ASSUME NEW a \in Int, NEW b \in Int
  PROVE  Min({a, b}) = IF a <= b THEN a ELSE b
BY DEF Min

LEMMA MaxOfTwo ==
  ASSUME NEW a \in Int, NEW b \in Int
  PROVE  Max({a, b}) = IF a >= b THEN a ELSE b
BY DEF Max

\* No more than n points of a list.
LEMMA TruncatedList ==
  ASSUME NEW points, IsList(points), NEW n \in Nat
  PROVE  IsList(Truncated(points, n)) /\ Len(Truncated(points, n)) <= n
<1>1. Len(points) \in Nat
  BY ListFacts
<1>2. Min({n, Len(points)}) \in Nat /\ Min({n, Len(points)}) <= n
  BY <1>1, MinOfTwo
<1> QED BY <1>2, BeginningOfList DEF Truncated

\* A sample has as many points as it was asked for.
LEMMA SampledList ==
  ASSUME NEW s, NEW n \in Nat
  PROVE  IsList(Sampled(s, n)) /\ Len(Sampled(s, n)) = n
BY FunctionIsList DEF Sampled

LEMMA RankedPoolList ==
  ASSUME NEW s
  PROVE  IsList(RankedPool(s))
<1> DEFINE pool == ToSet(Sampled(s, PoolSize))
<1>1. PoolSize \in Nat
  BY StrategyAssumption
<1>2. pool = {Sampled(s, PoolSize)[i] : i \in 1..PoolSize}
  BY <1>1, SampledList, ListFacts DEF ToSet
<1>3. IsFiniteSet(1..PoolSize)
  BY <1>1, FS_Interval
<1>4. IsFiniteSet(pool)
  <2>1. Sampled(s, PoolSize) \in [1..PoolSize -> pool]
    BY <1>2 DEF Sampled
  <2>2. Sampled(s, PoolSize) \in Surjection(1..PoolSize, pool)
    BY <1>2, <2>1 DEF Surjection
  <2> QED BY <1>3, <2>2, FS_Surjection
<1>5. Cardinality(pool) \in Nat
  BY <1>4, FS_CardinalityType
<1> QED BY <1>5, FunctionIsList DEF RankedPool

\* What ask returns is a list of no more points than it was asked for.
LEMMA AskList ==
  ASSUME NEW kind \in Kinds, NEW s, StrategyOK(kind, s), NEW n \in Nat
  PROVE  IsList(Ask(kind, s, n)) /\ Len(Ask(kind, s, n)) <= n
<1>1. CASE kind = "random"
  BY <1>1, SampledList DEF Ask
<1>2. CASE kind = "grid"
  <2> DEFINE k == Min({n, GridSize - s.cursor})
  <2>0. GridSize - s.cursor \in Nat
    BY <1>2, StrategyAssumption DEF StrategyOK
  <2>1. k \in Nat /\ k <= n
    BY <2>0, MinOfTwo
  <2>2. Ask(kind, s, n) = [i \in 1..k |-> s.cursor + i]
    BY <1>2 DEF Ask
  <2> QED BY <2>1, <2>2, FunctionIsList
<1>3. CASE kind = "evolutionary"
  BY <1>3, TruncatedList DEF Ask, StrategyOK
<1>4. CASE kind = "bayesian"
  <2>1. Ask(kind, s, n) = Sampled(s, n) \/ Ask(kind, s, n) = Truncated(RankedPool(s), n)
    BY <1>4 DEF Ask
  <2> QED BY <2>1, SampledList, RankedPoolList, TruncatedList
<1>5. CASE kind = "bandit"
  <2>1. Ask(kind, s, n) = [i \in 1..n |-> Arms[PullArms(s, n).reserved[i]]]
    BY <1>5 DEF Ask
  <2> QED BY <2>1, FunctionIsList
<1> QED BY <1>1, <1>2, <1>3, <1>4, <1>5 DEF Kinds

\* Asking for as many points as there were leaves the strategy as asking for more did.
LEMMA AskAgain ==
  ASSUME NEW kind \in Kinds, NEW s, StrategyOK(kind, s), NEW n \in Nat
  PROVE  AfterAsk(kind, s, Len(Ask(kind, s, n))) = AfterAsk(kind, s, n)
<1> DEFINE m == Len(Ask(kind, s, n))
<1>1. CASE kind \in {"random", "bandit"}
  <2>1. m = n
    <3>1. CASE kind = "random"
      BY <3>1, SampledList DEF Ask
    <3>2. CASE kind = "bandit"
      <4>1. Ask(kind, s, n) = [i \in 1..n |-> Arms[PullArms(s, n).reserved[i]]]
        BY <3>2 DEF Ask
      <4> QED BY <4>1, FunctionIsList
    <3> QED BY <1>1, <3>1, <3>2
  <2> QED BY <2>1
<1>2. CASE kind = "grid"
  <2>0. GridSize - s.cursor \in Nat
    BY <1>2, StrategyAssumption DEF StrategyOK
  <2>1. \A k \in Nat : Len(Ask(kind, s, k)) = Min({k, GridSize - s.cursor})
    <3> TAKE k \in Nat
    <3>1. Min({k, GridSize - s.cursor}) \in Nat
      BY <2>0, MinOfTwo
    <3>2. Ask(kind, s, k) = [i \in 1..Min({k, GridSize - s.cursor}) |-> s.cursor + i]
      BY <1>2 DEF Ask
    <3> QED BY <3>1, <3>2, FunctionIsList
  <2>2. m \in Nat /\ m = Min({n, GridSize - s.cursor})
    BY <2>0, <2>1, MinOfTwo
  <2>3. Min({m, GridSize - s.cursor}) = m
    BY <2>0, <2>2, MinOfTwo
  <2>4. Len(Ask(kind, s, m)) = m
    BY <2>1, <2>2, <2>3
  <2> QED BY <1>2, <2>4 DEF AfterAsk
<1>3. CASE kind = "evolutionary"
  BY <1>3 DEF AfterAsk
<1>4. CASE kind = "bayesian"
  <2>1. PoolDraws(s, m) = PoolDraws(s, n)
    <3>1. CASE Len(s.told) < InitialRandom
      BY <1>4, <3>1, SampledList DEF Ask
    <3>2. CASE ~ (Len(s.told) < InitialRandom)
      BY <3>2 DEF PoolDraws
    <3> QED BY <3>1, <3>2
  <2>2. \A k : AfterAsk(kind, s, k) = [s EXCEPT !.drawn = s.drawn + PoolDraws(s, k)]
    BY <1>4 DEF AfterAsk
  <2> QED BY <2>1, <2>2
<1> QED BY <1>1, <1>2, <1>3, <1>4 DEF Kinds

\* Replaying an ask is asking.
LEMMA ReplayIsAsk ==
  ASSUME NEW kind, NEW s, NEW n
  PROVE  Replay(kind, s, n) = AfterAsk(kind, s, n)
BY DEF Replay, AfterAsk

\* A strategy rebuilt from the generations of a checkpoint is the one that went through them.
LEMMA ResumeIsContinuation ==
  ASSUME NEW kind, NEW batches, IsList(batches)
  PROVE  Replayed(kind, batches) = StrategyAfter(kind, batches)
<1> DEFINE n == Len(batches)
           f == Rebuilding(kind, batches)
           g == Course(kind, batches)
<1>1. n \in Nat
  BY ListFacts
<1>2. IsCourse(g, n, kind, batches)
  BY <1>1, CourseDefined
<1>3. \A s, b : Resumed(kind, s, b) = Continued(kind, s, b)
  BY ReplayIsAsk DEF Resumed, Continued
<1>4. f = [k \in 0..n |-> IF k = 0 THEN NewStrategy(kind) ELSE Resumed(kind, f[k - 1], batches[k])]
  <2>1. g = [k \in 0..n |-> IF k = 0 THEN NewStrategy(kind) ELSE Resumed(kind, g[k - 1], batches[k])]
    BY <1>2, <1>3 DEF IsCourse
  <2> QED BY <2>1 DEF Rebuilding
<1>5. IsCourse(f, n, kind, batches)
  BY <1>3, <1>4 DEF IsCourse
<1> HIDE DEF n, f, g
<1>6. f[n] = g[n]
  BY <1>1, <1>2, <1>5, CoursePrefix
<1> QED BY <1>6 DEF f, g, n, Replayed, StrategyAfter

\* A function on the numbers from 1 to any number is a list.
LEMMA IntervalList ==
  ASSUME NEW n \in Int, NEW s, s = [i \in 1..n |-> s[i]]
  PROVE  IsList(s)
<1>1. CASE n \in Nat
  BY <1>1, FunctionIsList
<1>2. CASE n \notin Nat
  <2>1. 1..n = 1..0
    BY <1>2
  <2>2. s = [i \in 1..0 |-> s[i]]
    BY <2>1
  <2> QED BY <2>2, FunctionIsList
<1> QED BY <1>1, <1>2

\* f is what n pulls make of a strategy, one after the other.
IsPulling(f, n, s) ==
  f = [k \in 0..n |-> IF k = 0 THEN [s EXCEPT !.reserved = << >>] ELSE PullArm(f[k - 1])]

(* There is one for every number of pulls, by the least number that would have none. *)
LEMMA PullingExists ==
  ASSUME NEW s, NEW len \in Nat
  PROVE  \E f : IsPulling(f, len, s)
<1> DEFINE Bad == {n \in Nat : ~ \E f : IsPulling(f, n, s)}
           none == [s EXCEPT !.reserved = << >>]
<1> SUFFICES ASSUME Bad # {} PROVE FALSE
  OBVIOUS
<1>1. PICK m \in Bad : \A n \in Bad : m <= n
  BY NatMin
<1>2. m # 0
  <2> DEFINE g == [k \in 0..0 |-> none]
  <2>1. IsPulling(g, 0, s)
    BY DEF IsPulling
  <2> QED BY <2>1
<1>3. PICK f : IsPulling(f, m - 1, s)
  BY <1>1, <1>2
<1> DEFINE g == [k \in 0..m |-> IF k = m THEN PullArm(f[m - 1]) ELSE f[k]]
<1>4. IsPulling(g, m, s)
  <2>0. /\ m \in Nat /\ m # 0
        /\ f = [k \in 0..(m - 1) |-> IF k = 0 THEN none ELSE PullArm(f[k - 1])]
    BY <1>1, <1>2, <1>3 DEF IsPulling
  <2> HIDE DEF none
  <2>1. ASSUME NEW k \in 0..m
        PROVE  g[k] = IF k = 0 THEN none ELSE PullArm(g[k - 1])
    <3>1. CASE k = m
      <4>1. g[k - 1] = f[m - 1]
        BY <3>1, <2>0
      <4> QED BY <3>1, <4>1, <2>0
    <3>2. CASE k # m /\ k # 0
      <4>1. g[k - 1] = f[k - 1] /\ g[k] = f[k] /\ k \in 0..(m - 1)
        BY <3>2, <2>0
      <4>2. f[k] = PullArm(f[k - 1])
        BY <4>1, <3>2, <2>0
      <4> QED BY <3>2, <4>1, <4>2
    <3>3. CASE k = 0
      BY <3>3, <2>0
    <3> QED BY <3>1, <3>2, <3>3
  <2> QED BY <2>1 DEF IsPulling, none
<1> QED BY <1>1, <1>4

LEMMA PullingDefined ==
  ASSUME NEW s, NEW n \in Nat
  PROVE  IsPulling(Pulling(s, n), n, s)
<1>1. \E f : IsPulling(f, n, s)
  BY PullingExists
<1> QED BY <1>1 DEF IsPulling, Pulling

(* More pulls begin like fewer. *)
LEMMA PullingPrefix ==
  ASSUME NEW s, NEW n \in Nat, NEW m \in Nat, n <= m,
         NEW f, IsPulling(f, n, s), NEW g, IsPulling(g, m, s), NEW i \in 0..n
  PROVE  f[i] = g[i]
<1> DEFINE Bad == {k \in Nat : k <= n /\ f[k] # g[k]}
           none == [s EXCEPT !.reserved = << >>]
<1> SUFFICES ASSUME Bad # {} PROVE FALSE
  OBVIOUS
<1>1. PICK k \in Bad : \A j \in Bad : k <= j
  BY NatMin
<1>2. /\ f = [j \in 0..n |-> IF j = 0 THEN none ELSE PullArm(f[j - 1])]
      /\ g = [j \in 0..m |-> IF j = 0 THEN none ELSE PullArm(g[j - 1])]
  BY DEF IsPulling
<1> HIDE DEF none
<1>3. /\ f[k] = IF k = 0 THEN none ELSE PullArm(f[k - 1])
      /\ g[k] = IF k = 0 THEN none ELSE PullArm(g[k - 1])
  BY <1>1, <1>2
<1>4. k # 0 => f[k - 1] = g[k - 1]
  BY <1>1
<1> QED BY <1>1, <1>3, <1>4

\* A pull reserves one arm more and leaves the strategy a strategy.
LEMMA PullArmFacts ==
  ASSUME NEW s, s = [f \in DOMAIN Blank |-> s[f]]
  PROVE  /\ PullArm(s) = [f \in DOMAIN Blank |-> PullArm(s)[f]]
         /\ \E arm : PullArm(s).reserved = Append(s.reserved, arm)
<1> DEFINE unplayed == {a \in DOMAIN s.pulls : s.pulls[a] = 0}
           arm == IF unplayed # {} THEN Picked(unplayed, Draw[s.drawn]) ELSE BestArm(s)
           pulls == [s.pulls EXCEPT ![arm] = s.pulls[arm] + 1]
           reserved == Append(s.reserved, arm)
           drawn == IF unplayed # {} THEN s.drawn + 1 ELSE s.drawn
<1>1. PullArm(s) = [s EXCEPT !.pulls = pulls, !.reserved = reserved, !.drawn = drawn]
  BY DEF PullArm
<1> DEFINE last == reserved
<1>2. last = Append(s.reserved, arm)
  OBVIOUS
<1>3. PullArm(s) = [s EXCEPT !.pulls = pulls, !.reserved = last, !.drawn = drawn]
  BY <1>1
<1> HIDE DEF last, arm, pulls, drawn
<1>4. PullArm(s) = [f \in DOMAIN Blank |-> PullArm(s)[f]] /\ PullArm(s).reserved = last
  BY <1>3 DEF Blank
<1> QED BY <1>2, <1>4

\* n pulls reserve n arms, each what the pulls up to it reserved last.
LEMMA PullingFacts ==
  ASSUME NEW s, s = [f \in DOMAIN Blank |-> s[f]], NEW n \in Nat, NEW f, IsPulling(f, n, s)
  PROVE  \A i \in 0..n :
           /\ f[i] = [x \in DOMAIN Blank |-> f[i][x]]
           /\ IsList(f[i].reserved) /\ Len(f[i].reserved) = i
           /\ \A k \in 1..i : f[i].reserved[k] = f[k].reserved[k]
<1> DEFINE Good(i) == /\ f[i] = [x \in DOMAIN Blank |-> f[i][x]]
                      /\ IsList(f[i].reserved) /\ Len(f[i].reserved) = i
                      /\ \A k \in 1..i : f[i].reserved[k] = f[k].reserved[k]
           Bad == {i \in Nat : i <= n /\ ~ Good(i)}
           none == [s EXCEPT !.reserved = << >>]
<1>1. Bad = {}
  <2> SUFFICES ASSUME Bad # {} PROVE FALSE
    OBVIOUS
  <2>1. PICK m \in Bad : \A j \in Bad : m <= j
    <3> HIDE DEF Good
    <3> QED BY NatMin
  <2>2. f = [j \in 0..n |-> IF j = 0 THEN none ELSE PullArm(f[j - 1])]
    BY DEF IsPulling
  <2>3. none = [x \in DOMAIN Blank |-> none[x]] /\ none.reserved = << >> /\ IsList(<< >>) /\ Len(<< >>) = 0
    BY DEF Blank, IsList
  <2> HIDE DEF none
  <2>4. m # 0
    <3> SUFFICES ASSUME m = 0 PROVE Good(0)
      BY <2>1
    <3>1. f[0] = none
      BY <2>2
    <3> QED BY <2>3, <3>1
  <2>5. m - 1 \in Nat /\ m \in 0..n /\ m - 1 \in 0..n /\ Good(m - 1)
    <3> HIDE DEF Good
    <3> QED BY <2>1, <2>4
  <2>6. f[m] = PullArm(f[m - 1])
    BY <2>2, <2>4, <2>5
  <2>7. /\ f[m] = [x \in DOMAIN Blank |-> f[m][x]]
        /\ \E arm : f[m].reserved = Append(f[m - 1].reserved, arm)
    <3> DEFINE t == f[m - 1]
    <3>1. t = [x \in DOMAIN Blank |-> t[x]]
      BY <2>5
    <3> HIDE DEF t
    <3>2. /\ PullArm(t) = [x \in DOMAIN Blank |-> PullArm(t)[x]]
          /\ \E arm : PullArm(t).reserved = Append(t.reserved, arm)
      BY <3>1, PullArmFacts
    <3>3. f[m] = PullArm(t)
      BY <2>6 DEF t
    <3> QED BY <3>2, <3>3 DEF t
  <2>8. PICK arm : f[m].reserved = Append(f[m - 1].reserved, arm)
    BY <2>7
  <2> DEFINE before == f[m - 1].reserved
             after == f[m].reserved
  <2>9. IsList(before) /\ Len(before) = m - 1 /\ \A k \in 1..(m - 1) : before[k] = f[k].reserved[k]
    BY <2>5
  <2>10. after = Append(before, arm)
    BY <2>8
  <2> HIDE DEF before
  <2>11. /\ IsList(after) /\ Len(after) = Len(before) + 1
         /\ \A k \in 1..Len(before) : after[k] = before[k]
    <3> HIDE DEF after
    <3> QED BY <2>9, <2>10, AppendList
  <2>12. Len(after) = m
    BY <2>5, <2>9, <2>11
  <2>13. \A k \in 1..m : after[k] = f[k].reserved[k]
    <3> TAKE k \in 1..m
    <3>1. CASE k = m
      BY <3>1
    <3>2. CASE k # m
      <4>1. k \in 1..(m - 1)
        BY <2>5, <3>2
      <4> QED BY <2>9, <2>11, <4>1
    <3> QED BY <3>1, <3>2
  <2>14. Good(m)
    BY <2>7, <2>11, <2>12, <2>13
  <2> QED BY <2>1, <2>14
<1> HIDE DEF Good
<1>2. \A i \in 0..n : Good(i)
  BY <1>1
<1> QED BY <1>2 DEF Good

LEMMA NewStrategyOK ==
  ASSUME NEW kind \in Kinds
  PROVE  StrategyOK(kind, NewStrategy(kind))
<1>1. CASE kind = "grid"
  <2>1. NewStrategy(kind) = Blank
    BY <1>1 DEF NewStrategy
  <2> QED BY <1>1, <2>1, StrategyAssumption DEF StrategyOK, Blank
<1>2. CASE kind = "evolutionary"
  <2> DEFINE sample == Sampled(Blank, BatchSize)
  <2>1. IsList(sample)
    BY SampledList, StrategyAssumption
  <2> HIDE DEF sample
  <2>2. NewStrategy(kind) = [Blank EXCEPT !.pending = sample, !.drawn = BatchSize]
    BY <1>2 DEF NewStrategy, sample
  <2> QED BY <1>2, <2>1, <2>2 DEF StrategyOK, Blank
<1>3. CASE kind = "bandit"
  <2> DEFINE pulls == [a \in DOMAIN Arms |-> 0]
  <2>1. NewStrategy(kind) = [Blank EXCEPT !.drawn = ArmSamples, !.pulls = pulls, !.rewards = pulls]
    BY <1>3 DEF NewStrategy
  <2> HIDE DEF pulls
  <2> QED BY <1>3, <2>1 DEF StrategyOK, Blank
<1> QED BY <1>1, <1>2, <1>3 DEF StrategyOK

LEMMA AskKeepsStrategy ==
  ASSUME NEW kind \in Kinds, NEW s, StrategyOK(kind, s), NEW n \in Nat
  PROVE  StrategyOK(kind, AfterAsk(kind, s, n))
<1>1. CASE kind = "grid"
  <2> DEFINE k == Len(Ask(kind, s, n))
  <2>0. GridSize - s.cursor \in Nat
    BY <1>1, StrategyAssumption DEF StrategyOK
  <2>1. k = Min({n, GridSize - s.cursor})
    <3>1. Min({n, GridSize - s.cursor}) \in Nat
      BY <2>0, MinOfTwo
    <3>2. Ask(kind, s, n) = [i \in 1..Min({n, GridSize - s.cursor}) |-> s.cursor + i]
      BY <1>1 DEF Ask
    <3> QED BY <3>1, <3>2, FunctionIsList
  <2>2. k \in Nat /\ k <= GridSize - s.cursor
    BY <2>0, <2>1, MinOfTwo
  <2>3. AfterAsk(kind, s, n) = [s EXCEPT !.cursor = s.cursor + k]
    BY <1>1 DEF AfterAsk
  <2> HIDE DEF k
  <2> QED BY <1>1, <2>2, <2>3, StrategyAssumption DEF StrategyOK, Blank
<1>2. CASE kind = "evolutionary"
  BY <1>2 DEF AfterAsk
<1>3. CASE kind = "bandit"
  <2>1. s = [f \in DOMAIN Blank |-> s[f]]
    BY <1>3 DEF StrategyOK
  <2>2. IsPulling(Pulling(s, n), n, s) /\ n \in 0..n
    BY PullingDefined
  <2>3. Pulling(s, n)[n] = [f \in DOMAIN Blank |-> Pulling(s, n)[n][f]]
    BY <2>1, <2>2, PullingFacts
  <2>4. AfterAsk(kind, s, n) = Pulling(s, n)[n]
    BY <1>3 DEF AfterAsk, PullArms
  <2> QED BY <1>3, <2>3, <2>4 DEF StrategyOK
<1> QED BY <1>1, <1>2, <1>3 DEF StrategyOK

LEMMA TellKeepsStrategy ==
  ASSUME NEW kind \in Kinds, NEW s, StrategyOK(kind, s), NEW points, NEW fitness \in Seq(Nat)
  PROVE  StrategyOK(kind, Tell(kind, s, points, fitness))
<1> DEFINE noted == Noted(kind, s, fitness)
<1>1. CASE kind = "grid"
  <2>1. Tell(kind, s, points, fitness) = noted
    BY <1>1 DEF Tell
  <2>2. noted = [s EXCEPT !.best = s.best \o fitness]
    BY <1>1 DEF Noted
  <2> HIDE DEF noted
  <2> QED BY <1>1, <2>1, <2>2 DEF StrategyOK, Blank
<1>2. CASE kind = "evolutionary"
  <2> DEFINE ranked == [r \in DOMAIN fitness |-> points[Ranks(fitness)[r]]]
             elite == SubSeq(ranked, 1, Max({1, Len(ranked) \div 5}))
             Winner(draw) == ranked[Min(Contenders(Len(ranked), draw))]
             Child(i) == LET d == noted.drawn + 3 * (i - 1)
                         IN Breed(Winner(Draw[d]), Winner(Draw[d + 1]), Draw[d + 2])
             children == BatchSize - Len(elite)
             born == [i \in 1..children |-> Child(i)]
             drawn == noted.drawn + 3 * children
  <2>1. Tell(kind, s, points, fitness) = [noted EXCEPT !.pending = elite \o born, !.drawn = drawn]
    BY <1>2 DEF Tell, NextPopulation
  <2>2. Len(ranked) \in Nat
    <3>1. Len(fitness) \in Nat /\ DOMAIN fitness = 1..Len(fitness)
      OBVIOUS
    <3> QED BY <3>1, FunctionIsList
  <2>3. Max({1, Len(ranked) \div 5}) \in Int
    BY <2>2, MaxOfTwo
  <2>4. IsList(elite) /\ Len(elite) \in Int
    <3> HIDE DEF ranked
    <3> QED BY <2>3, BeginningOfList, ListFacts
  <2>5. children \in Int
    <3> HIDE DEF elite
    <3> QED BY <2>4, StrategyAssumption
  <2>6. IsList(born)
    <3> HIDE DEF children
    <3> QED BY <2>5, IntervalList
  <2>7. IsList(elite \o born)
    <3> HIDE DEF elite, born
    <3> QED BY <2>4, <2>6, ConcatList
  <2> DEFINE population == elite \o born
  <2>8. IsList(population) /\ Tell(kind, s, points, fitness) = [noted EXCEPT !.pending = population, !.drawn = drawn]
    BY <2>1, <2>7
  <2> HIDE DEF population, drawn
  <2>9. noted = [s EXCEPT !.best = Append(s.best, Max(ToSet(fitness)))]
    BY <1>2 DEF Noted
  <2> HIDE DEF noted
  <2>10. noted = [f \in DOMAIN Blank |-> noted[f]]
    <3> DEFINE note == Append(s.best, Max(ToSet(fitness)))
    <3>1. noted = [s EXCEPT !.best = note]
      BY <2>9
    <3> HIDE DEF note
    <3> QED BY <1>2, <3>1 DEF StrategyOK
  <2> QED BY <1>2, <2>8, <2>10 DEF StrategyOK, Blank
<1>3. CASE kind = "bandit"
  <2> DEFINE best == Append(s.best, Max(ToSet(fitness)))
             rewards == Rewarded(noted, fitness).rewards
             total == Rewarded(noted, fitness).total
  <2>1. Tell(kind, s, points, fitness) = Rewarded(noted, fitness)
    BY <1>3 DEF Tell
  <2>2. noted = [s EXCEPT !.best = best]
    BY <1>3 DEF Noted
  <2>3. s = [f \in DOMAIN Blank |-> s[f]]
    BY <1>3 DEF StrategyOK
  <2> HIDE DEF best, noted
  <2>4. noted = [f \in DOMAIN Blank |-> noted[f]]
    BY <2>2, <2>3 DEF Blank
  <2>5. \E r, t : Rewarded(noted, fitness) = [noted EXCEPT !.rewards = r, !.total = t]
    BY DEF Rewarded
  <2>6. Rewarded(noted, fitness) = [f \in DOMAIN Blank |-> Rewarded(noted, fitness)[f]]
    BY <2>4, <2>5 DEF Blank
  <2> QED BY <1>3, <2>1, <2>6 DEF StrategyOK
<1> QED BY <1>1, <1>2, <1>3 DEF StrategyOK

LEMMA SampledPrefix ==
  ASSUME NEW s, NEW n \in Nat, NEW m \in Nat, n <= m
  PROVE  /\ Len(Sampled(s, n)) = n /\ Len(Sampled(s, m)) = m
         /\ \A i \in 1..n : Sampled(s, n)[i] = Sampled(s, m)[i]
<1>1. Len(Sampled(s, n)) = n /\ Len(Sampled(s, m)) = m
  BY SampledList
<1>2. \A i \in 1..n : i \in 1..m
  OBVIOUS
<1> QED BY <1>1, <1>2 DEF Sampled

LEMMA TruncatedPrefix ==
  ASSUME NEW points, IsList(points), NEW n \in Nat, NEW m \in Nat, n <= m
  PROVE  LET short == Truncated(points, n)
             long == Truncated(points, m)
         IN /\ Len(short) \in Nat /\ Len(long) \in Nat /\ Len(short) <= Len(long)
            /\ Len(short) = n \/ Len(short) = Len(long)
            /\ \A i \in 1..Len(short) : short[i] = long[i]
<1> DEFINE l == Len(points)
           a == Min({n, l})
           b == Min({m, l})
<1>1. l \in Nat
  BY ListFacts
<1>2. a \in Nat /\ b \in Nat /\ a <= b /\ (a = n \/ a = b)
  BY <1>1, MinOfTwo
<1>3. Truncated(points, n) = SubSeq(points, 1, a) /\ Truncated(points, m) = SubSeq(points, 1, b)
  BY DEF Truncated
<1> HIDE DEF l, a, b
<1>4. Len(SubSeq(points, 1, a)) = a /\ Len(SubSeq(points, 1, b)) = b
  BY <1>2, BeginningOfList
<1>5. \A i \in 1..a : SubSeq(points, 1, a)[i] = points[i] /\ SubSeq(points, 1, b)[i] = points[i]
  <2> TAKE i \in 1..a
  <2>1. i \in 1..b
    BY <1>2
  <2> QED BY <1>2, <2>1
<1> QED BY <1>2, <1>3, <1>4, <1>5

\* The arm of a pull stays reserved.
LEMMA ReservedOnce ==
  ASSUME NEW s, s = [f \in DOMAIN Blank |-> s[f]], NEW n \in Nat, NEW f, IsPulling(f, n, s),
         NEW i \in 1..n
  PROVE  f[n].reserved[i] = f[i].reserved[i]
<1>1. \A j \in 0..n :
        /\ f[j] = [x \in DOMAIN Blank |-> f[j][x]]
        /\ IsList(f[j].reserved) /\ Len(f[j].reserved) = j
        /\ \A k \in 1..j : f[j].reserved[k] = f[k].reserved[k]
  BY PullingFacts
<1>2. n \in 0..n
  OBVIOUS
<1>3. \A k \in 1..n : f[n].reserved[k] = f[k].reserved[k]
  BY <1>1, <1>2
<1> QED BY <1>3

\* Asking for fewer points gives the first of what asking for more gives.
LEMMA AskPrefix ==
  ASSUME NEW kind \in Kinds, NEW s, StrategyOK(kind, s), NEW n \in Nat, NEW m \in Nat, n <= m
  PROVE  /\ Len(Ask(kind, s, n)) \in Nat /\ Len(Ask(kind, s, m)) \in Nat
         /\ Len(Ask(kind, s, n)) <= Len(Ask(kind, s, m))
         /\ Len(Ask(kind, s, n)) = n \/ Len(Ask(kind, s, n)) = Len(Ask(kind, s, m))
         /\ \A i \in 1..Len(Ask(kind, s, n)) : Ask(kind, s, n)[i] = Ask(kind, s, m)[i]
<1>1. CASE kind = "random"
  BY <1>1, SampledPrefix DEF Ask
<1>2. CASE kind = "grid"
  <2> DEFINE left == GridSize - s.cursor
  <2>1. left \in Nat
    BY <1>2, StrategyAssumption DEF StrategyOK
  <2>2. \A k \in Nat : Ask(kind, s, k) = [i \in 1..Min({k, left}) |-> s.cursor + i]
    BY <1>2 DEF Ask
  <2> HIDE DEF left
  <2>3. Min({n, left}) \in Nat /\ Min({m, left}) \in Nat /\ Min({n, left}) <= Min({m, left})
        /\ (Min({n, left}) = n \/ Min({n, left}) = Min({m, left}))
    BY <2>1, MinOfTwo
  <2>4. Len(Ask(kind, s, n)) = Min({n, left}) /\ Len(Ask(kind, s, m)) = Min({m, left})
    BY <2>2, <2>3, FunctionIsList
  <2>5. \A i \in 1..Min({n, left}) : Ask(kind, s, n)[i] = Ask(kind, s, m)[i]
    <3> TAKE i \in 1..Min({n, left})
    <3>1. i \in 1..Min({m, left})
      BY <2>3
    <3> QED BY <2>2, <3>1
  <2> QED BY <2>3, <2>4, <2>5
<1>3. CASE kind = "evolutionary"
  BY <1>3, TruncatedPrefix DEF Ask, StrategyOK
<1>4. CASE kind = "bayesian"
  <2>1. CASE Len(s.told) < InitialRandom
    BY <1>4, <2>1, SampledPrefix DEF Ask
  <2>2. CASE ~ (Len(s.told) < InitialRandom)
    <3>1. \A k : Ask(kind, s, k) = Truncated(RankedPool(s), k)
      BY <1>4, <2>2 DEF Ask
    <3> QED BY <3>1, RankedPoolList, TruncatedPrefix
  <2> QED BY <2>1, <2>2
<1>5. CASE kind = "bandit"
  <2>1. s = [f \in DOMAIN Blank |-> s[f]]
    BY <1>5 DEF StrategyOK
  <2>2. \A k \in Nat : Ask(kind, s, k) = [i \in 1..k |-> Arms[Pulling(s, k)[k].reserved[i]]]
    BY <1>5 DEF Ask, PullArms
  <2>3. IsPulling(Pulling(s, n), n, s) /\ IsPulling(Pulling(s, m), m, s)
    BY PullingDefined
  <2>4. ASSUME NEW i \in 1..n
        PROVE  Pulling(s, n)[n].reserved[i] = Pulling(s, m)[m].reserved[i]
    <3>1. n \in 0..n /\ m \in 0..m /\ i \in 0..n /\ i \in 1..m
      OBVIOUS
    <3> DEFINE short == Pulling(s, n)
               long == Pulling(s, m)
    <3>0. IsPulling(short, n, s) /\ IsPulling(long, m, s)
      BY <2>3
    <3> HIDE DEF short, long
    <3>2. short[n].reserved[i] = short[i].reserved[i] /\ long[m].reserved[i] = long[i].reserved[i]
      BY <2>1, <3>0, <3>1, ReservedOnce
    <3>4. short[i] = long[i]
      BY <3>0, <3>1, PullingPrefix
    <3> QED BY <3>2, <3>4 DEF short, long
  <2>5. Len(Ask(kind, s, n)) = n /\ Len(Ask(kind, s, m)) = m
    BY <2>2, FunctionIsList
  <2>6. \A i \in 1..n : Ask(kind, s, n)[i] = Ask(kind, s, m)[i]
    <3> TAKE i \in 1..n
    <3>1. i \in 1..m
      OBVIOUS
    <3>2. /\ Ask(kind, s, n)[i] = Arms[Pulling(s, n)[n].reserved[i]]
          /\ Ask(kind, s, m)[i] = Arms[Pulling(s, m)[m].reserved[i]]
      BY <2>2, <3>1
    <3> QED BY <2>4, <3>2
  <2> QED BY <2>5, <2>6
<1> QED BY <1>1, <1>2, <1>3, <1>4, <1>5 DEF Kinds

-----------------------------------------------------------------------------
(* Outcomes *)

\* The numbers of a configuration.
LEMMA ConstantTypes ==
  /\ BatchSize \in Nat /\ BatchSize # 0
  /\ FirstVersion \in Nat /\ FirstVersion # 0
  /\ Challenges \in Nat /\ Challenges # 0
  /\ ExtraCandidates \in Nat /\ MaxRequests \in Nat /\ MaxCost \in Nat /\ MaxMinutes \in Nat
  /\ MaxCrashes \in Nat /\ MaxReruns \in Nat
<1>1. BatchSize \in Nat \ {0}
  BY StrategyAssumption
<1>2. FirstVersion \in Nat \ {0} /\ Challenges \in Nat \ {0} /\ ExtraCandidates \in Nat \ {0}
  BY EngineAssumption
<1>3. MaxRequests \in Nat /\ MaxCost \in Nat /\ MaxMinutes \in Nat /\ MaxCrashes \in Nat /\ MaxReruns \in Nat
  BY EngineAssumption
<1> QED BY <1>1, <1>2, <1>3

LEMMA OutcomeType ==
  ASSUME NEW o \in Outcomes
  PROVE  o.timedOut \in BOOLEAN /\ o.metrics \in Metrics /\ o.metrics.cost \in Nat
<1>1. CASE o = TimedOut
  BY <1>1, EngineAssumption, UnitAssumption DEF TimedOut, Metrics
<1>2. CASE o # TimedOut
  <2>1. PICK m \in Measurements : o = [timedOut |-> FALSE, metrics |-> m]
    BY <1>2 DEF Outcomes
  <2> QED BY <2>1, EngineAssumption
<1> QED BY <1>1, <1>2

\* The constraints of the search apply to what an evaluation measures.
LEMMA SearchInputs ==
  ASSUME NEW o \in Outcomes
  PROVE  /\ Inputs(Baseline, o.metrics, GateConfig, SafetyLimits, PointEstimate(o.metrics))
         /\ Inputs(Baseline, o.metrics, SearchGates(GateConfig, QualityMargin),
                   Tightened(SafetyLimits, SafetyMargin), PointEstimate(o.metrics))
<1>1. o.metrics \in Metrics
  BY OutcomeType
<1>2. Baseline \in Metrics /\ GateConfig \in GateConfigs /\ SafetyLimits \in Limits
      /\ QualityMargin \in Nat /\ SafetyMargin \in Nat
  BY EngineAssumption
<1>3. PointEstimate(o.metrics) \in Estimates
  BY <1>1, UnitAssumption DEF PointEstimate, Estimates, Metrics
<1>4. SearchGates(GateConfig, QualityMargin) \in GateConfigs
  BY <1>2, UnitAssumption DEF SearchGates, GateConfigs
<1>5. Tightened(SafetyLimits, SafetyMargin) \in Limits
  BY <1>2, UnitAssumption DEF Tightened, AtLeastZero, Limits
<1> QED BY <1>1, <1>2, <1>3, <1>4, <1>5 DEF Inputs

LEMMA ViolationType ==
  ASSUME NEW baseline, NEW m, NEW gates, NEW limits, NEW estimate,
         Inputs(baseline, m, gates, limits, estimate)
  PROVE  Violation(baseline, m, gates, limits, estimate) \in Nat
<1>1. /\ limits.minSafety - estimate.safety \in Int /\ estimate.violation - limits.maxViolation \in Int
      /\ gates.minQuality - m.quality \in Int
      /\ gates.maxCost \in Int /\ gates.maxLatency \in Int
  BY UnitAssumption DEF Inputs, Metrics, GateConfigs, Limits, Estimates
<1>2. CostIncrease(baseline, m) - gates.maxCost \in Int /\ LatencyIncrease(baseline, m) - gates.maxLatency \in Int
  BY <1>1, IncreaseTypes DEF Inputs
<1>3. /\ AtLeastZero(limits.minSafety - estimate.safety) \in Nat
      /\ AtLeastZero(estimate.violation - limits.maxViolation) \in Nat
      /\ AtLeastZero(gates.minQuality - m.quality) \in Nat
  BY <1>1, AtLeastZeroFact
<1>4. /\ AtLeastZero(CostIncrease(baseline, m) - gates.maxCost) \in Nat
      /\ AtLeastZero(LatencyIncrease(baseline, m) - gates.maxLatency) \in Nat
  BY <1>2, AtLeastZeroFact
<1> QED BY <1>3, <1>4 DEF Violation, SafetyExcess

LEMMA QuotientIsNatural ==
  ASSUME NEW a \in Nat, NEW b \in Nat, b # 0
  PROVE  a \div b \in Nat
OBVIOUS

LEMMA ProductIsNatural ==
  ASSUME NEW a \in Nat, NEW b \in Nat
  PROVE  a * b \in Nat
OBVIOUS

LEMMA FitnessType ==
  ASSUME NEW o \in Outcomes
  PROVE  Fitness(o) \in Nat /\ Feasible(o) \in BOOLEAN
<1> DEFINE v == SearchViolation(o.metrics)
           score == Score(o.metrics)
<1>1. v \in Nat
  BY SearchInputs, ViolationType DEF SearchViolation
<1>2. score \in Nat
  BY ScoreAssumption
<1>3. Unit \in Nat /\ Unit # 0 /\ Penalty \in Nat
  BY UnitAssumption, EngineAssumption
<1> HIDE DEF v, score
<1>4. score * Unit \in Nat /\ Penalty * v \in Nat
  BY <1>1, <1>2, <1>3, ProductIsNatural
<1>5. (score * Unit) \div (Unit + Penalty * v) \in Nat
  <2>1. Unit + Penalty * v \in Nat /\ Unit + Penalty * v # 0
    BY <1>3, <1>4
  <2> QED BY <1>4, <2>1, QuotientIsNatural
<1> QED BY <1>5, OutcomeType DEF Fitness, Feasible, v, score

-----------------------------------------------------------------------------
(* Histories *)

HistoryOK(batches) == IsHistory(batches) /\ IsList(Recorded(batches))

LEMMA EmptyHistory == HistoryOK(<< >>) /\ Candidates(<< >>) = 0
<1>1. IsList(<< >>)
  BY DEF IsList
<1>2. Recorded(<< >>) = << >>
  BY <1>1, RecordedSteps
<1>3. IsHistory(<< >>)
  BY <1>1 DEF IsHistory, ToSet
<1> QED BY <1>1, <1>2, <1>3 DEF HistoryOK, Candidates

LEMMA HistoryFacts ==
  ASSUME NEW batches, HistoryOK(batches)
  PROVE  IsList(batches) /\ Len(batches) \in Nat /\ Candidates(batches) \in Nat
BY ListFacts DEF HistoryOK, IsHistory, Candidates

\* The candidates of one more generation follow those before.
LEMMA LongerHistory ==
  ASSUME NEW batches, HistoryOK(batches), NEW points, IsList(points), NEW fitness \in Seq(Nat),
         Len(fitness) = Len(points)
  PROVE  LET b == [points |-> points, fitness |-> fitness]
         IN /\ HistoryOK(Append(batches, b))
            /\ Candidates(Append(batches, b)) = Candidates(batches) + Len(points)
            /\ \A i \in 1..(Candidates(batches) + Len(points)) :
                 Recorded(Append(batches, b))[i]
                   = IF i <= Candidates(batches) THEN Recorded(batches)[i]
                     ELSE [point |-> points[i - Candidates(batches)], fitness |-> fitness[i - Candidates(batches)]]
<1> DEFINE b == [points |-> points, fitness |-> fitness]
           h == Recorded(batches)
           k == Len(points)
           new == CandidatesOf(b)
<1>1. k \in Nat /\ new = [i \in 1..k |-> [point |-> points[i], fitness |-> fitness[i]]]
  BY ListFacts DEF CandidatesOf
<1>2. IsList(new) /\ Len(new) = k
  <2>1. new = [i \in 1..k |-> new[i]]
    BY <1>1
  <2> HIDE DEF new, k
  <2> QED BY <1>1, <2>1, FunctionIsList
<1>3. IsList(h) /\ IsList(batches) /\ Len(h) \in Nat
  BY ListFacts DEF HistoryOK, IsHistory
<1>4. Recorded(Append(batches, b)) = h \o new
  BY <1>3, RecordedSteps DEF Listed
<1>5. /\ IsList(h \o new) /\ Len(h \o new) = Len(h) + k
      /\ \A i \in 1..(Len(h) + k) : (h \o new)[i] = IF i <= Len(h) THEN h[i] ELSE new[i - Len(h)]
  <2> HIDE DEF h, new
  <2> QED BY <1>2, <1>3, ConcatList
<1>6. IsHistory(Append(batches, b))
  <2>1. IsList(Append(batches, b)) /\ Len(Append(batches, b)) = Len(batches) + 1
        /\ \A i \in 1..Len(batches) : Append(batches, b)[i] = batches[i]
        /\ Append(batches, b)[Len(batches) + 1] = b
    BY <1>3, AppendList
  <2>2. Len(batches) \in Nat /\ DOMAIN batches = 1..Len(batches)
        /\ DOMAIN Append(batches, b) = 1..(Len(batches) + 1)
    BY <1>3, <2>1, ListFacts
  <2>3. \A c \in ToSet(Append(batches, b)) : c \in ToSet(batches) \/ c = b
    <3>1. \A i \in 1..(Len(batches) + 1) : i \in 1..Len(batches) \/ i = Len(batches) + 1
      BY <2>2
    <3> QED BY <2>1, <2>2, <3>1 DEF ToSet
  <2>4. /\ b = [points |-> b.points, fitness |-> b.fitness]
        /\ IsList(b.points) /\ b.fitness \in Seq(Nat) /\ Len(b.fitness) = Len(b.points)
    OBVIOUS
  <2> HIDE DEF b
  <2> QED BY <2>1, <2>3, <2>4 DEF HistoryOK, IsHistory
<1>7. \A i \in 1..(Len(h) + k) :
        (h \o new)[i] = IF i <= Len(h) THEN h[i]
                        ELSE [point |-> points[i - Len(h)], fitness |-> fitness[i - Len(h)]]
  <2> TAKE i \in 1..(Len(h) + k)
  <2>1. CASE i <= Len(h)
    BY <1>5, <2>1
  <2>2. CASE ~ (i <= Len(h))
    <3>1. i - Len(h) \in 1..k
      BY <1>1, <1>3, <2>2
    <3> QED BY <1>1, <1>5, <2>2, <3>1
  <2> QED BY <2>1, <2>2
<1> QED BY <1>4, <1>5, <1>6, <1>7 DEF HistoryOK, Candidates

-----------------------------------------------------------------------------
(* The process and its checkpoint *)

Live == mem.phase \notin {"idle", "opened"}

InGeneration == mem.phase \in {"generating", "evaluating", "evaluated", "completing"}

Shapes ==
  /\ checkpoint = [status |-> checkpoint.status, batches |-> checkpoint.batches,
                   budget |-> checkpoint.budget, best |-> checkpoint.best]
  /\ mem = [f \in DOMAIN Idle |-> mem[f]]

\* How far a generation is.
Progress ==
  /\ mem.phase = "opened" => mem = [Idle EXCEPT !.phase = "opened"]
  /\ ~ InGeneration => mem.points = << >> /\ mem.generated = 0 /\ mem.fitness = << >>
  /\ mem.phase = "generating" => mem.generated < Len(mem.points) /\ mem.fitness = << >>
  /\ mem.phase \in {"evaluating", "evaluated"} =>
       mem.generated = Len(mem.points) /\ Len(mem.fitness) < Len(mem.points)
  /\ mem.phase = "completing" =>
       mem.generated = Len(mem.points) /\ Len(mem.fitness) = Len(mem.points) /\ Len(mem.points) # 0
  /\ mem.phase = "evaluated" => mem.outcome \in Outcomes
  /\ Len(mem.points) <= BatchSize

Newest == mem.batches[Len(mem.batches)]

\* The generation that is in memory and not yet in the checkpoint.
OneMore ==
  /\ mem.batches = Append(checkpoint.batches, Newest)
  /\ Newest = [points |-> Newest.points, fitness |-> Newest.fitness]
  /\ IsList(Newest.points) /\ Newest.fitness \in Seq(Nat)
  /\ Len(Newest.points) \in 1..BatchSize /\ Len(Newest.fitness) = Len(Newest.points)

\* Memory and checkpoint hold the same history, or memory one generation more; versions are
\* numbered through.
Histories ==
  /\ checkpoint.status = "none" =>
       checkpoint.batches = << >> /\ checkpoint.budget = NoBudget /\ checkpoint.best = NoCandidate
  /\ HistoryOK(checkpoint.batches) /\ HistoryOK(mem.batches)
  /\ Live /\ mem.phase # "saving" => mem.batches = checkpoint.batches
  /\ mem.phase = "saving" => OneMore
  /\ Live => mem.next = FirstVersion + Candidates(mem.batches) + mem.generated

Proposed(kind, batches, points) == \E n \in 1..BatchSize : points = Ask(kind, StrategyAfter(kind, batches), n)

\* The strategy in memory is the one that went through the history in memory, and perhaps one ask.
Plans ==
  /\ StrategyOK(config.kind, StrategyAfter(config.kind, checkpoint.batches))
  /\ Live => StrategyOK(config.kind, StrategyAfter(config.kind, mem.batches))
  /\ Live /\ ~ InGeneration => mem.strategy = StrategyAfter(config.kind, mem.batches)
  /\ InGeneration =>
       /\ mem.strategy = AfterAsk(config.kind, StrategyAfter(config.kind, mem.batches), Len(mem.points))
       /\ Proposed(config.kind, mem.batches, mem.points)
  /\ mem.phase = "saving" => Proposed(config.kind, checkpoint.batches, Newest.points)

Structure == TypeOK /\ Shapes /\ Progress /\ Histories /\ Plans

\* A process that has not begun, or has gone, holds nothing.
LEMMA NothingHeld ==
  ASSUME Structure,
         mem' = Idle \/ mem' = [Idle EXCEPT !.phase = "opened"],
         checkpoint' = checkpoint, flag' \in BOOLEAN,
         config' \in [kind : {config.kind}, maxCandidates : Nat, maxBatches : Nat],
         crashes' \in 0..MaxCrashes, reruns' \in 0..MaxReruns
  PROVE  Structure'
<1>1. /\ mem'.phase \in {"idle", "opened"} /\ mem'.batches = << >> /\ mem'.budget = NoBudget
      /\ mem'.best = NoCandidate /\ mem'.next = 0 /\ mem'.points = << >> /\ mem'.generated = 0
      /\ mem'.fitness = << >> /\ mem'.outcome = NoOutcome /\ mem'.cancelled = FALSE
  BY DEF Idle
<1>0. /\ mem' = [f \in DOMAIN Idle |-> mem'[f]]
      /\ mem'.phase = "opened" => mem' = [Idle EXCEPT !.phase = "opened"]
  <2>1. CASE mem' = Idle
    BY <2>1 DEF Idle
  <2>2. CASE mem' = [Idle EXCEPT !.phase = "opened"]
    BY <2>2 DEF Idle
  <2> QED BY <2>1, <2>2
<1>2. config' \in [kind : Kinds, maxCandidates : Nat, maxBatches : Nat] /\ config'.kind = config.kind
  BY DEF Structure, TypeOK, StoredTypeOK
<1>3. HistoryOK(mem'.batches) /\ IsList(mem'.points) /\ Len(mem'.points) = 0
      /\ mem'.fitness \in Seq(Nat) /\ Len(mem'.fitness) = 0
  BY <1>1, EmptyHistory DEF HistoryOK, IsHistory
<1>4. IsHistory(mem'.batches) /\ mem'.budget \in Budgets /\ mem'.best \in Incumbents
  BY <1>1, <1>3 DEF HistoryOK, NoBudget, Budgets, NoCandidate, Incumbents
<1>5. StoredTypeOK'
  BY <1>2 DEF Structure, TypeOK, StoredTypeOK
<1>10. MemoryTypeOK'
  <2>1. mem'.phase \in Phases /\ mem'.outcome \in Outcomes \cup {NoOutcome} /\ mem'.cancelled \in BOOLEAN
    BY <1>1 DEF Phases
  <2>2. IsHistory(mem'.batches) /\ mem'.budget \in Budgets /\ mem'.best \in Incumbents
    BY <1>4
  <2>3. IsList(mem'.points) /\ mem'.generated \in 0..Len(mem'.points) /\ mem'.next \in Nat
    BY <1>1, <1>3
  <2>4. mem'.fitness \in Seq(Nat) /\ Len(mem'.fitness) <= Len(mem'.points)
    BY <1>3
  <2> QED BY <2>1, <2>2, <2>3, <2>4 DEF MemoryTypeOK
<1>6. Shapes'
  BY <1>0 DEF Structure, Shapes
<1>7. Progress'
  BY <1>0, <1>1, <1>3, StrategyAssumption DEF Progress, InGeneration
<1>8. Histories'
  BY <1>1, <1>3 DEF Structure, Histories, Live
<1>9. Plans'
  BY <1>1, <1>2 DEF Structure, Plans, Live, InGeneration
<1> QED BY <1>5, <1>6, <1>7, <1>8, <1>9, <1>10 DEF Structure, TypeOK

LEMMA InitStructure == Init => Structure
<1> SUFFICES ASSUME Init PROVE Structure
  OBVIOUS
<1>1. /\ mem.phase = "idle" /\ mem.batches = << >> /\ mem.budget = NoBudget
      /\ mem.best = NoCandidate /\ mem.next = 0 /\ mem.points = << >> /\ mem.generated = 0
      /\ mem.fitness = << >> /\ mem.outcome = NoOutcome /\ mem.cancelled = FALSE
      /\ mem = [f \in DOMAIN Idle |-> mem[f]]
  BY DEF Init, Idle
<1>2. config \in [kind : Kinds, maxCandidates : Nat, maxBatches : Nat]
  BY EngineAssumption DEF Init
<1>3. HistoryOK(<< >>) /\ IsHistory(<< >>) /\ IsList(<< >>)
  BY EmptyHistory DEF HistoryOK, IsHistory
<1>4. NoBudget \in Budgets /\ NoCandidate \in Incumbents
  BY DEF NoBudget, Budgets, NoCandidate, Incumbents
<1>5. /\ checkpoint.status = "none" /\ checkpoint.batches = << >> /\ checkpoint.budget = NoBudget
      /\ checkpoint.best = NoCandidate
  BY DEF Init
<1>6. TypeOK
  <2>1. mem.phase \in Phases /\ mem.outcome \in Outcomes \cup {NoOutcome} /\ mem.cancelled \in BOOLEAN
    BY <1>1 DEF Phases
  <2>2. /\ IsHistory(mem.batches) /\ mem.budget \in Budgets /\ mem.best \in Incumbents
        /\ IsHistory(checkpoint.batches) /\ checkpoint.budget \in Budgets /\ checkpoint.best \in Incumbents
    BY <1>1, <1>3, <1>4, <1>5
  <2>3. IsList(mem.points) /\ mem.generated \in 0..Len(mem.points) /\ mem.next \in Nat
    BY <1>1, <1>3
  <2>4. mem.fitness \in Seq(Nat) /\ Len(mem.fitness) <= Len(mem.points)
    BY <1>1
  <2>5. flag \in BOOLEAN /\ crashes \in 0..MaxCrashes /\ reruns \in 0..MaxReruns
    <3>1. flag = FALSE /\ crashes = 0 /\ reruns = 0
      BY DEF Init
    <3>2. crashes \in 0..MaxCrashes /\ reruns \in 0..MaxReruns
      BY <3>1, ConstantTypes
    <3> QED BY <3>1, <3>2
  <2>6. checkpoint.status \in {"none", "running", "completed", "cancelled"}
    BY <1>5
  <2> QED BY <1>2, <2>1, <2>2, <2>3, <2>4, <2>5, <2>6 DEF TypeOK, StoredTypeOK, MemoryTypeOK
<1>7. Shapes
  BY <1>1 DEF Init, Shapes
<1>8. Progress
  BY <1>1, StrategyAssumption DEF Progress, InGeneration
<1>9. Histories
  BY <1>1, <1>3, <1>5 DEF Histories, Live
<1>10. Plans
  <2>1. config.kind \in Kinds
    BY <1>2
  <2>2. StrategyOK(config.kind, StrategyAfter(config.kind, << >>))
    BY <2>1, <1>3, NewStrategyOK, StrategyAfterSteps
  <2> QED BY <1>1, <1>5, <2>2 DEF Plans, Live, InGeneration
<1> QED BY <1>6, <1>7, <1>8, <1>9, <1>10 DEF Structure

\* No process, and one that opens.
LEMMA OpenKeepsStructure ==
  ASSUME Structure, Open \/ ResumeWithMore
  PROVE  Structure'
<1>1. CASE Open
  <2>1. mem' = [Idle EXCEPT !.phase = "opened"] /\ checkpoint' = checkpoint /\ flag' = flag
        /\ config' = config /\ crashes' = crashes
    BY <1>1 DEF Open
  <2>2. config \in [kind : {config.kind}, maxCandidates : Nat, maxBatches : Nat] /\ flag \in BOOLEAN
        /\ crashes \in 0..MaxCrashes /\ reruns \in 0..MaxReruns
    BY DEF Structure, TypeOK, StoredTypeOK
  <2>3. reruns' \in 0..MaxReruns
    <3>1. CASE checkpoint.status \in {"none", "running"}
      BY <1>1, <2>2, <3>1 DEF Open
    <3>2. CASE checkpoint.status \notin {"none", "running"}
      BY <1>1, <2>2, <3>2, ConstantTypes DEF Open
    <3> QED BY <3>1, <3>2
  <2> QED BY <2>1, <2>2, <2>3, NothingHeld
<1>2. CASE ResumeWithMore
  <2> DEFINE candidates == Candidates(checkpoint.batches) + ExtraCandidates
             batches == Max({config.maxBatches, Len(checkpoint.batches) + CeilDiv(ExtraCandidates, BatchSize)})
  <2>1. mem' = [Idle EXCEPT !.phase = "opened"] /\ checkpoint' = checkpoint /\ flag' = flag
        /\ config' = [config EXCEPT !.maxCandidates = candidates, !.maxBatches = batches]
        /\ crashes' = crashes /\ reruns < MaxReruns /\ reruns' = reruns + 1
    BY <1>2 DEF ResumeWithMore
  <2>2. config \in [kind : Kinds, maxCandidates : Nat, maxBatches : Nat] /\ flag \in BOOLEAN
        /\ crashes \in 0..MaxCrashes /\ reruns \in 0..MaxReruns
    BY DEF Structure, TypeOK, StoredTypeOK
  <2>3. reruns' \in 0..MaxReruns
    BY <2>1, <2>2, ConstantTypes
  <2>4. Candidates(checkpoint.batches) \in Nat /\ Len(checkpoint.batches) \in Nat
    BY HistoryFacts DEF Structure, Histories
  <2>5. candidates \in Nat
    BY <2>4, ConstantTypes
  <2>6. batches \in Nat
    <3>1. CeilDiv(ExtraCandidates, BatchSize) \in Nat
      BY ConstantTypes, QuotientIsNatural DEF CeilDiv
    <3> QED BY <2>2, <2>4, <3>1, MaxOfTwo
  <2> HIDE DEF candidates, batches
  <2>7. config' \in [kind : {config.kind}, maxCandidates : Nat, maxBatches : Nat]
    BY <2>1, <2>2, <2>5, <2>6
  <2> QED BY <2>1, <2>2, <2>3, <2>7, NothingHeld
<1> QED BY <1>1, <1>2

LEMMA CrashKeepsStructure ==
  ASSUME Structure, Crash
  PROVE  Structure'
<1>1. mem' = Idle /\ checkpoint' = checkpoint /\ flag' = flag /\ config' = config /\ reruns' = reruns
      /\ crashes < MaxCrashes /\ crashes' = crashes + 1
  BY DEF Crash
<1>2. config \in [kind : {config.kind}, maxCandidates : Nat, maxBatches : Nat] /\ flag \in BOOLEAN
      /\ crashes \in 0..MaxCrashes /\ reruns \in 0..MaxReruns
  BY DEF Structure, TypeOK, StoredTypeOK
<1>3. crashes' \in 0..MaxCrashes
  BY <1>1, <1>2, ConstantTypes
<1> QED BY <1>1, <1>2, <1>3, NothingHeld

LEMMA EmitStoppedKeepsStructure ==
  ASSUME Structure, EmitStopped
  PROVE  Structure'
<1>1. mem' = Idle /\ checkpoint' = checkpoint /\ flag' = flag /\ config' = config /\ reruns' = reruns
      /\ crashes' = crashes
  BY DEF EmitStopped
<1>2. config \in [kind : {config.kind}, maxCandidates : Nat, maxBatches : Nat] /\ flag \in BOOLEAN
      /\ crashes \in 0..MaxCrashes /\ reruns \in 0..MaxReruns
  BY DEF Structure, TypeOK, StoredTypeOK
<1> QED BY <1>1, <1>2, NothingHeld

\* A search begins with nothing.
LEMMA BeginFreshFacts ==
  ASSUME Structure, BeginFresh
  PROVE  /\ mem.phase = "opened" /\ checkpoint.batches = << >>
         /\ checkpoint.budget = NoBudget /\ checkpoint.best = NoCandidate
         /\ mem'.phase = "looping" /\ mem'.strategy = NewStrategy(config.kind) /\ mem'.next = FirstVersion
         /\ mem'.batches = << >> /\ mem'.budget = NoBudget /\ mem'.best = NoCandidate
         /\ mem'.points = << >> /\ mem'.generated = 0 /\ mem'.fitness = << >> /\ mem'.outcome = NoOutcome
         /\ mem'.cancelled = FALSE
         /\ mem' = [f \in DOMAIN Idle |-> mem'[f]]
         /\ UNCHANGED <<config, checkpoint, flag, crashes, reruns>> /\ Emit(Milestone("created"))
<1>1. /\ mem.phase = "opened" /\ mem = [Idle EXCEPT !.phase = "opened"] /\ checkpoint.batches = << >>
      /\ checkpoint.budget = NoBudget /\ checkpoint.best = NoCandidate
  BY DEF Structure, Progress, Histories, BeginFresh
<1>2. /\ mem'.phase = "looping" /\ mem'.strategy = NewStrategy(config.kind) /\ mem'.next = FirstVersion
      /\ mem'.batches = << >> /\ mem'.budget = NoBudget /\ mem'.best = NoCandidate
      /\ mem'.points = << >> /\ mem'.generated = 0 /\ mem'.fitness = << >> /\ mem'.outcome = NoOutcome
      /\ mem'.cancelled = FALSE
  BY <1>1 DEF BeginFresh, Idle
<1>3. mem' = [f \in DOMAIN Idle |-> mem'[f]]
  BY <1>1 DEF BeginFresh, Idle
<1> QED BY <1>1, <1>2, <1>3 DEF BeginFresh

LEMMA BeginFreshKeepsStructure ==
  ASSUME Structure, BeginFresh
  PROVE  Structure'
<1>1. checkpoint.batches = << >>
  BY BeginFreshFacts
<1>2. /\ mem'.phase = "looping" /\ mem'.strategy = NewStrategy(config.kind) /\ mem'.next = FirstVersion
      /\ mem'.batches = << >> /\ mem'.budget = NoBudget /\ mem'.best = NoCandidate
      /\ mem'.points = << >> /\ mem'.generated = 0 /\ mem'.fitness = << >> /\ mem'.outcome = NoOutcome
      /\ mem'.cancelled = FALSE
  BY BeginFreshFacts
<1>3. mem' = [f \in DOMAIN Idle |-> mem'[f]]
  BY BeginFreshFacts
<1>4. UNCHANGED <<config, checkpoint, flag, crashes, reruns>>
  BY BeginFreshFacts
<1>5. HistoryOK(<< >>) /\ Candidates(<< >>) = 0 /\ IsHistory(<< >>) /\ IsList(<< >>)
  BY EmptyHistory DEF HistoryOK, IsHistory
<1>6. NoBudget \in Budgets /\ NoCandidate \in Incumbents
  BY DEF NoBudget, Budgets, NoCandidate, Incumbents
<1>7. MemoryTypeOK'
  <2>1. mem'.phase \in Phases /\ mem'.outcome \in Outcomes \cup {NoOutcome} /\ mem'.cancelled \in BOOLEAN
    BY <1>2 DEF Phases
  <2>2. IsHistory(mem'.batches) /\ mem'.budget \in Budgets /\ mem'.best \in Incumbents
    BY <1>2, <1>5, <1>6
  <2>3. IsList(mem'.points) /\ mem'.generated \in 0..Len(mem'.points) /\ mem'.next \in Nat
    BY <1>2, <1>5, ConstantTypes
  <2>4. mem'.fitness \in Seq(Nat) /\ Len(mem'.fitness) <= Len(mem'.points)
    BY <1>2
  <2> QED BY <2>1, <2>2, <2>3, <2>4 DEF MemoryTypeOK
<1>8. StoredTypeOK'
  BY <1>4 DEF Structure, TypeOK, StoredTypeOK
<1>9. Shapes' /\ Progress'
  BY <1>2, <1>3, <1>4, ConstantTypes DEF Structure, Shapes, Progress, InGeneration
<1>10. Histories'
  BY <1>1, <1>2, <1>4, <1>5, ConstantTypes DEF Structure, Histories, Live
<1>11. Plans'
  <2>1. config.kind \in Kinds
    BY DEF Structure, TypeOK, StoredTypeOK
  <2>2. StrategyAfter(config.kind, << >>) = NewStrategy(config.kind)
    BY <1>5, StrategyAfterSteps
  <2>3. StrategyOK(config.kind, NewStrategy(config.kind))
    BY <2>1, NewStrategyOK
  <2> QED BY <1>1, <1>2, <1>4, <2>2, <2>3 DEF Structure, Plans, Live, InGeneration
<1> QED BY <1>7, <1>8, <1>9, <1>10, <1>11 DEF Structure, TypeOK

\* A search goes on with what its checkpoint holds.
LEMMA ResumeFacts ==
  ASSUME Structure, Resume
  PROVE  /\ mem.phase = "opened" /\ mem'.phase = "looping"
         /\ mem'.strategy = Replayed(config.kind, checkpoint.batches)
         /\ mem'.next = FirstVersion + Candidates(checkpoint.batches)
         /\ mem'.batches = checkpoint.batches /\ mem'.budget = checkpoint.budget /\ mem'.best = checkpoint.best
         /\ mem'.points = << >> /\ mem'.generated = 0 /\ mem'.fitness = << >> /\ mem'.outcome = NoOutcome
         /\ mem'.cancelled = FALSE
         /\ mem' = [f \in DOMAIN Idle |-> mem'[f]]
         /\ checkpoint'.status = "running" /\ checkpoint'.batches = checkpoint.batches
         /\ checkpoint'.budget = checkpoint.budget /\ checkpoint'.best = checkpoint.best
         /\ Shapes'
         /\ UNCHANGED <<config, flag, crashes, reruns, logVars>>
<1>1. mem = [Idle EXCEPT !.phase = "opened"]
  BY DEF Structure, Progress, Resume
<1>2. /\ mem'.phase = "looping" /\ mem'.strategy = Replayed(config.kind, checkpoint.batches)
      /\ mem'.next = FirstVersion + Candidates(checkpoint.batches)
      /\ mem'.batches = checkpoint.batches /\ mem'.budget = checkpoint.budget /\ mem'.best = checkpoint.best
      /\ mem'.points = << >> /\ mem'.generated = 0 /\ mem'.fitness = << >> /\ mem'.outcome = NoOutcome
      /\ mem'.cancelled = FALSE
  BY <1>1 DEF Resume, Idle
<1>3. mem' = [f \in DOMAIN Idle |-> mem'[f]]
  BY <1>1 DEF Resume, Idle
<1>4. mem.phase = "opened" /\ UNCHANGED <<config, flag, crashes, reruns, logVars>>
  BY DEF Resume
<1>5. /\ checkpoint'.status = "running" /\ checkpoint'.batches = checkpoint.batches
      /\ checkpoint'.budget = checkpoint.budget /\ checkpoint'.best = checkpoint.best
      /\ Shapes'
  BY <1>3 DEF Structure, Shapes, Resume
<1> QED BY <1>2, <1>3, <1>4, <1>5

LEMMA ResumeKeepsStructure ==
  ASSUME Structure, Resume
  PROVE  Structure'
<1>2. /\ mem'.phase = "looping" /\ mem'.strategy = Replayed(config.kind, checkpoint.batches)
      /\ mem'.next = FirstVersion + Candidates(checkpoint.batches)
      /\ mem'.batches = checkpoint.batches /\ mem'.budget = checkpoint.budget /\ mem'.best = checkpoint.best
      /\ mem'.points = << >> /\ mem'.generated = 0 /\ mem'.fitness = << >> /\ mem'.outcome = NoOutcome
      /\ mem'.cancelled = FALSE
  BY ResumeFacts
<1>3. mem' = [f \in DOMAIN Idle |-> mem'[f]]
  BY ResumeFacts
<1>4. UNCHANGED <<config, flag, crashes, reruns>>
  BY ResumeFacts
<1>5. /\ checkpoint'.status = "running" /\ checkpoint'.batches = checkpoint.batches
      /\ checkpoint'.budget = checkpoint.budget /\ checkpoint'.best = checkpoint.best
      /\ Shapes'
  BY ResumeFacts
<1>6. HistoryOK(checkpoint.batches) /\ IsList(checkpoint.batches) /\ Candidates(checkpoint.batches) \in Nat
  BY HistoryFacts DEF Structure, Histories
<1>7. MemoryTypeOK'
  <2>1. mem'.phase \in Phases /\ mem'.outcome \in Outcomes \cup {NoOutcome} /\ mem'.cancelled \in BOOLEAN
    BY <1>2 DEF Phases
  <2>2. IsHistory(mem'.batches) /\ mem'.budget \in Budgets /\ mem'.best \in Incumbents
    BY <1>2 DEF Structure, TypeOK, StoredTypeOK
  <2>3. IsList(mem'.points) /\ mem'.generated \in 0..Len(mem'.points) /\ mem'.next \in Nat
    <3>1. IsList(<< >>) /\ Len(<< >>) = 0
      BY EmptyHistory DEF HistoryOK, IsHistory
    <3> QED BY <1>2, <1>6, <3>1, ConstantTypes
  <2>4. mem'.fitness \in Seq(Nat) /\ Len(mem'.fitness) <= Len(mem'.points)
    BY <1>2
  <2> QED BY <2>1, <2>2, <2>3, <2>4 DEF MemoryTypeOK
<1>8. StoredTypeOK'
  BY <1>4, <1>5 DEF Structure, TypeOK, StoredTypeOK
<1>9. Progress'
  BY <1>2, ConstantTypes DEF Progress, InGeneration
<1>10. Histories'
  BY <1>2, <1>5, <1>6, ConstantTypes DEF Structure, Histories, Live
<1>11. Plans'
  <2>1. Replayed(config.kind, checkpoint.batches) = StrategyAfter(config.kind, checkpoint.batches)
    BY <1>6, ResumeIsContinuation
  <2> QED BY <1>2, <1>4, <1>5, <2>1 DEF Structure, Plans, Live, InGeneration
<1> QED BY <1>5, <1>7, <1>8, <1>9, <1>10, <1>11 DEF Structure, TypeOK

\* The loop ends: the history is as it was.
LEMMA StoppingFacts ==
  ASSUME Structure, TakeCancel \/ ReachLimit \/ RunOut
  PROVE  /\ mem.phase = "looping" /\ mem'.phase = "stopping" /\ mem'.cancelled \in BOOLEAN /\ flag' \in BOOLEAN
         /\ UNCHANGED <<mem.strategy, mem.batches, mem.budget, mem.best, mem.next, mem.points, mem.generated,
                        mem.fitness, mem.outcome>>
         /\ mem' = [f \in DOMAIN Idle |-> mem'[f]]
         /\ UNCHANGED <<config, checkpoint, crashes, reruns, logVars>>
<1>1. mem = [f \in DOMAIN Idle |-> mem[f]] /\ mem.cancelled \in BOOLEAN /\ flag \in BOOLEAN
  BY DEF Structure, Shapes, TypeOK, StoredTypeOK, MemoryTypeOK
<1>2. CASE TakeCancel
  BY <1>1, <1>2 DEF TakeCancel, Idle
<1>3. CASE ReachLimit
  BY <1>1, <1>3 DEF ReachLimit, Idle
<1>4. CASE RunOut
  BY <1>1, <1>4 DEF RunOut, Idle
<1> QED BY <1>2, <1>3, <1>4

LEMMA StoppingKeepsStructure ==
  ASSUME Structure, TakeCancel \/ ReachLimit \/ RunOut
  PROVE  Structure'
<1>1. /\ mem.phase = "looping" /\ mem'.phase = "stopping" /\ mem'.cancelled \in BOOLEAN /\ flag' \in BOOLEAN
      /\ UNCHANGED <<mem.strategy, mem.batches, mem.budget, mem.best, mem.next, mem.points, mem.generated,
                     mem.fitness, mem.outcome>>
      /\ mem' = [f \in DOMAIN Idle |-> mem'[f]]
  BY StoppingFacts
<1>2. UNCHANGED <<config, checkpoint, crashes, reruns>>
  BY StoppingFacts
<1>3. MemoryTypeOK'
  BY <1>1 DEF Structure, TypeOK, MemoryTypeOK, Phases
<1>4. StoredTypeOK'
  BY <1>1, <1>2 DEF Structure, TypeOK, StoredTypeOK
<1>5. Shapes'
  BY <1>1, <1>2 DEF Structure, Shapes
<1>6. Progress'
  BY <1>1 DEF Structure, Progress, InGeneration
<1>7. Histories'
  BY <1>1, <1>2 DEF Structure, Histories, Live
<1>8. Plans'
  BY <1>1, <1>2 DEF Structure, Plans, Live, InGeneration
<1> QED BY <1>3, <1>4, <1>5, <1>6, <1>7, <1>8 DEF Structure, TypeOK

\* What the strategy proposes when there may be another generation.
LEMMA ProposalFacts ==
  ASSUME Structure, mem.phase = "looping", ~ LimitReached
  PROVE  /\ BatchToAsk \in 1..BatchSize /\ BatchToAsk <= config.maxCandidates - mem.budget.candidates
         /\ Proposal = Ask(config.kind, StrategyAfter(config.kind, mem.batches), BatchToAsk)
         /\ AfterAsk(config.kind, mem.strategy, BatchToAsk)
              = AfterAsk(config.kind, StrategyAfter(config.kind, mem.batches), Len(Proposal))
         /\ IsList(Proposal) /\ Len(Proposal) \in Nat /\ Len(Proposal) <= BatchToAsk
<1>1. config.kind \in Kinds /\ config.maxCandidates \in Nat /\ mem.budget.candidates \in Nat
  BY DEF Structure, TypeOK, StoredTypeOK, MemoryTypeOK, Budgets
<1>2. ~ (mem.budget.candidates >= config.maxCandidates)
  BY DEF LimitReached, Exhausted
<1>3. BatchToAsk \in 1..BatchSize /\ BatchToAsk <= config.maxCandidates - mem.budget.candidates
  BY <1>1, <1>2, ConstantTypes, MinOfTwo DEF BatchToAsk
<1>4. BatchToAsk \in Nat
  BY <1>3
<1>5. mem.strategy = StrategyAfter(config.kind, mem.batches) /\ StrategyOK(config.kind, mem.strategy)
  BY DEF Structure, Plans, Live, InGeneration
<1>6. IsList(Proposal) /\ Len(Proposal) <= BatchToAsk
  BY <1>1, <1>4, <1>5, AskList DEF Proposal
<1>7. AfterAsk(config.kind, mem.strategy, Len(Proposal)) = AfterAsk(config.kind, mem.strategy, BatchToAsk)
  BY <1>1, <1>4, <1>5, AskAgain DEF Proposal
<1> QED BY <1>3, <1>5, <1>6, <1>7, ListFacts DEF Proposal

\* What AskBatch does: the next generation is what the strategy proposes after the history.
LEMMA AskFacts ==
  ASSUME Structure, AskBatch
  PROVE  /\ mem.phase = "looping" /\ mem'.phase = "generating" /\ ~ LimitReached /\ mem'.points = Proposal
         /\ mem'.strategy = AfterAsk(config.kind, StrategyAfter(config.kind, mem.batches), Len(Proposal))
         /\ Proposal = Ask(config.kind, StrategyAfter(config.kind, mem.batches), BatchToAsk)
         /\ BatchToAsk \in 1..BatchSize /\ BatchToAsk <= config.maxCandidates - mem.budget.candidates
         /\ IsList(Proposal) /\ Len(Proposal) \in Nat /\ Len(Proposal) <= BatchToAsk /\ Len(Proposal) # 0
         /\ UNCHANGED <<mem.batches, mem.budget, mem.best, mem.next, mem.generated, mem.fitness, mem.outcome,
                        mem.cancelled>>
         /\ mem' = [f \in DOMAIN Idle |-> mem'[f]]
         /\ UNCHANGED <<config, checkpoint, flag, crashes, reruns, logVars>>
<1>1. /\ mem.phase = "looping" /\ mem'.phase = "generating" /\ mem'.points = Proposal
      /\ mem'.strategy = AfterAsk(config.kind, mem.strategy, BatchToAsk)
      /\ UNCHANGED <<mem.batches, mem.budget, mem.best, mem.next, mem.generated, mem.fitness, mem.outcome,
                     mem.cancelled>>
      /\ mem' = [f \in DOMAIN Idle |-> mem'[f]]
      /\ Proposal # << >> /\ ~ LimitReached
  BY DEF Structure, Shapes, AskBatch, Idle
<1>2. UNCHANGED <<config, checkpoint, flag, crashes, reruns, logVars>>
  BY DEF AskBatch
<1> QED BY <1>1, <1>2, ProposalFacts, ListFacts

LEMMA AskBatchKeepsStructure ==
  ASSUME Structure, AskBatch
  PROVE  Structure'
<1>1. /\ mem.phase = "looping" /\ mem'.phase = "generating" /\ mem'.points = Proposal
      /\ UNCHANGED <<mem.batches, mem.budget, mem.best, mem.next, mem.generated, mem.fitness, mem.outcome,
                     mem.cancelled>>
      /\ mem' = [f \in DOMAIN Idle |-> mem'[f]]
  BY AskFacts
<1>2. UNCHANGED <<config, checkpoint, flag, crashes, reruns>>
  BY AskFacts
<1>3. /\ BatchToAsk \in 1..BatchSize
      /\ Proposal = Ask(config.kind, StrategyAfter(config.kind, mem.batches), BatchToAsk)
      /\ mem'.strategy = AfterAsk(config.kind, StrategyAfter(config.kind, mem.batches), Len(Proposal))
      /\ IsList(Proposal) /\ Len(Proposal) \in Nat /\ Len(Proposal) <= BatchToAsk /\ Len(Proposal) # 0
  BY AskFacts
<1>4. mem.generated = 0 /\ mem.fitness = << >>
  BY <1>1 DEF Structure, Progress, InGeneration
<1>5. MemoryTypeOK'
  <2>1. mem'.phase \in Phases /\ mem'.outcome \in Outcomes \cup {NoOutcome} /\ mem'.cancelled \in BOOLEAN
    BY <1>1 DEF Phases, Structure, TypeOK, MemoryTypeOK
  <2>2. IsHistory(mem'.batches) /\ mem'.budget \in Budgets /\ mem'.best \in Incumbents /\ mem'.next \in Nat
    BY <1>1 DEF Structure, TypeOK, MemoryTypeOK
  <2>3. IsList(mem'.points) /\ mem'.generated \in 0..Len(mem'.points)
    BY <1>1, <1>3, <1>4
  <2>4. mem'.fitness \in Seq(Nat) /\ Len(mem'.fitness) <= Len(mem'.points)
    BY <1>1, <1>3, <1>4
  <2> QED BY <2>1, <2>2, <2>3, <2>4 DEF MemoryTypeOK
<1>6. StoredTypeOK' /\ Shapes'
  BY <1>1, <1>2 DEF Structure, TypeOK, StoredTypeOK, Shapes
<1>7. Progress'
  BY <1>1, <1>3, <1>4, ConstantTypes DEF Progress, InGeneration
<1>8. Histories'
  BY <1>1, <1>2 DEF Structure, Histories, Live
<1>9. Plans'
  <2>1. Proposed(config.kind, mem.batches, Proposal)
    BY <1>3 DEF Proposed
  <2> QED BY <1>1, <1>2, <1>3, <2>1 DEF Structure, Plans, Live, InGeneration
<1> QED BY <1>5, <1>6, <1>7, <1>8, <1>9 DEF Structure, TypeOK

\* What GenerateCandidate does to the memory of the process.
LEMMA GenerateFacts ==
  ASSUME Structure, GenerateCandidate
  PROVE  /\ mem.phase = "generating" /\ mem'.next = mem.next + 1 /\ mem'.generated = mem.generated + 1
         /\ mem'.phase = IF mem.generated + 1 = Len(mem.points) THEN "evaluating" ELSE "generating"
         /\ UNCHANGED <<mem.strategy, mem.batches, mem.budget, mem.best, mem.points, mem.fitness, mem.outcome,
                        mem.cancelled>>
         /\ mem' = [f \in DOMAIN Idle |-> mem'[f]]
         /\ UNCHANGED <<config, checkpoint, flag, crashes, reruns>> /\ Emit(NextEvent)
<1>1. /\ mem.phase = "generating" /\ mem'.next = mem.next + 1 /\ mem'.generated = mem.generated + 1
      /\ mem'.phase = IF mem.generated + 1 = Len(mem.points) THEN "evaluating" ELSE "generating"
      /\ UNCHANGED <<mem.strategy, mem.batches, mem.budget, mem.best, mem.points, mem.fitness, mem.outcome,
                     mem.cancelled>>
      /\ mem' = [f \in DOMAIN Idle |-> mem'[f]]
  BY DEF Structure, Shapes, GenerateCandidate, Idle
<1> QED BY <1>1 DEF GenerateCandidate

LEMMA GenerateCandidateKeepsStructure ==
  ASSUME Structure, GenerateCandidate
  PROVE  Structure'
<1>1. /\ mem.phase = "generating" /\ mem'.next = mem.next + 1 /\ mem'.generated = mem.generated + 1
      /\ mem'.phase = IF mem.generated + 1 = Len(mem.points) THEN "evaluating" ELSE "generating"
      /\ UNCHANGED <<mem.strategy, mem.batches, mem.budget, mem.best, mem.points, mem.fitness, mem.outcome,
                     mem.cancelled>>
      /\ mem' = [f \in DOMAIN Idle |-> mem'[f]]
  BY GenerateFacts
<1>2. UNCHANGED <<config, checkpoint, flag, crashes, reruns>>
  BY GenerateFacts
<1>3. /\ mem.generated < Len(mem.points) /\ mem.generated \in Nat /\ mem.fitness = << >>
      /\ Len(mem.points) \in Nat /\ Len(mem.points) <= BatchSize /\ IsList(mem.points) /\ mem.next \in Nat
  BY <1>1, ListFacts DEF Structure, Progress, TypeOK, MemoryTypeOK
<1>4. MemoryTypeOK'
  <2>1. mem'.phase \in Phases /\ mem'.outcome \in Outcomes \cup {NoOutcome} /\ mem'.cancelled \in BOOLEAN
    BY <1>1 DEF Phases, Structure, TypeOK, MemoryTypeOK
  <2>2. /\ IsHistory(mem'.batches) /\ mem'.budget \in Budgets /\ mem'.best \in Incumbents
        /\ mem'.fitness \in Seq(Nat) /\ Len(mem'.fitness) <= Len(mem'.points)
    BY <1>1 DEF Structure, TypeOK, MemoryTypeOK
  <2>3. IsList(mem'.points) /\ mem'.generated \in 0..Len(mem'.points) /\ mem'.next \in Nat
    BY <1>1, <1>3
  <2> QED BY <2>1, <2>2, <2>3 DEF MemoryTypeOK
<1>5. StoredTypeOK' /\ Shapes'
  BY <1>1, <1>2 DEF Structure, TypeOK, StoredTypeOK, Shapes
<1>6. Progress'
  BY <1>1, <1>3 DEF Progress, InGeneration
<1>7. Histories'
  <2>1. Candidates(mem.batches) \in Nat /\ FirstVersion \in Nat
    BY HistoryFacts, ConstantTypes DEF Structure, Histories
  <2>2. Live /\ Live' /\ mem.phase # "saving" /\ mem'.phase # "saving"
    BY <1>1 DEF Live
  <2>3. mem.next = FirstVersion + Candidates(mem.batches) + mem.generated
    BY <2>2 DEF Structure, Histories
  <2>4. mem'.next = FirstVersion + Candidates(mem.batches) + mem'.generated
    BY <1>1, <1>3, <2>1, <2>3
  <2> QED BY <1>1, <1>2, <2>2, <2>4 DEF Structure, Histories
<1>8. Plans'
  BY <1>1, <1>2 DEF Structure, Plans, Live, InGeneration
<1> QED BY <1>4, <1>5, <1>6, <1>7, <1>8 DEF Structure, TypeOK

\* An evaluation is paid for, whatever came of it.
LEMMA SpentType ==
  ASSUME NEW budget \in Budgets, NEW o \in Outcomes
  PROVE  Spent(budget, o) \in Budgets
<1>1. budget.candidates \in Nat /\ budget.requests \in Nat /\ budget.cost \in Nat /\ budget.minutes \in Nat
  BY DEF Budgets
<1>2. o.metrics.cost * Challenges \in Nat
  BY OutcomeType, ConstantTypes, ProductIsNatural
<1>3. /\ budget.candidates + 1 \in Nat /\ budget.requests + Challenges \in Nat
      /\ budget.cost + o.metrics.cost * Challenges \in Nat
      /\ (IF o.timedOut THEN budget.minutes + 1 ELSE budget.minutes) \in Nat
  BY <1>1, <1>2, ConstantTypes
<1> QED BY <1>3 DEF Spent, Budgets

\* What Evaluate does to the memory of the process.
LEMMA EvaluateFacts ==
  ASSUME Structure, Evaluate
  PROVE  /\ mem.phase = "evaluating" /\ mem'.phase = "evaluated" /\ mem'.outcome \in Outcomes
         /\ mem'.budget = Spent(mem.budget, mem'.outcome)
         /\ UNCHANGED <<mem.strategy, mem.batches, mem.best, mem.next, mem.points, mem.generated, mem.fitness,
                        mem.cancelled>>
         /\ mem' = [f \in DOMAIN Idle |-> mem'[f]]
         /\ UNCHANGED <<config, checkpoint, flag, crashes, reruns, logVars>>
<1>1. PICK o \in Outcomes : mem' = [mem EXCEPT !.phase = "evaluated", !.outcome = o, !.budget = Spent(@, o)]
  BY DEF Evaluate
<1>2. /\ mem.phase = "evaluating" /\ mem'.phase = "evaluated" /\ mem'.outcome = o
      /\ mem'.budget = Spent(mem.budget, o)
      /\ UNCHANGED <<mem.strategy, mem.batches, mem.best, mem.next, mem.points, mem.generated, mem.fitness,
                     mem.cancelled>>
      /\ mem' = [f \in DOMAIN Idle |-> mem'[f]]
  BY <1>1 DEF Structure, Shapes, Evaluate, Idle
<1>3. UNCHANGED <<config, checkpoint, flag, crashes, reruns, logVars>>
  BY DEF Evaluate
<1> QED BY <1>2, <1>3

LEMMA EvaluateKeepsStructure ==
  ASSUME Structure, Evaluate
  PROVE  Structure'
<1>2. /\ mem.phase = "evaluating" /\ mem'.phase = "evaluated" /\ mem'.outcome \in Outcomes
      /\ mem'.budget = Spent(mem.budget, mem'.outcome)
      /\ UNCHANGED <<mem.strategy, mem.batches, mem.best, mem.next, mem.points, mem.generated, mem.fitness,
                     mem.cancelled>>
      /\ mem' = [f \in DOMAIN Idle |-> mem'[f]]
  BY EvaluateFacts
<1>3. UNCHANGED <<config, checkpoint, flag, crashes, reruns>>
  BY EvaluateFacts
<1>4. MemoryTypeOK'
  <2>1. mem'.phase \in Phases /\ mem'.outcome \in Outcomes \cup {NoOutcome} /\ mem'.cancelled \in BOOLEAN
    BY <1>2 DEF Phases, Structure, TypeOK, MemoryTypeOK
  <2>2. mem'.budget \in Budgets
    BY <1>2, SpentType DEF Structure, TypeOK, MemoryTypeOK
  <2>3. /\ IsHistory(mem'.batches) /\ mem'.best \in Incumbents
        /\ IsList(mem'.points) /\ mem'.generated \in 0..Len(mem'.points) /\ mem'.next \in Nat
        /\ mem'.fitness \in Seq(Nat) /\ Len(mem'.fitness) <= Len(mem'.points)
    BY <1>2 DEF Structure, TypeOK, MemoryTypeOK
  <2> QED BY <2>1, <2>2, <2>3 DEF MemoryTypeOK
<1>5. StoredTypeOK' /\ Shapes'
  BY <1>2, <1>3 DEF Structure, TypeOK, StoredTypeOK, Shapes
<1>6. Progress'
  BY <1>2 DEF Structure, Progress, InGeneration
<1>7. Histories'
  BY <1>2, <1>3 DEF Structure, Histories, Live
<1>8. Plans'
  BY <1>2, <1>3 DEF Structure, Plans, Live, InGeneration
<1> QED BY <1>4, <1>5, <1>6, <1>7, <1>8 DEF Structure, TypeOK

\* The candidate whose result is about to be logged.
Evaluated == [number |-> NextEvent.version - FirstVersion + 1,
              feasible |-> Feasible(mem.outcome), fitness |-> Fitness(mem.outcome)]

LEMMA EvaluatedFacts ==
  ASSUME Structure, mem.phase = "evaluated"
  PROVE  /\ Candidates(mem.batches) \in Nat /\ Len(mem.fitness) \in Nat
         /\ Len(mem.points) \in Nat /\ Len(mem.fitness) + 1 <= Len(mem.points)
         /\ NextEvent = Event("evaluated", FirstVersion + Candidates(mem.batches) + Len(mem.fitness),
                              mem.points[Len(mem.fitness) + 1], mem.outcome)
         /\ Evaluated.number = Candidates(mem.batches) + Len(mem.fitness) + 1
         /\ Evaluated.feasible = Feasible(mem.outcome) /\ Evaluated.fitness = Fitness(mem.outcome)
         /\ Evaluated \in Incumbents /\ mem.outcome \in Outcomes
<1>1. /\ Candidates(mem.batches) \in Nat /\ Len(mem.fitness) \in Nat /\ Len(mem.points) \in Nat
      /\ Len(mem.fitness) + 1 <= Len(mem.points)
  BY HistoryFacts, ListFacts DEF Structure, Histories, Progress, TypeOK, MemoryTypeOK
<1>2. mem.next = FirstVersion + Candidates(mem.batches) + Len(mem.points)
  BY DEF Structure, Histories, Progress, Live
<1>3. mem.next - Len(mem.points) + (Len(mem.fitness) + 1) - 1 = FirstVersion + Candidates(mem.batches) + Len(mem.fitness)
  BY <1>1, <1>2, ConstantTypes
<1>4. NextEvent = Event("evaluated", mem.next - Len(mem.points) + (Len(mem.fitness) + 1) - 1,
                        mem.points[Len(mem.fitness) + 1], mem.outcome)
  BY DEF NextEvent
<1>5. NextEvent = Event("evaluated", FirstVersion + Candidates(mem.batches) + Len(mem.fitness),
                        mem.points[Len(mem.fitness) + 1], mem.outcome)
  BY <1>3, <1>4
<1>6. NextEvent.version = FirstVersion + Candidates(mem.batches) + Len(mem.fitness)
  BY <1>5 DEF Event
<1>7. Evaluated.number = Candidates(mem.batches) + Len(mem.fitness) + 1
  BY <1>1, <1>6, ConstantTypes DEF Evaluated
<1>8. mem.outcome \in Outcomes
  BY DEF Structure, Progress
<1>9. Fitness(mem.outcome) \in Nat /\ Feasible(mem.outcome) \in BOOLEAN
  BY <1>8, FitnessType
<1>10. Evaluated.number \in Nat
  BY <1>1, <1>7
<1>11. Evaluated \in Incumbents
  BY <1>9, <1>10 DEF Evaluated, Incumbents
<1> QED BY <1>1, <1>5, <1>7, <1>8, <1>11 DEF Evaluated

\* What RecordCandidate does to the memory of the process.
LEMMA RecordFacts ==
  ASSUME Structure, RecordCandidate
  PROVE  /\ mem.phase = "evaluated" /\ Emit(NextEvent)
         /\ mem'.phase = IF Len(mem.fitness) + 1 = Len(mem.points) THEN "completing" ELSE "evaluating"
         /\ mem'.best = IF Better(Evaluated, mem.best) THEN Evaluated ELSE mem.best
         /\ mem'.fitness = Append(mem.fitness, Fitness(mem.outcome)) /\ mem'.outcome = NoOutcome
         /\ UNCHANGED <<mem.strategy, mem.batches, mem.budget, mem.next, mem.points, mem.generated, mem.cancelled>>
         /\ mem' = [f \in DOMAIN Idle |-> mem'[f]]
         /\ UNCHANGED <<config, checkpoint, flag, crashes, reruns>>
<1>1. /\ mem.phase = "evaluated" /\ Emit(NextEvent) /\ UNCHANGED <<config, checkpoint, flag, crashes, reruns>>
      /\ mem' = [mem EXCEPT !.best = IF Better(Evaluated, mem.best) THEN Evaluated ELSE mem.best,
                            !.fitness = Append(mem.fitness, Evaluated.fitness),
                            !.outcome = NoOutcome,
                            !.phase = IF Len(mem.fitness) + 1 = Len(mem.points) THEN "completing" ELSE "evaluating"]
  BY DEF RecordCandidate, Evaluated
<1> DEFINE next == IF Better(Evaluated, mem.best) THEN Evaluated ELSE mem.best
           phase == IF Len(mem.fitness) + 1 = Len(mem.points) THEN "completing" ELSE "evaluating"
           fitness == Append(mem.fitness, Evaluated.fitness)
<1>2. mem' = [mem EXCEPT !.best = next, !.fitness = fitness, !.outcome = NoOutcome, !.phase = phase]
  BY <1>1
<1>3. Evaluated.fitness = Fitness(mem.outcome)
  BY DEF Evaluated
<1> HIDE DEF next, phase, fitness
<1>4. /\ mem'.phase = phase /\ mem'.best = next /\ mem'.fitness = fitness /\ mem'.outcome = NoOutcome
      /\ UNCHANGED <<mem.strategy, mem.batches, mem.budget, mem.next, mem.points, mem.generated, mem.cancelled>>
      /\ mem' = [f \in DOMAIN Idle |-> mem'[f]]
  BY <1>2 DEF Structure, Shapes, Idle
<1> QED BY <1>1, <1>3, <1>4 DEF next, phase, fitness

LEMMA RecordKeepsStructure ==
  ASSUME Structure, RecordCandidate
  PROVE  Structure'
<1>1. /\ mem.phase = "evaluated"
      /\ mem'.phase = IF Len(mem.fitness) + 1 = Len(mem.points) THEN "completing" ELSE "evaluating"
      /\ mem'.best = IF Better(Evaluated, mem.best) THEN Evaluated ELSE mem.best
      /\ mem'.fitness = Append(mem.fitness, Fitness(mem.outcome)) /\ mem'.outcome = NoOutcome
      /\ UNCHANGED <<mem.strategy, mem.batches, mem.budget, mem.next, mem.points, mem.generated, mem.cancelled>>
      /\ mem' = [f \in DOMAIN Idle |-> mem'[f]]
      /\ UNCHANGED <<config, checkpoint, flag, crashes, reruns>>
  BY RecordFacts
<1>2. /\ Len(mem.fitness) \in Nat /\ Len(mem.points) \in Nat /\ Len(mem.fitness) + 1 <= Len(mem.points)
      /\ Evaluated \in Incumbents /\ mem.outcome \in Outcomes
  BY <1>1, EvaluatedFacts
<1>3. Fitness(mem.outcome) \in Nat
  BY <1>2, FitnessType
<1>4. mem'.fitness \in Seq(Nat) /\ Len(mem'.fitness) = Len(mem.fitness) + 1
  BY <1>1, <1>3 DEF Structure, TypeOK, MemoryTypeOK
<1>5. mem'.phase \in {"completing", "evaluating"}
      /\ (mem'.phase = "completing" => Len(mem.fitness) + 1 = Len(mem.points))
      /\ (mem'.phase = "evaluating" => Len(mem.fitness) + 1 < Len(mem.points))
  BY <1>1, <1>2
<1>6. MemoryTypeOK'
  <2>1. mem'.phase \in Phases /\ mem'.outcome \in Outcomes \cup {NoOutcome} /\ mem'.cancelled \in BOOLEAN
    BY <1>1, <1>5 DEF Phases, Structure, TypeOK, MemoryTypeOK
  <2>2. mem'.best \in Incumbents
    BY <1>1, <1>2 DEF Structure, TypeOK, MemoryTypeOK
  <2>3. /\ IsHistory(mem'.batches) /\ mem'.budget \in Budgets
        /\ IsList(mem'.points) /\ mem'.generated \in 0..Len(mem'.points) /\ mem'.next \in Nat
    BY <1>1 DEF Structure, TypeOK, MemoryTypeOK
  <2>4. mem'.fitness \in Seq(Nat) /\ Len(mem'.fitness) <= Len(mem'.points)
    BY <1>1, <1>2, <1>4
  <2> QED BY <2>1, <2>2, <2>3, <2>4 DEF MemoryTypeOK
<1>7. StoredTypeOK' /\ Shapes'
  BY <1>1 DEF Structure, TypeOK, StoredTypeOK, Shapes
<1>8. Progress'
  <2>1. mem.generated = Len(mem.points) /\ Len(mem.points) <= BatchSize
    BY <1>1 DEF Structure, Progress
  <2>2. Len(mem'.fitness) = Len(mem.fitness) + 1 /\ mem'.points = mem.points /\ mem'.generated = mem.generated
    BY <1>1, <1>4
  <2> QED BY <1>2, <1>5, <2>1, <2>2 DEF Progress, InGeneration
<1>9. Histories'
  BY <1>1, <1>5 DEF Structure, Histories, Live
<1>10. Plans'
  BY <1>1, <1>5 DEF Structure, Plans, Live, InGeneration
<1> QED BY <1>6, <1>7, <1>8, <1>9, <1>10 DEF Structure, TypeOK

\* What CompleteGeneration does to the memory of the process.
LEMMA CompleteFacts ==
  ASSUME Structure, CompleteGeneration
  PROVE  LET b == [points |-> mem.points, fitness |-> mem.fitness]
         IN /\ mem.phase = "completing" /\ mem'.phase = "saving" /\ Emit(NextEvent)
            /\ mem'.strategy = Tell(config.kind, mem.strategy, mem.points, mem.fitness)
            /\ mem'.batches = Append(mem.batches, b) /\ mem.batches = checkpoint.batches
            /\ mem'.points = << >> /\ mem'.generated = 0 /\ mem'.fitness = << >>
            /\ UNCHANGED <<mem.budget, mem.best, mem.next, mem.outcome, mem.cancelled>>
            /\ mem' = [f \in DOMAIN Idle |-> mem'[f]]
            /\ UNCHANGED <<config, checkpoint, flag, crashes, reruns>>
            /\ HistoryOK(mem.batches) /\ IsList(mem.points) /\ mem.fitness \in Seq(Nat)
            /\ Len(mem.fitness) = Len(mem.points) /\ Len(mem.points) \in 1..BatchSize
            /\ mem'.batches[Len(mem'.batches)] = b
            /\ HistoryOK(mem'.batches) /\ Candidates(mem'.batches) = Candidates(mem.batches) + Len(mem.points)
            /\ Candidates(mem.batches) \in Nat
<1> DEFINE b == [points |-> mem.points, fitness |-> mem.fitness]
           told == Tell(config.kind, mem.strategy, mem.points, mem.fitness)
           longer == Append(mem.batches, b)
<1>1. /\ mem.phase = "completing" /\ Emit(NextEvent) /\ UNCHANGED <<config, checkpoint, flag, crashes, reruns>>
      /\ mem' = [WithoutGeneration(mem) EXCEPT !.phase = "saving", !.strategy = told, !.batches = longer]
  <2>1. /\ WithoutGeneration(mem).strategy = mem.strategy /\ WithoutGeneration(mem).batches = mem.batches
    BY DEF WithoutGeneration, Structure, Shapes, Idle
  <2> QED BY <2>1 DEF CompleteGeneration
<1> HIDE DEF told, longer
<1>2. /\ mem'.phase = "saving" /\ mem'.strategy = told /\ mem'.batches = longer
      /\ mem'.points = << >> /\ mem'.generated = 0 /\ mem'.fitness = << >>
      /\ UNCHANGED <<mem.budget, mem.best, mem.next, mem.outcome, mem.cancelled>>
      /\ mem' = [f \in DOMAIN Idle |-> mem'[f]]
  BY <1>1 DEF Structure, Shapes, WithoutGeneration, Idle
<1>3. /\ HistoryOK(mem.batches) /\ IsList(mem.points) /\ mem.fitness \in Seq(Nat) /\ mem.batches = checkpoint.batches
      /\ Len(mem.fitness) = Len(mem.points) /\ Len(mem.points) <= BatchSize /\ Len(mem.points) # 0
  BY <1>1 DEF Structure, Histories, Progress, TypeOK, MemoryTypeOK, Live
<1>4. Len(mem.points) \in 1..BatchSize
  BY <1>3, ListFacts, ConstantTypes
<1>5. HistoryOK(longer) /\ Candidates(longer) = Candidates(mem.batches) + Len(mem.points)
  BY <1>3, LongerHistory DEF longer
<1>6. longer[Len(longer)] = b
  BY <1>3, AppendList, HistoryFacts DEF longer
<1>7. Candidates(mem.batches) \in Nat
  BY <1>3, HistoryFacts
<1> QED BY <1>1, <1>2, <1>3, <1>4, <1>5, <1>6, <1>7 DEF told, longer

LEMMA CompleteKeepsStructure ==
  ASSUME Structure, CompleteGeneration
  PROVE  Structure'
<1> DEFINE b == [points |-> mem.points, fitness |-> mem.fitness]
<1>1. /\ mem.phase = "completing" /\ mem'.phase = "saving"
      /\ mem'.strategy = Tell(config.kind, mem.strategy, mem.points, mem.fitness)
      /\ mem'.batches = Append(mem.batches, b) /\ mem.batches = checkpoint.batches
      /\ mem'.points = << >> /\ mem'.generated = 0 /\ mem'.fitness = << >>
      /\ UNCHANGED <<mem.budget, mem.best, mem.next, mem.outcome, mem.cancelled>>
      /\ mem' = [f \in DOMAIN Idle |-> mem'[f]]
      /\ UNCHANGED <<config, checkpoint, flag, crashes, reruns>>
  BY CompleteFacts
<1>2. /\ HistoryOK(mem.batches) /\ IsList(mem.points) /\ mem.fitness \in Seq(Nat)
      /\ Len(mem.fitness) = Len(mem.points) /\ Len(mem.points) \in 1..BatchSize
      /\ mem'.batches[Len(mem'.batches)] = b
      /\ HistoryOK(mem'.batches) /\ Candidates(mem'.batches) = Candidates(mem.batches) + Len(mem.points)
      /\ Candidates(mem.batches) \in Nat
  BY CompleteFacts
<1>3. IsList(<< >>) /\ Len(<< >>) = 0
  BY EmptyHistory DEF HistoryOK, IsHistory
<1>4. MemoryTypeOK'
  <2>1. mem'.phase \in Phases /\ mem'.outcome \in Outcomes \cup {NoOutcome} /\ mem'.cancelled \in BOOLEAN
    BY <1>1 DEF Phases, Structure, TypeOK, MemoryTypeOK
  <2>2. IsHistory(mem'.batches) /\ mem'.budget \in Budgets /\ mem'.best \in Incumbents /\ mem'.next \in Nat
    BY <1>1, <1>2 DEF HistoryOK, Structure, TypeOK, MemoryTypeOK
  <2>3. IsList(mem'.points) /\ mem'.generated \in 0..Len(mem'.points)
    BY <1>1, <1>3
  <2>4. mem'.fitness \in Seq(Nat) /\ Len(mem'.fitness) <= Len(mem'.points)
    BY <1>1
  <2> QED BY <2>1, <2>2, <2>3, <2>4 DEF MemoryTypeOK
<1>5. StoredTypeOK' /\ Shapes'
  BY <1>1 DEF Structure, TypeOK, StoredTypeOK, Shapes
<1>6. Progress'
  BY <1>1, <1>3, ConstantTypes DEF Progress, InGeneration
<1>7. Newest' = b /\ b.points = mem.points /\ b.fitness = mem.fitness
  BY <1>2 DEF Newest
<1>8. OneMore'
  <2> HIDE DEF b
  <2>1. b = [points |-> b.points, fitness |-> b.fitness]
    BY DEF b
  <2> QED BY <1>1, <1>2, <1>7, <2>1 DEF OneMore
<1>9. Histories'
  <2>1. mem.next = FirstVersion + Candidates(mem.batches) + Len(mem.points)
    BY <1>1 DEF Structure, Histories, Progress, Live
  <2>2. Len(mem.points) \in Nat
    BY <1>2
  <2>3. mem'.next = FirstVersion + Candidates(mem'.batches) + mem'.generated
    BY <1>1, <1>2, <2>1, <2>2, ConstantTypes
  <2> QED BY <1>1, <1>2, <1>8, <2>3 DEF Structure, Histories, Live
<1>10. Plans'
  <2> DEFINE after == StrategyAfter(config.kind, mem.batches)
  <2>1. /\ config.kind \in Kinds /\ StrategyOK(config.kind, after)
        /\ mem.strategy = AfterAsk(config.kind, after, Len(mem.points))
        /\ Proposed(config.kind, mem.batches, mem.points)
        /\ StrategyOK(config.kind, StrategyAfter(config.kind, checkpoint.batches))
    BY <1>1 DEF Structure, Plans, TypeOK, StoredTypeOK, InGeneration, Live
  <2>2. Len(b.points) \in Nat
    BY <1>2
  <2>3. StrategyAfter(config.kind, Append(mem.batches, b)) = Continued(config.kind, after, b)
    BY <1>2, HistoryFacts, StrategyAfterSteps
  <2>4. Continued(config.kind, after, b) = mem'.strategy
    BY <1>1, <2>1 DEF Continued
  <2>5. StrategyOK(config.kind, mem'.strategy)
    <3>1. StrategyOK(config.kind, mem.strategy)
      <4> HIDE DEF after
      <4> QED BY <1>2, <2>1, <2>2, AskKeepsStrategy
    <3> QED BY <1>1, <1>2, <2>1, <3>1, TellKeepsStrategy
  <2>6. Proposed(config.kind, checkpoint.batches, b.points)
    BY <1>1, <2>1
  <2> HIDE DEF b, after
  <2> QED BY <1>1, <1>7, <2>1, <2>3, <2>4, <2>5, <2>6 DEF Plans, Live, InGeneration
<1> QED BY <1>4, <1>5, <1>6, <1>9, <1>10 DEF Structure, TypeOK

\* The checkpoint takes over what is in memory.
LEMMA SaveFacts ==
  ASSUME Structure, SaveGeneration \/ Stop
  PROVE  /\ mem.phase \in {"saving", "stopping"} /\ mem'.phase \in {"looping", "stopping", "stopped"}
         /\ checkpoint'.status \in {"running", "completed", "cancelled"}
         /\ checkpoint'.batches = mem.batches /\ checkpoint'.budget = mem.budget /\ checkpoint'.best = mem.best
         /\ UNCHANGED <<mem.strategy, mem.batches, mem.budget, mem.best, mem.next, mem.points, mem.generated,
                        mem.fitness, mem.outcome, mem.cancelled>>
         /\ UNCHANGED <<config, crashes, reruns, logVars>> /\ flag' \in BOOLEAN
         /\ Shapes'
<1>1. mem = [f \in DOMAIN Idle |-> mem[f]] /\ flag \in BOOLEAN /\ mem.cancelled \in BOOLEAN
  BY DEF Structure, Shapes, TypeOK, StoredTypeOK, MemoryTypeOK
<1>2. CASE SaveGeneration
  <2> DEFINE phase == IF Settled THEN "stopping" ELSE "looping"
  <2>1. /\ mem.phase = "saving" /\ mem' = [mem EXCEPT !.phase = phase] /\ checkpoint' = Saved("running")
        /\ UNCHANGED <<config, flag, crashes, reruns, logVars>>
    BY <1>2 DEF SaveGeneration
  <2>2. phase \in {"looping", "stopping"}
    OBVIOUS
  <2> HIDE DEF phase
  <2>3. /\ mem'.phase = phase
        /\ UNCHANGED <<mem.strategy, mem.batches, mem.budget, mem.best, mem.next, mem.points, mem.generated,
                       mem.fitness, mem.outcome, mem.cancelled>>
        /\ mem' = [f \in DOMAIN Idle |-> mem'[f]]
    BY <1>1, <2>1 DEF Idle
  <2>4. /\ checkpoint'.status = "running" /\ checkpoint'.batches = mem.batches /\ checkpoint'.budget = mem.budget
        /\ checkpoint'.best = mem.best
        /\ checkpoint' = [status |-> checkpoint'.status, batches |-> checkpoint'.batches,
                          budget |-> checkpoint'.budget, best |-> checkpoint'.best]
    BY <2>1 DEF Saved
  <2> QED BY <1>1, <2>1, <2>2, <2>3, <2>4 DEF Shapes
<1>3. CASE Stop
  <2> DEFINE status == IF mem.cancelled THEN "cancelled" ELSE "completed"
  <2>1. /\ mem.phase = "stopping" /\ mem' = [mem EXCEPT !.phase = "stopped"] /\ checkpoint' = Saved(status)
        /\ UNCHANGED <<config, crashes, reruns, logVars>>
    BY <1>3 DEF Stop
  <2>0. flag' \in BOOLEAN
    BY <1>3 DEF Stop
  <2>2. status \in {"cancelled", "completed"}
    OBVIOUS
  <2> HIDE DEF status
  <2>3. /\ mem'.phase = "stopped"
        /\ UNCHANGED <<mem.strategy, mem.batches, mem.budget, mem.best, mem.next, mem.points, mem.generated,
                       mem.fitness, mem.outcome, mem.cancelled>>
        /\ mem' = [f \in DOMAIN Idle |-> mem'[f]]
    BY <1>1, <2>1 DEF Idle
  <2>4. /\ checkpoint'.status = status /\ checkpoint'.batches = mem.batches /\ checkpoint'.budget = mem.budget
        /\ checkpoint'.best = mem.best
        /\ checkpoint' = [status |-> checkpoint'.status, batches |-> checkpoint'.batches,
                          budget |-> checkpoint'.budget, best |-> checkpoint'.best]
    BY <2>1 DEF Saved
  <2> QED BY <2>0, <2>1, <2>2, <2>3, <2>4 DEF Shapes
<1> QED BY <1>2, <1>3

LEMMA SaveKeepsStructure ==
  ASSUME Structure, SaveGeneration \/ Stop
  PROVE  Structure'
<1>1. /\ mem.phase \in {"saving", "stopping"} /\ mem'.phase \in {"looping", "stopping", "stopped"}
      /\ checkpoint'.status \in {"running", "completed", "cancelled"}
      /\ checkpoint'.batches = mem.batches /\ checkpoint'.budget = mem.budget /\ checkpoint'.best = mem.best
      /\ UNCHANGED <<mem.strategy, mem.batches, mem.budget, mem.best, mem.next, mem.points, mem.generated,
                     mem.fitness, mem.outcome, mem.cancelled>>
      /\ UNCHANGED <<config, crashes, reruns>> /\ flag' \in BOOLEAN
      /\ Shapes'
  BY SaveFacts
<1>2. MemoryTypeOK'
  BY <1>1 DEF Structure, TypeOK, MemoryTypeOK, Phases
<1>3. StoredTypeOK'
  BY <1>1 DEF Structure, TypeOK, StoredTypeOK, MemoryTypeOK
<1>4. Progress'
  BY <1>1 DEF Structure, Progress, InGeneration
<1>5. Histories'
  BY <1>1 DEF Structure, Histories, Live
<1>6. Plans'
  BY <1>1 DEF Structure, Plans, Live, InGeneration
<1> QED BY <1>1, <1>2, <1>3, <1>4, <1>5, <1>6 DEF Structure, TypeOK

\* A step that only asks for a cancel, or none at all.
LEMMA RequestKeepsStructure ==
  ASSUME Structure, UNCHANGED <<config, checkpoint, mem, crashes, reruns>>, flag' \in BOOLEAN
  PROVE  Structure'
<1>1. StoredTypeOK' /\ MemoryTypeOK'
  BY DEF Structure, TypeOK, StoredTypeOK, MemoryTypeOK
<1>2. Shapes' /\ Progress'
  BY DEF Structure, Shapes, Progress, InGeneration
<1>3. Histories' /\ Plans'
  BY DEF Structure, Histories, Plans, OneMore, Newest, Live, InGeneration
<1> QED BY <1>1, <1>2, <1>3 DEF Structure, TypeOK

LEMMA NextKeepsStructure ==
  ASSUME Structure, [Next]_vars
  PROVE  Structure'
<1>1. CASE RequestCancel
  BY <1>1, RequestKeepsStructure DEF RequestCancel
<1>2. CASE UNCHANGED vars
  BY <1>2, RequestKeepsStructure DEF vars, Structure, TypeOK, StoredTypeOK
<1> QED BY <1>1, <1>2, OpenKeepsStructure, BeginFreshKeepsStructure, ResumeKeepsStructure,
           StoppingKeepsStructure, AskBatchKeepsStructure, GenerateCandidateKeepsStructure,
           EvaluateKeepsStructure, RecordKeepsStructure, CompleteKeepsStructure, SaveKeepsStructure,
           EmitStoppedKeepsStructure, CrashKeepsStructure
        DEF Next

(* Whatever happens to its processes, a search has a state of its own type:  *)
(* no generation has more fitness values than points, in memory or on disk.  *)
THEOREM TypeCorrect == Spec => []TypeOK
<1>1. Structure /\ [Next]_vars => Structure'
  BY NextKeepsStructure
<1>2. Structure => TypeOK
  BY DEF Structure
<1> QED BY InitStructure, <1>1, <1>2, PTL DEF Spec

-----------------------------------------------------------------------------
(* The budget *)

\* How many evaluations a list of events has.
Evaluations(events) == Cardinality({i \in DOMAIN events : events[i].type = "evaluated"})

\* The candidate in hand has been paid for, and is not on record.
Paid == IF mem.phase = "evaluated" THEN 1 ELSE 0

Unpaid == Len(mem.points) - Len(mem.fitness) - Paid

\* Everything on record was paid for and allowed; what is asked for is allowed, and what is still
\* to be paid for it leaves the requests below the limit of the loop and one generation more.
Budgeted ==
  /\ checkpoint.budget.candidates = Candidates(checkpoint.batches)
  /\ Candidates(checkpoint.batches) <= config.maxCandidates
  /\ checkpoint.budget.requests < MaxRequests + BatchSize * Challenges
  /\ Live => /\ mem.budget.candidates = Candidates(mem.batches) + Len(mem.fitness) + Paid
             /\ Candidates(mem.batches) + Len(mem.points) <= config.maxCandidates
             /\ mem.budget.requests + Unpaid * Challenges < MaxRequests + BatchSize * Challenges

\* Every evaluation in the log is on record, of the generation in hand, or was lost in a crash.
Counted ==
  /\ ~ Live => Evaluations(emitted) <= Candidates(checkpoint.batches) + crashes * BatchSize
  /\ Live => Evaluations(emitted) <= Candidates(mem.batches) + Len(mem.fitness) + crashes * BatchSize

\* One event more is one evaluation more, or none.
LEMMA CountAppend ==
  ASSUME NEW events, IsList(events), NEW e
  PROVE  /\ Evaluations(events) \in Nat
         /\ Evaluations(Append(events, e)) = IF e.type = "evaluated" THEN Evaluations(events) + 1 ELSE Evaluations(events)
<1> DEFINE E == {i \in DOMAIN events : events[i].type = "evaluated"}
           more == Append(events, e)
           F == {i \in DOMAIN more : more[i].type = "evaluated"}
           n == Len(events)
<1>1. n \in Nat /\ DOMAIN events = 1..n /\ DOMAIN more = 1..(n + 1) /\ more[n + 1] = e
      /\ \A i \in 1..n : more[i] = events[i]
  BY AppendList, ListFacts
<1>2. IsFiniteSet(1..n)
  BY <1>1, FS_Interval
<1>3. IsFiniteSet(E) /\ Cardinality(E) \in Nat
  BY <1>1, <1>2, FS_Subset, FS_CardinalityType
<1>4. n + 1 \notin E
  BY <1>1
<1>5. F = IF e.type = "evaluated" THEN E \cup {n + 1} ELSE E
  <2> HIDE DEF n, more
  <2> QED BY <1>1
<1>6. Cardinality(E \cup {n + 1}) = Cardinality(E) + 1
  BY <1>3, <1>4, FS_AddElement
<1> QED BY <1>3, <1>5, <1>6 DEF Evaluations

LEMMA EvaluationsEmpty == Evaluations(<< >>) = 0
<1>1. {i \in DOMAIN << >> : << >>[i].type = "evaluated"} = {}
  OBVIOUS
<1> QED BY <1>1, FS_EmptySet DEF Evaluations

\* Only RecordCandidate logs an evaluation.
LEMMA EventTypes ==
  ASSUME mem.phase \in {"opened", "generating", "evaluated", "completing", "stopped"}
  PROVE  NextEvent.type = "evaluated" <=> mem.phase = "evaluated"
BY DEF NextEvent, Milestone, Event

\* The numbers of a search.
LEMMA SearchNumbers ==
  ASSUME Structure
  PROVE  /\ Candidates(checkpoint.batches) \in Nat /\ Candidates(mem.batches) \in Nat
         /\ Len(mem.points) \in Nat /\ Len(mem.fitness) \in Nat /\ crashes \in Nat
         /\ config.maxCandidates \in Nat
         /\ mem.budget.candidates \in Nat /\ mem.budget.requests \in Nat
         /\ checkpoint.budget.candidates \in Nat /\ checkpoint.budget.requests \in Nat
<1>1. /\ IsList(mem.points) /\ mem.fitness \in Seq(Nat) /\ crashes \in 0..MaxCrashes
      /\ mem.budget \in Budgets /\ checkpoint.budget \in Budgets /\ config.maxCandidates \in Nat
  BY DEF Structure, TypeOK, StoredTypeOK, MemoryTypeOK
<1>2. /\ mem.budget.candidates \in Nat /\ mem.budget.requests \in Nat
      /\ checkpoint.budget.candidates \in Nat /\ checkpoint.budget.requests \in Nat
  BY <1>1 DEF Budgets
<1>3. Candidates(checkpoint.batches) \in Nat /\ Candidates(mem.batches) \in Nat
  BY HistoryFacts DEF Structure, Histories
<1>4. Len(mem.points) \in Nat /\ Len(mem.fitness) \in Nat /\ crashes \in Nat
  BY <1>1, ConstantTypes, ListFacts
<1> QED BY <1>1, <1>2, <1>3, <1>4

\* Where there is no generation, nothing is unpaid.
LEMMA NothingUnpaid ==
  ASSUME Structure, ~ InGeneration
  PROVE  Len(mem.points) = 0 /\ Len(mem.fitness) = 0 /\ Paid = 0 /\ Unpaid = 0
<1>1. mem.points = << >> /\ mem.fitness = << >>
  BY DEF Structure, Progress
<1>2. Paid = 0
  BY DEF InGeneration, Paid
<1> QED BY <1>1, <1>2 DEF Unpaid

LEMMA NothingUnpaidNext ==
  ASSUME Structure', ~ InGeneration'
  PROVE  Len(mem'.points) = 0 /\ Len(mem'.fitness) = 0 /\ Paid' = 0 /\ Unpaid' = 0
<1>1. mem'.points = << >> /\ mem'.fitness = << >>
  BY DEF Structure, Progress
<1>2. Paid' = 0
  BY DEF InGeneration, Paid
<1> QED BY <1>1, <1>2 DEF Unpaid

LEMMA RoomForOneGeneration ==
  /\ BatchSize * Challenges \in Nat /\ 0 < BatchSize * Challenges
  /\ \A n \in 0..BatchSize : n * Challenges \in Nat /\ n * Challenges <= BatchSize * Challenges
<1>1. BatchSize \in Nat /\ BatchSize >= 1 /\ Challenges \in Nat /\ Challenges >= 1
  BY ConstantTypes
<1>2. \A a, b, c \in Nat : a <= b => a * c \in Nat /\ a * c <= b * c
  OBVIOUS
<1>3. BatchSize * Challenges \in Nat /\ 1 * Challenges <= BatchSize * Challenges
  BY <1>1, <1>2
<1> QED BY <1>1, <1>2, <1>3

\* A step without a process before and after, or that starts or loses one.
LEMMA NoProcess ==
  ASSUME Structure, Open \/ ResumeWithMore \/ Crash \/ EmitStopped
  PROVE  /\ ~ Live' /\ UNCHANGED checkpoint /\ config'.kind = config.kind
         /\ \/ config' = config
            \/ config'.maxCandidates >= Candidates(checkpoint.batches) /\ ~ Live
<1>1. CASE Open
  BY <1>1 DEF Open, Idle, Live
<1>2. CASE ResumeWithMore
  <2> DEFINE more == Candidates(checkpoint.batches) + ExtraCandidates
             batches == Max({config.maxBatches, Len(checkpoint.batches) + CeilDiv(ExtraCandidates, BatchSize)})
  <2>1. /\ mem' = [Idle EXCEPT !.phase = "opened"] /\ UNCHANGED checkpoint
        /\ config' = [config EXCEPT !.maxCandidates = more, !.maxBatches = batches] /\ mem.phase = "idle"
    BY <1>2 DEF ResumeWithMore
  <2>2. config \in [kind : Kinds, maxCandidates : Nat, maxBatches : Nat]
    BY DEF Structure, TypeOK, StoredTypeOK
  <2>3. more >= Candidates(checkpoint.batches)
    BY SearchNumbers, ConstantTypes
  <2> HIDE DEF more, batches
  <2>4. config'.kind = config.kind /\ config'.maxCandidates = more
    BY <2>1, <2>2
  <2>5. ~ Live /\ ~ Live'
    BY <2>1 DEF Live, Idle
  <2> QED BY <2>1, <2>3, <2>4, <2>5
<1>3. CASE Crash \/ EmitStopped
  <2>1. mem' = Idle /\ config' = config /\ checkpoint' = checkpoint
    BY <1>3 DEF Crash, EmitStopped
  <2>2. ~ Live'
    BY <2>1 DEF Idle, Live
  <2> QED BY <2>1, <2>2
<1> QED BY <1>1, <1>2, <1>3

LEMMA InitBudget == Init => Budgeted /\ Counted
<1> SUFFICES ASSUME Init PROVE Budgeted /\ Counted
  OBVIOUS
<1>1. Structure
  BY InitStructure
<1>2. /\ mem.phase = "idle" /\ checkpoint.batches = << >> /\ checkpoint.budget = NoBudget /\ crashes = 0
      /\ emitted = << >> /\ config.maxCandidates = MaxCandidates
  BY DEF Init, Idle, LogInit
<1>3. ~ Live
  BY <1>2 DEF Live
<1>4. Budgeted
  <2>1. 0 < MaxRequests + BatchSize * Challenges
    BY RoomForOneGeneration, ConstantTypes
  <2>2. config.maxCandidates \in Nat
    BY <1>1, SearchNumbers
  <2>3. checkpoint.budget.candidates = 0 /\ checkpoint.budget.requests = 0 /\ Candidates(checkpoint.batches) = 0
    BY <1>2, EmptyHistory DEF NoBudget
  <2> QED BY <1>3, <2>1, <2>2, <2>3 DEF Budgeted
<1>5. Counted
  <2>1. Evaluations(emitted) = 0 /\ Candidates(checkpoint.batches) = 0 /\ crashes * BatchSize = 0
    BY <1>2, EvaluationsEmpty, EmptyHistory, ConstantTypes
  <2> QED BY <1>3, <2>1 DEF Counted
<1> QED BY <1>4, <1>5

LEMMA NextKeepsBudget ==
  ASSUME Structure, Structure', Budgeted, [Next]_vars
  PROVE  Budgeted'
<1>0. /\ checkpoint.budget.candidates = Candidates(checkpoint.batches)
      /\ Candidates(checkpoint.batches) <= config.maxCandidates
      /\ checkpoint.budget.requests < MaxRequests + BatchSize * Challenges
  BY DEF Budgeted
<1>1. CASE Open \/ ResumeWithMore \/ Crash \/ EmitStopped
  <2>1. ~ Live' /\ UNCHANGED checkpoint
        /\ (config' = config \/ config'.maxCandidates >= Candidates(checkpoint.batches))
    BY <1>1, NoProcess
  <2>2. Candidates(checkpoint'.batches) <= config'.maxCandidates
    BY <1>0, <2>1, SearchNumbers
  <2> QED BY <1>0, <2>1, <2>2 DEF Budgeted
<1>2. CASE BeginFresh
  <2>1. /\ UNCHANGED <<config, checkpoint>> /\ mem'.phase = "looping"
        /\ mem'.batches = checkpoint.batches /\ mem'.budget = checkpoint.budget
    BY <1>2, BeginFreshFacts
  <2>2. ~ InGeneration'
    BY <2>1 DEF InGeneration
  <2>3. Len(mem'.points) = 0 /\ Len(mem'.fitness) = 0 /\ Paid' = 0 /\ Unpaid' = 0
    BY <2>2, NothingUnpaidNext
  <2> QED BY <1>0, <2>1, <2>3, SearchNumbers, ConstantTypes DEF Budgeted
<1>3. CASE Resume
  <2>1. /\ UNCHANGED config /\ mem'.phase = "looping" /\ mem'.batches = checkpoint.batches
        /\ mem'.budget = checkpoint.budget
        /\ checkpoint'.batches = checkpoint.batches /\ checkpoint'.budget = checkpoint.budget
    BY <1>3, ResumeFacts
  <2>2. ~ InGeneration'
    BY <2>1 DEF InGeneration
  <2>3. Len(mem'.points) = 0 /\ Len(mem'.fitness) = 0 /\ Paid' = 0 /\ Unpaid' = 0
    BY <2>2, NothingUnpaidNext
  <2> QED BY <1>0, <2>1, <2>3, SearchNumbers, ConstantTypes DEF Budgeted
<1>4. CASE TakeCancel \/ ReachLimit \/ RunOut
  <2>1. /\ UNCHANGED <<config, checkpoint>> /\ mem.phase = "looping" /\ mem'.phase = "stopping"
        /\ UNCHANGED <<mem.batches, mem.budget, mem.points, mem.fitness>>
    BY <1>4, StoppingFacts
  <2>2. Paid = 0 /\ Paid' = 0 /\ Live
    BY <2>1 DEF Paid, Live
  <2> QED BY <2>1, <2>2 DEF Budgeted, Unpaid
<1>5. CASE AskBatch
  <2>1. /\ UNCHANGED <<config, checkpoint>> /\ mem.phase = "looping" /\ mem'.phase = "generating"
        /\ UNCHANGED <<mem.batches, mem.budget, mem.fitness>> /\ mem'.points = Proposal /\ ~ LimitReached
        /\ Len(Proposal) \in Nat /\ Len(Proposal) <= BatchToAsk /\ BatchToAsk \in 1..BatchSize
        /\ BatchToAsk <= config.maxCandidates - mem.budget.candidates
    BY <1>5, AskFacts
  <2>2. Paid = 0 /\ Paid' = 0 /\ Live /\ ~ InGeneration
    BY <2>1 DEF Paid, Live, InGeneration
  <2>3. Len(mem.fitness) = 0 /\ Unpaid' = Len(Proposal)
    BY <2>1, <2>2, NothingUnpaid DEF Unpaid
  <2>4. mem.budget.requests < MaxRequests
    <3>1. mem.budget.requests \in Nat /\ MaxRequests \in Nat
      BY SearchNumbers, ConstantTypes
    <3>2. ~ (mem.budget.requests >= MaxRequests)
      BY <2>1 DEF LimitReached, Exhausted
    <3> QED BY <3>1, <3>2
  <2>5. Len(Proposal) \in 0..BatchSize
    BY <2>1, ConstantTypes
  <2>6. Len(Proposal) * Challenges \in Nat /\ Len(Proposal) * Challenges <= BatchSize * Challenges
    BY <2>5, RoomForOneGeneration
  <2>7. mem'.budget.requests + Unpaid' * Challenges < MaxRequests + BatchSize * Challenges
    <3> DEFINE asked == Len(Proposal) * Challenges
               room == BatchSize * Challenges
    <3>1. /\ mem'.budget.requests = mem.budget.requests /\ Unpaid' * Challenges = asked
          /\ mem.budget.requests \in Nat /\ MaxRequests \in Nat
          /\ asked \in Nat /\ room \in Nat /\ asked <= room
      BY <2>1, <2>3, <2>6, SearchNumbers, ConstantTypes, RoomForOneGeneration
    <3> HIDE DEF asked, room
    <3>2. mem.budget.requests + asked < MaxRequests + room
      BY <2>4, <3>1
    <3> QED BY <3>1, <3>2 DEF room
  <2>8. Candidates(mem'.batches) + Len(mem'.points) <= config'.maxCandidates
    BY <2>1, <2>2, <2>3, SearchNumbers DEF Budgeted
  <2> QED BY <2>1, <2>2, <2>7, <2>8 DEF Budgeted
<1>6. CASE GenerateCandidate
  <2>1. /\ UNCHANGED <<config, checkpoint>> /\ mem.phase = "generating"
        /\ mem'.phase \in {"generating", "evaluating"}
        /\ UNCHANGED <<mem.batches, mem.budget, mem.points, mem.fitness>>
    BY <1>6, GenerateFacts
  <2>2. Paid = 0 /\ Paid' = 0 /\ Live
    BY <2>1 DEF Paid, Live
  <2> QED BY <2>1, <2>2 DEF Budgeted, Unpaid
<1>7. CASE Evaluate
  <2>1. /\ UNCHANGED <<config, checkpoint>> /\ mem.phase = "evaluating" /\ mem'.phase = "evaluated"
        /\ UNCHANGED <<mem.batches, mem.points, mem.fitness>> /\ mem'.budget = Spent(mem.budget, mem'.outcome)
    BY <1>7, EvaluateFacts
  <2>2. Paid = 0 /\ Paid' = 1 /\ Live
    BY <2>1 DEF Paid, Live
  <2>3. mem'.budget.candidates = mem.budget.candidates + 1
        /\ mem'.budget.requests = mem.budget.requests + Challenges
    BY <2>1 DEF Spent
  <2>4. Unpaid \in Int /\ Unpaid' = Unpaid - 1
    BY <2>1, <2>2, SearchNumbers DEF Unpaid
  <2>5. \A u, c \in Int : (u - 1) * c = u * c - c
    OBVIOUS
  <2>6. Unpaid' * Challenges = Unpaid * Challenges - Challenges
    BY <2>4, <2>5, ConstantTypes
  <2>7. Unpaid * Challenges \in Int
    BY <2>4, ConstantTypes
  <2>8. mem'.budget.requests + Unpaid' * Challenges = mem.budget.requests + Unpaid * Challenges
    BY <2>3, <2>6, <2>7, SearchNumbers, ConstantTypes
  <2>9. mem'.budget.candidates = Candidates(mem'.batches) + Len(mem'.fitness) + Paid'
    BY <2>1, <2>2, <2>3, SearchNumbers DEF Budgeted
  <2> QED BY <2>1, <2>2, <2>8, <2>9 DEF Budgeted
<1>8. CASE RecordCandidate
  <2>1. /\ UNCHANGED <<config, checkpoint>> /\ mem.phase = "evaluated" /\ mem'.phase \in {"evaluating", "completing"}
        /\ UNCHANGED <<mem.batches, mem.budget, mem.points>>
        /\ mem'.fitness = Append(mem.fitness, Fitness(mem.outcome))
    BY <1>8, RecordFacts
  <2>2. Paid = 1 /\ Paid' = 0 /\ Live
    BY <2>1 DEF Paid, Live
  <2>3. Len(mem'.fitness) = Len(mem.fitness) + 1
    BY <2>1 DEF Structure, TypeOK, MemoryTypeOK
  <2>4. Unpaid' = Unpaid
    BY <2>1, <2>2, <2>3, SearchNumbers DEF Unpaid
  <2>5. mem'.budget.candidates = Candidates(mem'.batches) + Len(mem'.fitness) + Paid'
    BY <2>1, <2>2, <2>3, SearchNumbers DEF Budgeted
  <2> QED BY <2>1, <2>2, <2>4, <2>5 DEF Budgeted
<1>9. CASE CompleteGeneration
  <2>1. /\ UNCHANGED <<config, checkpoint>> /\ mem.phase = "completing" /\ mem'.phase = "saving"
        /\ Candidates(mem'.batches) = Candidates(mem.batches) + Len(mem.points)
        /\ Len(mem.fitness) = Len(mem.points) /\ UNCHANGED mem.budget
    BY <1>9, CompleteFacts
  <2>2. Paid = 0 /\ Live /\ ~ InGeneration'
    BY <2>1 DEF Paid, Live, InGeneration
  <2>3. Len(mem'.points) = 0 /\ Len(mem'.fitness) = 0 /\ Paid' = 0 /\ Unpaid' = 0 /\ Unpaid = 0
    BY <2>1, <2>2, NothingUnpaidNext, SearchNumbers DEF Unpaid
  <2> QED BY <1>0, <2>1, <2>2, <2>3, SearchNumbers DEF Budgeted
<1>10. CASE SaveGeneration \/ Stop
  <2>1. /\ UNCHANGED config /\ mem.phase \in {"saving", "stopping"}
        /\ mem'.phase \in {"looping", "stopping", "stopped"}
        /\ checkpoint'.batches = mem.batches /\ checkpoint'.budget = mem.budget
        /\ UNCHANGED <<mem.batches, mem.budget>>
    BY <1>10, SaveFacts
  <2>2. Live /\ ~ InGeneration /\ ~ InGeneration'
    BY <2>1 DEF Live, InGeneration
  <2>3. Len(mem.points) = 0 /\ Len(mem.fitness) = 0 /\ Paid = 0 /\ Unpaid = 0
    BY <2>2, NothingUnpaid
  <2>4. Len(mem'.points) = 0 /\ Len(mem'.fitness) = 0 /\ Paid' = 0 /\ Unpaid' = 0
    BY <2>2, NothingUnpaidNext
  <2> QED BY <2>1, <2>2, <2>3, <2>4, SearchNumbers, ConstantTypes DEF Budgeted
<1>11. CASE RequestCancel \/ UNCHANGED vars
  <2>1. UNCHANGED <<config, checkpoint, mem>>
    BY <1>11 DEF RequestCancel, vars
  <2> QED BY <2>1 DEF Budgeted, Live, Paid, Unpaid
<1> QED BY <1>1, <1>2, <1>3, <1>4, <1>5, <1>6, <1>7, <1>8, <1>9, <1>10, <1>11 DEF Next

LEMMA NextKeepsCount ==
  ASSUME Structure, Structure', LogInv, Counted, [Next]_vars
  PROVE  Counted'
<1>0. /\ IsList(emitted)
      /\ \A e : /\ Evaluations(emitted) \in Nat
                /\ Evaluations(Append(emitted, e)) = IF e.type = "evaluated" THEN Evaluations(emitted) + 1
                                                     ELSE Evaluations(emitted)
  BY CountAppend DEF LogInv
<1>1. CASE Open \/ ResumeWithMore
  <2>1. ~ Live /\ ~ Live' /\ UNCHANGED <<checkpoint, crashes, emitted>>
    BY <1>1, NoProcess DEF Open, ResumeWithMore, OpenLog, Live
  <2> QED BY <2>1 DEF Counted
<1>2. CASE EmitStopped
  <2>1. ~ Live' /\ UNCHANGED <<checkpoint, crashes>> /\ mem.phase = "stopped" /\ emitted' = Append(emitted, NextEvent)
    BY <1>2, NoProcess DEF EmitStopped, Emit
  <2>2. Live /\ mem.batches = checkpoint.batches /\ Len(mem.fitness) = 0
    BY <2>1 DEF Live, Structure, Histories, Progress, InGeneration
  <2>3. Evaluations(emitted') = Evaluations(emitted)
    BY <1>0, <2>1, EventTypes
  <2> QED BY <2>1, <2>2, <2>3, SearchNumbers, ConstantTypes DEF Counted
<1>3. CASE Crash
  <2>1. ~ Live' /\ UNCHANGED checkpoint /\ crashes' = crashes + 1 /\ crashes \in Nat
    BY <1>3, NoProcess, SearchNumbers DEF Crash
  <2> DEFINE lost == crashes * BatchSize
  <2>2. crashes' * BatchSize = lost + BatchSize /\ lost \in Nat
    <3>1. \A c, n \in Nat : (c + 1) * n = c * n + n /\ c * n \in Nat
      OBVIOUS
    <3> QED BY <2>1, <3>1, ConstantTypes
  <2>3. Evaluations(emitted') \in Nat /\ Evaluations(emitted') <= Evaluations(emitted) + Paid
    <3>1. CASE emitted' = emitted
      BY <1>0, <3>1 DEF Paid
    <3>2. CASE emitted' # emitted
      <4>1. Emitting /\ emitted' = Append(emitted, NextEvent)
        BY <1>3, <3>2 DEF Crash, TearEmit
      <4>2. NextEvent.type = "evaluated" <=> mem.phase = "evaluated"
        BY <4>1, EventTypes DEF Emitting
      <4> QED BY <1>0, <4>1, <4>2 DEF Paid
    <3> QED BY <3>1, <3>2
  <2>4. Paid \in 0..1 /\ (~ Live => Paid = 0)
    BY DEF Paid, Live
  <2>5. ~ Live => Evaluations(emitted) <= Candidates(checkpoint.batches) + lost
    BY DEF Counted
  <2>6. Live => Evaluations(emitted) <= Candidates(mem.batches) + Len(mem.fitness) + lost
    BY DEF Counted
  <2> HIDE DEF lost
  <2>7. Live => Candidates(mem.batches) + Len(mem.fitness) + Paid <= Candidates(checkpoint.batches) + BatchSize
    <3>1. CASE mem.phase = "saving"
      <4>1. OneMore /\ HistoryOK(checkpoint.batches) /\ Paid = 0 /\ Len(mem.fitness) = 0
        BY <3>1 DEF Structure, Histories, Progress, InGeneration, Paid
      <4>2. /\ mem.batches = Append(checkpoint.batches, Newest)
            /\ Newest = [points |-> Newest.points, fitness |-> Newest.fitness]
            /\ IsList(Newest.points) /\ Newest.fitness \in Seq(Nat)
            /\ Len(Newest.points) \in 1..BatchSize /\ Len(Newest.fitness) = Len(Newest.points)
        BY <4>1 DEF OneMore
      <4>3. Candidates(Append(checkpoint.batches, [points |-> Newest.points, fitness |-> Newest.fitness]))
              = Candidates(checkpoint.batches) + Len(Newest.points)
        BY <4>1, <4>2, LongerHistory
      <4>4. Candidates(mem.batches) = Candidates(checkpoint.batches) + Len(Newest.points)
        BY <4>2, <4>3
      <4> QED BY <4>1, <4>2, <4>4, SearchNumbers, ConstantTypes
    <3>2. CASE mem.phase # "saving"
      <4>1. Live => mem.batches = checkpoint.batches
        BY <3>2 DEF Structure, Histories
      <4>2. Len(mem.points) <= BatchSize /\ Len(mem.fitness) <= Len(mem.points)
        BY DEF Structure, Progress, TypeOK, MemoryTypeOK
      <4>3. mem.phase = "evaluated" => Len(mem.fitness) < Len(mem.points)
        BY DEF Structure, Progress
      <4>4. Len(mem.fitness) + Paid <= Len(mem.points)
        <5>1. CASE mem.phase = "evaluated"
          BY <4>3, <5>1, SearchNumbers DEF Paid
        <5>2. CASE mem.phase # "evaluated"
          BY <4>2, <5>2, SearchNumbers DEF Paid
        <5> QED BY <5>1, <5>2
      <4>5. /\ Candidates(checkpoint.batches) \in Nat /\ Len(mem.fitness) \in Nat /\ Len(mem.points) \in Nat
            /\ Paid \in Nat /\ BatchSize \in Nat
        BY <2>4, SearchNumbers, ConstantTypes
      <4>6. Len(mem.fitness) + Paid <= BatchSize
        BY <4>2, <4>4, <4>5
      <4>7. Candidates(checkpoint.batches) + Len(mem.fitness) + Paid <= Candidates(checkpoint.batches) + BatchSize
        BY <4>5, <4>6
      <4> QED BY <4>1, <4>7
    <3> QED BY <3>1, <3>2
  <2>8. Evaluations(emitted') <= Candidates(checkpoint.batches) + (lost + BatchSize)
    <3>1. Evaluations(emitted) \in Nat
      BY <1>0
    <3>2. CASE Live
      <4>1. /\ Candidates(checkpoint.batches) \in Nat /\ Candidates(mem.batches) \in Nat
            /\ Len(mem.fitness) \in Nat /\ BatchSize \in Nat /\ Paid \in Nat /\ lost \in Nat
        BY <2>2, <2>4, SearchNumbers, ConstantTypes
      <4>2. Evaluations(emitted) + Paid <= Candidates(mem.batches) + Len(mem.fitness) + Paid + lost
        BY <2>6, <3>1, <3>2, <4>1
      <4>3. Candidates(mem.batches) + Len(mem.fitness) + Paid + lost <= Candidates(checkpoint.batches) + BatchSize + lost
        BY <2>7, <3>2, <4>1
      <4>4. Evaluations(emitted) + Paid \in Nat /\ Evaluations(emitted') <= Evaluations(emitted) + Paid
        BY <2>3, <3>1, <4>1
      <4>5. Candidates(mem.batches) + Len(mem.fitness) + Paid + lost \in Nat
        BY <4>1
      <4> HIDE DEF Paid
      <4> QED BY <2>3, <4>1, <4>2, <4>3, <4>4, <4>5
    <3>3. CASE ~ Live
      BY <2>2, <2>3, <2>4, <2>5, <3>1, <3>3, SearchNumbers, ConstantTypes
    <3> QED BY <3>2, <3>3
  <2> QED BY <2>1, <2>2, <2>8 DEF Counted
<1>4. CASE BeginFresh
  <2>1. /\ UNCHANGED <<checkpoint, crashes>> /\ mem.phase = "opened" /\ mem'.phase = "looping"
        /\ mem'.batches = checkpoint.batches /\ mem'.fitness = << >>
        /\ emitted' = Append(emitted, Milestone("created"))
    BY <1>4, BeginFreshFacts DEF Emit
  <2>2. ~ Live /\ Live' /\ Len(mem'.fitness) = 0
    BY <2>1 DEF Live
  <2>3. Evaluations(emitted') = Evaluations(emitted)
    BY <1>0, <2>1 DEF Milestone, Event
  <2> QED BY <2>1, <2>2, <2>3, SearchNumbers, ConstantTypes DEF Counted
<1>5. CASE Resume
  <2>1. /\ UNCHANGED <<crashes, emitted>> /\ mem.phase = "opened" /\ mem'.phase = "looping"
        /\ mem'.batches = checkpoint.batches /\ mem'.fitness = << >>
        /\ checkpoint'.batches = checkpoint.batches
    BY <1>5, ResumeFacts DEF logVars
  <2>2. ~ Live /\ Live' /\ Len(mem'.fitness) = 0
    BY <2>1 DEF Live
  <2> QED BY <2>1, <2>2, SearchNumbers, ConstantTypes DEF Counted
<1>6. CASE TakeCancel \/ ReachLimit \/ RunOut \/ AskBatch \/ Evaluate
  <2>1. UNCHANGED <<mem.batches, mem.fitness, crashes, emitted>> /\ Live /\ Live'
    <3>1. CASE TakeCancel \/ ReachLimit \/ RunOut
      BY <3>1, StoppingFacts DEF Live, logVars
    <3>2. CASE AskBatch
      BY <3>2, AskFacts DEF Live, logVars
    <3>3. CASE Evaluate
      BY <3>3, EvaluateFacts DEF Live, logVars
    <3> QED BY <1>6, <3>1, <3>2, <3>3
  <2> QED BY <2>1 DEF Counted
<1>7. CASE GenerateCandidate
  <2>1. /\ UNCHANGED <<mem.batches, mem.fitness, crashes>> /\ mem.phase = "generating"
        /\ mem'.phase \in {"generating", "evaluating"} /\ emitted' = Append(emitted, NextEvent)
    BY <1>7, GenerateFacts DEF Emit
  <2>2. Evaluations(emitted') = Evaluations(emitted)
    BY <1>0, <2>1, EventTypes
  <2> QED BY <2>1, <2>2 DEF Counted, Live
<1>8. CASE RecordCandidate
  <2>1. /\ UNCHANGED <<mem.batches, crashes>> /\ mem.phase = "evaluated"
        /\ mem'.phase \in {"evaluating", "completing"} /\ emitted' = Append(emitted, NextEvent)
        /\ mem'.fitness = Append(mem.fitness, Fitness(mem.outcome))
    BY <1>8, RecordFacts DEF Emit
  <2>2. Evaluations(emitted') = Evaluations(emitted) + 1
    BY <1>0, <2>1, EventTypes
  <2>3. Len(mem'.fitness) = Len(mem.fitness) + 1
    BY <2>1 DEF Structure, TypeOK, MemoryTypeOK
  <2>4. Live /\ Live' /\ crashes * BatchSize \in Nat
    BY <2>1, SearchNumbers, ConstantTypes, ProductIsNatural DEF Live
  <2> DEFINE lost == crashes * BatchSize
  <2>5. /\ Evaluations(emitted) \in Nat /\ Candidates(mem.batches) \in Nat /\ Len(mem.fitness) \in Nat
        /\ lost \in Nat /\ crashes' * BatchSize = lost
    BY <1>0, <2>1, <2>4, SearchNumbers
  <2>6. Evaluations(emitted) <= Candidates(mem.batches) + Len(mem.fitness) + lost
    BY <2>4 DEF Counted
  <2> HIDE DEF lost
  <2>7. Evaluations(emitted') <= Candidates(mem.batches) + Len(mem'.fitness) + lost
    BY <2>2, <2>3, <2>5, <2>6
  <2>8. Evaluations(emitted') <= Candidates(mem'.batches) + Len(mem'.fitness) + crashes' * BatchSize
    BY <2>1, <2>5, <2>7
  <2> QED BY <2>4, <2>8 DEF Counted
<1>9. CASE CompleteGeneration
  <2>1. /\ UNCHANGED crashes /\ mem.phase = "completing" /\ mem'.phase = "saving"
        /\ emitted' = Append(emitted, NextEvent) /\ mem'.fitness = << >>
        /\ Candidates(mem'.batches) = Candidates(mem.batches) + Len(mem.points)
        /\ Len(mem.fitness) = Len(mem.points)
    BY <1>9, CompleteFacts DEF Emit
  <2>2. Evaluations(emitted') = Evaluations(emitted)
    BY <1>0, <2>1, EventTypes
  <2>3. Len(mem'.fitness) = 0 /\ Live /\ Live'
    BY <2>1 DEF Live
  <2>4. Candidates(mem'.batches) + Len(mem'.fitness) = Candidates(mem.batches) + Len(mem.fitness)
    BY <2>1, <2>3, SearchNumbers
  <2> QED BY <2>1, <2>2, <2>3, <2>4 DEF Counted
<1>10. CASE SaveGeneration \/ Stop
  <2>1. /\ mem.phase \in {"saving", "stopping"} /\ mem'.phase \in {"looping", "stopping", "stopped"}
        /\ UNCHANGED <<mem.batches, mem.fitness, crashes, emitted>>
    BY <1>10, SaveFacts DEF logVars
  <2> QED BY <2>1 DEF Counted, Live
<1>11. CASE RequestCancel \/ UNCHANGED vars
  <2>1. UNCHANGED <<checkpoint, mem, crashes, emitted>>
    BY <1>11 DEF RequestCancel, vars, logVars
  <2> QED BY <2>1 DEF Counted, Live
<1> QED BY <1>1, <1>2, <1>3, <1>4, <1>5, <1>6, <1>7, <1>8, <1>9, <1>10, <1>11 DEF Next

(* The optimizer stops when the budget runs out (engine.py, BudgetTracker):  *)
(* no more candidates on record than allowed, nor evaluated beyond them than *)
(* one generation for each process that died, and the requests overshoot     *)
(* their limit by less than a generation - whatever the limits, the batch    *)
(* size and the strategy, and however often the search is resumed.           *)
THEOREM BudgetIsKept == Spec => []BudgetHolds
<1> DEFINE Inv == Structure /\ LogInv /\ Budgeted /\ Counted
<1>1. Init => Inv
  BY InitStructure, InitBudget, InitLog DEF Init
<1>2. Inv /\ [Next]_vars => Inv'
  BY NextKeepsStructure, NextKeepsLog, NextKeepsBudget, NextKeepsCount
<1>3. Inv => BudgetHolds
  <2> SUFFICES ASSUME Inv PROVE BudgetHolds
    OBVIOUS
  <2> DEFINE lost == crashes * BatchSize
  <2>1. lost \in Nat
    BY SearchNumbers, ConstantTypes, ProductIsNatural
  <2>2. Evaluations(emitted) \in Nat
    BY CountAppend DEF LogInv
  <2>3. checkpoint.budget.candidates <= config.maxCandidates
        /\ checkpoint.budget.requests < MaxRequests + BatchSize * Challenges
    BY DEF Budgeted
  <2>4. CASE Live
    <3>1. Candidates(mem.batches) + Len(mem.points) <= config.maxCandidates
          /\ Evaluations(emitted) <= Candidates(mem.batches) + Len(mem.fitness) + lost
      BY <2>4 DEF Budgeted, Counted
    <3>2. Len(mem.fitness) <= Len(mem.points)
      BY DEF Structure, TypeOK, MemoryTypeOK
    <3> HIDE DEF lost
    <3>3. Evaluations(emitted) <= config.maxCandidates + lost
      <4>1. /\ Candidates(mem.batches) \in Nat /\ Len(mem.points) \in Nat /\ Len(mem.fitness) \in Nat
            /\ config.maxCandidates \in Nat
        BY SearchNumbers
      <4>2. Candidates(mem.batches) + Len(mem.fitness) <= config.maxCandidates
        BY <3>1, <3>2, <4>1
      <4> QED BY <2>1, <2>2, <3>1, <4>1, <4>2
    <3> QED BY <2>3, <3>3 DEF BudgetHolds, Evaluations, lost
  <2>5. CASE ~ Live
    <3>1. Candidates(checkpoint.batches) <= config.maxCandidates
          /\ Evaluations(emitted) <= Candidates(checkpoint.batches) + lost
      BY <2>5 DEF Budgeted, Counted
    <3> HIDE DEF lost
    <3>2. Evaluations(emitted) <= config.maxCandidates + lost
      BY <2>1, <2>2, <3>1, SearchNumbers
    <3> QED BY <2>3, <3>2 DEF BudgetHolds, Evaluations, lost
  <2> QED BY <2>4, <2>5
<1> QED BY <1>1, <1>2, <1>3, PTL DEF Spec

-----------------------------------------------------------------------------
(* The log and the checkpoint *)

\* e is the last evaluation of a version.
IsLatest(e, version, events) ==
  \E i \in EvaluationsOf(version, events) :
    e = events[i] /\ \A j \in EvaluationsOf(version, events) : j <= i

\* Every candidate of a history is the last evaluation of its version.
Known(batches, events) ==
  \A i \in 1..Candidates(batches) : \E e :
    IsLatest(e, FirstVersion + i - 1, events) /\ Recorded(batches)[i] = [point |-> e.point, fitness |-> Fitness(e.outcome)]

\* So is every candidate of a generation that has been evaluated.
KnownSoFar(before, points, fitness, events) ==
  \A k \in 1..Len(fitness) : \E e :
    IsLatest(e, FirstVersion + (before + k) - 1, events) /\ points[k] = e.point /\ fitness[k] = Fitness(e.outcome)

\* An incumbent that is feasible is one of the first n candidates, and its last evaluation was feasible.
Shown(b, n, events) ==
  b.feasible =>
    /\ b.number \in 1..n
    /\ \E e : IsLatest(e, FirstVersion + b.number - 1, events) /\ Feasible(e.outcome)

\* An evaluation in the log has an outcome.
Measured(events) == \A i \in DOMAIN events : events[i].type = "evaluated" => events[i].outcome \in Outcomes

Story ==
  /\ Measured(emitted)
  /\ Known(checkpoint.batches, emitted)
  /\ Shown(checkpoint.best, Candidates(checkpoint.batches), emitted)
  /\ Live => /\ Known(mem.batches, emitted)
             /\ KnownSoFar(Candidates(mem.batches), mem.points, mem.fitness, emitted)
             /\ Shown(mem.best, Candidates(mem.batches) + Len(mem.fitness), emitted)

\* At most one event more, and if that is an evaluation, then of the candidate after the first n.
Grown(events, more, n) ==
  \/ more = events
  \/ \E f : more = Append(events, f) /\ (f.type = "evaluated" => f.version = FirstVersion + n)

LEMMA LatestStays ==
  ASSUME NEW events, IsList(events), NEW more, NEW n \in Nat, Grown(events, more, n),
         NEW i \in 1..n, NEW e, IsLatest(e, FirstVersion + i - 1, events)
  PROVE  IsLatest(e, FirstVersion + i - 1, more)
<1>1. CASE more = events
  BY <1>1
<1>2. CASE more # events
  <2> DEFINE v == FirstVersion + i - 1
             l == Len(events)
  <2>1. PICK f : more = Append(events, f) /\ (f.type = "evaluated" => f.version = FirstVersion + n)
    BY <1>2 DEF Grown
  <2>2. l \in Nat /\ DOMAIN events = 1..l /\ DOMAIN more = 1..(l + 1) /\ more[l + 1] = f
        /\ \A k \in 1..l : more[k] = events[k]
    BY <2>1, AppendList, ListFacts
  <2>3. v # FirstVersion + n
    BY ConstantTypes
  <2> HIDE DEF v, l
  <2>4. EvaluationsOf(v, more) = EvaluationsOf(v, events)
    BY <2>1, <2>2, <2>3 DEF EvaluationsOf
  <2>5. \A k \in EvaluationsOf(v, events) : more[k] = events[k]
    BY <2>2 DEF EvaluationsOf
  <2>6. IsLatest(e, v, events)
    BY DEF v
  <2>7. IsLatest(e, v, more)
    BY <2>4, <2>5, <2>6 DEF IsLatest
  <2> QED BY <2>7 DEF v
<1> QED BY <1>1, <1>2

\* An evaluation that was just logged is the last of its version.
LEMMA LatestIsNew ==
  ASSUME NEW events, IsList(events), NEW e, e.type = "evaluated"
  PROVE  IsLatest(e, e.version, Append(events, e))
<1> DEFINE more == Append(events, e)
           l == Len(events)
<1>1. l \in Nat /\ DOMAIN more = 1..(l + 1) /\ more[l + 1] = e
  BY AppendList, ListFacts
<1> HIDE DEF more, l
<1>2. l + 1 \in EvaluationsOf(e.version, more)
  BY <1>1 DEF EvaluationsOf
<1>3. \A j \in EvaluationsOf(e.version, more) : j <= l + 1
  BY <1>1 DEF EvaluationsOf
<1> QED BY <1>1, <1>2, <1>3 DEF IsLatest, more

LEMMA KnownStays ==
  ASSUME NEW events, IsList(events), NEW more, NEW n \in Nat, Grown(events, more, n)
  PROVE  /\ \A h : Candidates(h) \in Nat /\ Candidates(h) <= n /\ Known(h, events) => Known(h, more)
         /\ \A b, m : m \in Nat /\ m <= n /\ Shown(b, m, events) => Shown(b, m, more)
         /\ \A before, points, fitness :
              /\ before \in Nat /\ Len(fitness) \in Nat /\ before + Len(fitness) <= n
              /\ KnownSoFar(before, points, fitness, events)
              => KnownSoFar(before, points, fitness, more)
<1>1. \A i \in 1..n : \A e : IsLatest(e, FirstVersion + i - 1, events) => IsLatest(e, FirstVersion + i - 1, more)
  BY LatestStays
<1>2. ASSUME NEW h, Candidates(h) \in Nat, Candidates(h) <= n, Known(h, events)
      PROVE  Known(h, more)
  <2>1. \A i \in 1..Candidates(h) : i \in 1..n
    BY <1>2
  <2> QED BY <1>1, <1>2, <2>1 DEF Known
<1>3. ASSUME NEW b, NEW m \in Nat, m <= n, Shown(b, m, events)
      PROVE  Shown(b, m, more)
  <2>1. \A i \in 1..m : i \in 1..n
    BY <1>3
  <2> QED BY <1>1, <1>3, <2>1 DEF Shown
<1>4. ASSUME NEW before \in Nat, NEW points, NEW fitness, Len(fitness) \in Nat, before + Len(fitness) <= n,
             KnownSoFar(before, points, fitness, events)
      PROVE  KnownSoFar(before, points, fitness, more)
  <2>1. \A k \in 1..Len(fitness) : before + k \in 1..n
    BY <1>4
  <2> QED BY <1>1, <1>4, <2>1 DEF KnownSoFar
<1> QED BY <1>2, <1>3, <1>4

\* What is on record, or evaluated in the generation in hand.
SoFar == IF Live THEN Candidates(mem.batches) + Len(mem.fitness) ELSE Candidates(checkpoint.batches)

LEMMA MemoryIsAhead ==
  ASSUME Structure, Live
  PROVE  /\ Candidates(checkpoint.batches) <= Candidates(mem.batches)
         /\ Candidates(mem.batches) <= Candidates(checkpoint.batches) + BatchSize
<1>1. CASE mem.phase = "saving"
  <2>1. OneMore /\ HistoryOK(checkpoint.batches)
    BY <1>1 DEF Structure, Histories
  <2>2. /\ mem.batches = Append(checkpoint.batches, Newest)
        /\ Newest = [points |-> Newest.points, fitness |-> Newest.fitness]
        /\ IsList(Newest.points) /\ Newest.fitness \in Seq(Nat)
        /\ Len(Newest.points) \in 1..BatchSize /\ Len(Newest.fitness) = Len(Newest.points)
    BY <2>1 DEF OneMore
  <2>3. Candidates(Append(checkpoint.batches, [points |-> Newest.points, fitness |-> Newest.fitness]))
          = Candidates(checkpoint.batches) + Len(Newest.points)
    BY <2>1, <2>2, LongerHistory
  <2>4. Candidates(mem.batches) = Candidates(checkpoint.batches) + Len(Newest.points)
    BY <2>2, <2>3
  <2>5. Candidates(checkpoint.batches) \in Nat /\ BatchSize \in Nat /\ Len(Newest.points) \in 1..BatchSize
    BY <2>2, SearchNumbers, ConstantTypes
  <2> QED BY <2>4, <2>5
<1>2. CASE mem.phase # "saving"
  BY <1>2, SearchNumbers, ConstantTypes DEF Structure, Histories
<1> QED BY <1>1, <1>2

\* What a step does to the log.
LEMMA LogStep ==
  ASSUME Structure, [Next]_vars
  PROVE  \/ emitted' = emitted
         \/ /\ mem.phase \in {"opened", "generating", "evaluated", "completing", "stopped"}
            /\ emitted' = Append(emitted, NextEvent)
<1>1. CASE Open \/ ResumeWithMore
  BY <1>1 DEF Open, ResumeWithMore, OpenLog
<1>2. CASE BeginFresh
  BY <1>2 DEF BeginFresh, Emit, NextEvent
<1>3. CASE Resume \/ TakeCancel \/ ReachLimit \/ AskBatch \/ RunOut \/ Evaluate \/ SaveGeneration \/ Stop
            \/ RequestCancel \/ UNCHANGED vars
  BY <1>3 DEF Resume, TakeCancel, ReachLimit, AskBatch, RunOut, Evaluate, SaveGeneration, Stop,
              RequestCancel, vars, logVars
<1>4. CASE GenerateCandidate \/ CompleteGeneration \/ EmitStopped
  BY <1>4 DEF GenerateCandidate, CompleteGeneration, EmitStopped, Emit
<1>5. CASE RecordCandidate
  BY <1>5, RecordFacts DEF Emit
<1>6. CASE Crash
  BY <1>6 DEF Crash, TearEmit, Emitting
<1> QED BY <1>1, <1>2, <1>3, <1>4, <1>5, <1>6 DEF Next

LEMMA LogGrows ==
  ASSUME Structure, LogInv, [Next]_vars
  PROVE  Grown(emitted, emitted', SoFar) /\ (Measured(emitted) => Measured(emitted'))
<1>1. CASE emitted' = emitted
  BY <1>1 DEF Grown
<1>2. CASE emitted' # emitted
  <2>1. /\ mem.phase \in {"opened", "generating", "evaluated", "completing", "stopped"}
        /\ emitted' = Append(emitted, NextEvent)
    BY <1>2, LogStep
  <2>2. NextEvent.type = "evaluated" =>
          NextEvent.version = FirstVersion + SoFar /\ NextEvent.outcome \in Outcomes
    <3> SUFFICES ASSUME NextEvent.type = "evaluated"
                 PROVE  NextEvent.version = FirstVersion + SoFar /\ NextEvent.outcome \in Outcomes
      OBVIOUS
    <3>1. mem.phase = "evaluated"
      BY <2>1, EventTypes
    <3>2. /\ NextEvent.version = FirstVersion + Candidates(mem.batches) + Len(mem.fitness)
          /\ NextEvent.outcome \in Outcomes
          /\ Candidates(mem.batches) \in Nat /\ Len(mem.fitness) \in Nat
      BY <3>1, EvaluatedFacts DEF Event
    <3>3. SoFar = Candidates(mem.batches) + Len(mem.fitness)
      BY <3>1 DEF SoFar, Live
    <3> QED BY <3>2, <3>3, ConstantTypes
  <2>3. Grown(emitted, emitted', SoFar)
    BY <2>1, <2>2 DEF Grown
  <2>4. IsList(emitted)
    BY DEF LogInv
  <2> DEFINE l == Len(emitted)
             f == NextEvent
  <2>5. l \in Nat /\ DOMAIN emitted = 1..l /\ DOMAIN emitted' = 1..(l + 1) /\ emitted'[l + 1] = f
        /\ \A k \in 1..l : emitted'[k] = emitted[k]
    BY <2>1, <2>4, AppendList, ListFacts
  <2>6. f.type = "evaluated" => f.outcome \in Outcomes
    BY <2>2
  <2> HIDE DEF l, f
  <2>7. Measured(emitted) => Measured(emitted')
    BY <2>5, <2>6 DEF Measured
  <2> QED BY <2>3, <2>7
<1> QED BY <1>1, <1>2

\* Whatever a step does, the story told so far stays true of the longer log.
LEMMA StoryStays ==
  ASSUME Structure, LogInv, Story, [Next]_vars
  PROVE  /\ Measured(emitted') /\ Known(checkpoint.batches, emitted')
         /\ Shown(checkpoint.best, Candidates(checkpoint.batches), emitted')
         /\ Live => /\ Known(mem.batches, emitted')
                    /\ KnownSoFar(Candidates(mem.batches), mem.points, mem.fitness, emitted')
                    /\ Shown(mem.best, Candidates(mem.batches) + Len(mem.fitness), emitted')
<1>1. IsList(emitted) /\ Grown(emitted, emitted', SoFar) /\ Measured(emitted')
  BY LogGrows DEF Story, LogInv
<1>2. /\ Candidates(checkpoint.batches) \in Nat /\ Candidates(mem.batches) \in Nat /\ Len(mem.fitness) \in Nat
  BY SearchNumbers
<1>3. CASE Live
  <2>1. /\ SoFar = Candidates(mem.batches) + Len(mem.fitness)
        /\ Candidates(checkpoint.batches) <= Candidates(mem.batches)
    BY <1>3, MemoryIsAhead DEF SoFar
  <2>2. /\ SoFar \in Nat /\ Candidates(checkpoint.batches) <= SoFar /\ Candidates(mem.batches) <= SoFar
        /\ Candidates(mem.batches) + Len(mem.fitness) \in Nat
        /\ Candidates(mem.batches) + Len(mem.fitness) <= SoFar
    BY <1>2, <2>1
  <2>3. Known(checkpoint.batches, emitted') /\ Known(mem.batches, emitted')
    BY <1>1, <1>2, <1>3, <2>2, KnownStays DEF Story
  <2>4. /\ Shown(checkpoint.best, Candidates(checkpoint.batches), emitted')
        /\ Shown(mem.best, Candidates(mem.batches) + Len(mem.fitness), emitted')
    BY <1>1, <1>2, <1>3, <2>2, KnownStays DEF Story
  <2>5. KnownSoFar(Candidates(mem.batches), mem.points, mem.fitness, emitted')
    BY <1>1, <1>2, <1>3, <2>2, KnownStays DEF Story
  <2> QED BY <1>1, <2>3, <2>4, <2>5
<1>4. CASE ~ Live
  <2>1. SoFar \in Nat /\ Candidates(checkpoint.batches) <= SoFar
    BY <1>2, <1>4 DEF SoFar
  <2>2. Known(checkpoint.batches, emitted') /\ Shown(checkpoint.best, Candidates(checkpoint.batches), emitted')
    BY <1>1, <1>2, <2>1, KnownStays DEF Story
  <2> QED BY <1>1, <1>4, <2>2
<1> QED BY <1>3, <1>4

LEMMA InitStory == Init => Story
<1> SUFFICES ASSUME Init PROVE Story
  OBVIOUS
<1>1. emitted = << >> /\ checkpoint.batches = << >> /\ checkpoint.best = NoCandidate /\ ~ Live
  BY DEF Init, LogInit, Idle, Live
<1>2. Candidates(checkpoint.batches) = 0
  BY <1>1, EmptyHistory
<1>3. Known(checkpoint.batches, emitted)
  BY <1>2 DEF Known
<1> QED BY <1>1, <1>3 DEF Story, Measured, Shown, NoCandidate

\* The candidate just logged joins those evaluated in this generation.
LEMMA RecordKeepsStory ==
  ASSUME Structure, LogInv, Story, RecordCandidate
  PROVE  Story'
<1> DEFINE n == Candidates(mem.batches)
           l == Len(mem.fitness)
<1>1. /\ n \in Nat /\ l \in Nat /\ l + 1 <= Len(mem.points) /\ Len(mem.points) \in Nat
      /\ NextEvent = Event("evaluated", FirstVersion + n + l, mem.points[l + 1], mem.outcome)
      /\ Evaluated.number = n + l + 1
      /\ Evaluated.feasible = Feasible(mem.outcome) /\ mem.phase = "evaluated"
  BY EvaluatedFacts DEF RecordCandidate
<1>2. /\ emitted' = Append(emitted, NextEvent) /\ Live /\ Live'
      /\ mem'.best = IF Better(Evaluated, mem.best) THEN Evaluated ELSE mem.best
      /\ mem'.fitness = Append(mem.fitness, Fitness(mem.outcome))
      /\ UNCHANGED <<mem.batches, mem.points, checkpoint>>
  BY RecordFacts DEF Emit, Live
<1>3. /\ Len(mem'.fitness) = l + 1 /\ mem'.fitness[l + 1] = Fitness(mem.outcome)
      /\ \A k \in 1..l : mem'.fitness[k] = mem.fitness[k]
  BY <1>2 DEF Structure, TypeOK, MemoryTypeOK
<1>4. /\ NextEvent.type = "evaluated" /\ NextEvent.point = mem.points[l + 1] /\ NextEvent.outcome = mem.outcome
      /\ NextEvent.version = FirstVersion + (n + (l + 1)) - 1
  <2>1. FirstVersion + n + l = FirstVersion + (n + (l + 1)) - 1
    BY <1>1, ConstantTypes
  <2> QED BY <1>1, <2>1 DEF Event
<1>5. IsLatest(NextEvent, FirstVersion + (n + (l + 1)) - 1, emitted')
  BY <1>2, <1>4, LatestIsNew DEF LogInv
<1>6. /\ Measured(emitted') /\ Known(checkpoint.batches, emitted') /\ Known(mem.batches, emitted')
      /\ Shown(checkpoint.best, Candidates(checkpoint.batches), emitted')
      /\ KnownSoFar(n, mem.points, mem.fitness, emitted') /\ Shown(mem.best, n + l, emitted')
  BY <1>2, StoryStays DEF Next
<1> HIDE DEF n, l
<1>7. KnownSoFar(n, mem'.points, mem'.fitness, emitted')
  <2> SUFFICES ASSUME NEW k \in 1..(l + 1)
               PROVE  \E e : /\ IsLatest(e, FirstVersion + (n + k) - 1, emitted')
                             /\ mem.points[k] = e.point /\ mem'.fitness[k] = Fitness(e.outcome)
    BY <1>2, <1>3 DEF KnownSoFar
  <2>1. CASE k = l + 1
    BY <1>3, <1>4, <1>5, <2>1
  <2>2. CASE k # l + 1
    <3>1. k \in 1..l
      BY <1>1, <2>2
    <3> QED BY <1>3, <1>6, <3>1 DEF KnownSoFar, l
  <2> QED BY <2>1, <2>2
<1>8. Shown(mem'.best, n + (l + 1), emitted')
  <2>1. CASE mem'.best = mem.best
    <3>1. \A i \in 1..(n + l) : i \in 1..(n + (l + 1))
      BY <1>1
    <3> QED BY <1>6, <2>1, <3>1 DEF Shown
  <2>2. CASE mem'.best = Evaluated
    <3>1. n + (l + 1) = n + l + 1 /\ n + (l + 1) \in 1..(n + (l + 1))
      <4>1. n \in Nat /\ l \in Nat
        BY <1>1
      <4> QED BY <4>1
    <3> QED BY <1>1, <1>4, <1>5, <2>2, <3>1 DEF Shown
  <2> QED BY <1>2, <2>1, <2>2
<1> QED BY <1>2, <1>3, <1>6, <1>7, <1>8 DEF Story, n

\* A generation that becomes history takes what is known of it along.
LEMMA CompleteKeepsStory ==
  ASSUME Structure, LogInv, Story, CompleteGeneration
  PROVE  Story'
<1> DEFINE n == Candidates(mem.batches)
           l == Len(mem.points)
           b == [points |-> mem.points, fitness |-> mem.fitness]
<1>1. /\ emitted' = Append(emitted, NextEvent) /\ Live /\ Live'
      /\ mem'.batches = Append(mem.batches, b) /\ mem'.fitness = << >>
      /\ UNCHANGED <<mem.best, checkpoint>>
      /\ HistoryOK(mem.batches) /\ IsList(mem.points) /\ mem.fitness \in Seq(Nat) /\ Len(mem.fitness) = l
      /\ n \in Nat /\ l \in Nat /\ Candidates(mem'.batches) = n + l
  BY CompleteFacts, SearchNumbers DEF Emit, Live
<1>2. \A i \in 1..(n + l) :
        Recorded(mem'.batches)[i] = IF i <= n THEN Recorded(mem.batches)[i]
                                    ELSE [point |-> mem.points[i - n], fitness |-> mem.fitness[i - n]]
  <2>1. /\ HistoryOK(mem.batches) /\ IsList(mem.points) /\ mem.fitness \in Seq(Nat)
        /\ Len(mem.fitness) = Len(mem.points)
    BY <1>1
  <2>2. \A i \in 1..(Candidates(mem.batches) + Len(mem.points)) :
          Recorded(Append(mem.batches, [points |-> mem.points, fitness |-> mem.fitness]))[i]
            = IF i <= Candidates(mem.batches) THEN Recorded(mem.batches)[i]
              ELSE [point |-> mem.points[i - Candidates(mem.batches)],
                    fitness |-> mem.fitness[i - Candidates(mem.batches)]]
    BY <2>1, LongerHistory
  <2> QED BY <1>1, <2>2
<1>3. /\ Measured(emitted') /\ Known(checkpoint.batches, emitted') /\ Known(mem.batches, emitted')
      /\ Shown(checkpoint.best, Candidates(checkpoint.batches), emitted')
      /\ KnownSoFar(n, mem.points, mem.fitness, emitted') /\ Shown(mem.best, n + l, emitted')
  BY <1>1, StoryStays DEF Next
<1> HIDE DEF n, l, b
<1>4. Known(mem'.batches, emitted')
  <2> SUFFICES ASSUME NEW i \in 1..(n + l)
               PROVE  \E e : /\ IsLatest(e, FirstVersion + i - 1, emitted')
                             /\ Recorded(mem'.batches)[i] = [point |-> e.point, fitness |-> Fitness(e.outcome)]
    BY <1>1 DEF Known
  <2>1. CASE i <= n
    <3>1. i \in 1..Candidates(mem.batches)
      BY <1>1, <2>1 DEF n
    <3> QED BY <1>2, <1>3, <2>1, <3>1 DEF Known
  <2>2. CASE ~ (i <= n)
    <3>1. i - n \in 1..Len(mem.fitness) /\ n + (i - n) = i
      BY <1>1, <2>2
    <3>2. PICK e : /\ IsLatest(e, FirstVersion + (n + (i - n)) - 1, emitted')
                   /\ mem.points[i - n] = e.point /\ mem.fitness[i - n] = Fitness(e.outcome)
      BY <1>3, <3>1 DEF KnownSoFar
    <3> QED BY <1>2, <2>2, <3>1, <3>2
  <2> QED BY <2>1, <2>2
<1>5. Len(mem'.fitness) = 0 /\ n + l + 0 = n + l
  BY <1>1
<1>6. KnownSoFar(Candidates(mem'.batches), mem'.points, mem'.fitness, emitted')
  BY <1>5 DEF KnownSoFar
<1> QED BY <1>1, <1>3, <1>4, <1>5, <1>6 DEF Story

LEMMA NextKeepsStory ==
  ASSUME Structure, LogInv, Story, [Next]_vars
  PROVE  Story'
<1>0. /\ Measured(emitted') /\ Known(checkpoint.batches, emitted')
      /\ Shown(checkpoint.best, Candidates(checkpoint.batches), emitted')
      /\ Live => /\ Known(mem.batches, emitted')
                 /\ KnownSoFar(Candidates(mem.batches), mem.points, mem.fitness, emitted')
                 /\ Shown(mem.best, Candidates(mem.batches) + Len(mem.fitness), emitted')
      /\ Candidates(checkpoint.batches) \in Nat /\ Candidates(mem.batches) \in Nat
  BY StoryStays, SearchNumbers
<1>1. CASE Open \/ ResumeWithMore \/ Crash \/ EmitStopped
  <2>1. ~ Live' /\ UNCHANGED checkpoint
    BY <1>1, NoProcess
  <2> QED BY <1>0, <2>1 DEF Story
<1>2. CASE BeginFresh \/ Resume
  <2>1. /\ mem'.batches = checkpoint.batches /\ mem'.best = checkpoint.best /\ mem'.fitness = << >>
        /\ checkpoint'.batches = checkpoint.batches /\ checkpoint'.best = checkpoint.best
    BY <1>2, BeginFreshFacts, ResumeFacts
  <2>2. Len(mem'.fitness) = 0 /\ Candidates(checkpoint.batches) + 0 = Candidates(checkpoint.batches)
    BY <1>0, <2>1
  <2>3. KnownSoFar(Candidates(mem'.batches), mem'.points, mem'.fitness, emitted')
    BY <2>2 DEF KnownSoFar
  <2> QED BY <1>0, <2>1, <2>2, <2>3 DEF Story
<1>3. CASE TakeCancel \/ ReachLimit \/ RunOut \/ AskBatch \/ GenerateCandidate \/ Evaluate
  <2>1. /\ UNCHANGED <<mem.batches, mem.best, mem.fitness, checkpoint>> /\ Live
        /\ mem'.points = mem.points \/ mem.phase = "looping"
    <3>1. CASE TakeCancel \/ ReachLimit \/ RunOut
      BY <3>1, StoppingFacts DEF Live
    <3>2. CASE AskBatch
      BY <3>2, AskFacts DEF Live
    <3>3. CASE GenerateCandidate \/ Evaluate
      BY <3>3, GenerateFacts, EvaluateFacts DEF Live
    <3> QED BY <1>3, <3>1, <3>2, <3>3
  <2>2. KnownSoFar(Candidates(mem.batches), mem'.points, mem.fitness, emitted')
    <3>1. CASE mem'.points = mem.points
      BY <1>0, <2>1, <3>1
    <3>2. CASE mem.phase = "looping"
      <4>1. Len(mem.fitness) = 0
        BY <3>2, NothingUnpaid DEF InGeneration
      <4> QED BY <4>1 DEF KnownSoFar
    <3> QED BY <2>1, <3>1, <3>2
  <2> QED BY <1>0, <2>1, <2>2 DEF Story
<1>4. CASE RecordCandidate
  BY <1>4, RecordKeepsStory
<1>5. CASE CompleteGeneration
  BY <1>5, CompleteKeepsStory
<1>6. CASE SaveGeneration \/ Stop
  <2>1. /\ mem.phase \in {"saving", "stopping"}
        /\ checkpoint'.batches = mem.batches /\ checkpoint'.best = mem.best
        /\ UNCHANGED <<mem.batches, mem.best, mem.points, mem.fitness>>
    BY <1>6, SaveFacts
  <2>2. Live /\ ~ InGeneration
    BY <2>1 DEF Live, InGeneration
  <2>3. Len(mem.fitness) = 0 /\ Candidates(mem.batches) + 0 = Candidates(mem.batches)
    BY <1>0, <2>2, NothingUnpaid
  <2> QED BY <1>0, <2>1, <2>2, <2>3 DEF Story
<1>7. CASE RequestCancel \/ UNCHANGED vars
  <2>1. UNCHANGED <<checkpoint, mem>>
    BY <1>7 DEF RequestCancel, vars
  <2> QED BY <1>0, <2>1 DEF Story, Live
<1> QED BY <1>1, <1>2, <1>3, <1>4, <1>5, <1>6, <1>7 DEF Next

\* What the chart shows of a version is its last evaluation.
LEMMA LatestIsShown ==
  ASSUME EventsSurvive, IsList(emitted), NEW v, NEW e, IsLatest(e, v, emitted)
  PROVE  v \in ChartVersions /\ LatestEvaluation(v) = e
<1>1. PICK i \in EvaluationsOf(v, emitted) : e = emitted[i] /\ \A j \in EvaluationsOf(v, emitted) : j <= i
  BY DEF IsLatest
<1>2. EvaluationsOf(v, emitted) \subseteq Nat /\ i \in DOMAIN emitted
      /\ e.type = "evaluated" /\ e.version = v
  BY <1>1, ListFacts DEF EvaluationsOf
<1>3. Max(EvaluationsOf(v, emitted)) = i
  <2>1. i \in EvaluationsOf(v, emitted) /\ \A j \in EvaluationsOf(v, emitted) : i >= j
    BY <1>1, <1>2
  <2>2. \A j \in EvaluationsOf(v, emitted) : (\A k \in EvaluationsOf(v, emitted) : j >= k) => j = i
    BY <1>2, <2>1
  <2> QED BY <2>1, <2>2 DEF Max
<1>4. e \in ToSet(emitted)
  BY <1>1, <1>2 DEF ToSet
<1> QED BY <1>1, <1>2, <1>3, <1>4 DEF ChartVersions, LatestEvaluation, EventsSurvive

\* The log is read whole and tells the story of the checkpoint.
StoryInv == Structure /\ LogInv /\ Story

LEMMA InitStoryInv == Init => StoryInv
BY InitStructure, InitLog, InitStory DEF Init, StoryInv

LEMMA NextKeepsStoryInv == StoryInv /\ [Next]_vars => StoryInv'
BY NextKeepsStructure, NextKeepsLog, NextKeepsStory DEF StoryInv

LEMMA LogIsRead == LogInv => EventsSurvive /\ IsList(emitted)
BY DEF LogInv

(* Chart and progress report tell one story (main.py, the candidates chart;   *)
(* engine.py, candidates_completed): a recorded candidate is on the chart,    *)
(* with its point and the fitness the search went on with, after any number   *)
(* of crashes, torn appends and generations that were evaluated again.        *)
THEOREM ChartTellsTheStory == Spec => []ChartAgrees
<1>1. StoryInv => ChartAgrees
  <2> SUFFICES ASSUME StoryInv, NEW i \in DOMAIN Recorded(checkpoint.batches)
               PROVE  LET v == FirstVersion + i - 1
                      IN /\ v \in DOMAIN Chart
                         /\ Recorded(checkpoint.batches)[i]
                              = [point |-> Chart[v].point, fitness |-> Fitness(Chart[v].outcome)]
    BY DEF ChartAgrees
  <2>1. i \in 1..Candidates(checkpoint.batches)
    BY ListFacts DEF StoryInv, Structure, Histories, HistoryOK, Candidates
  <2>2. PICK e : /\ IsLatest(e, FirstVersion + i - 1, emitted)
                 /\ Recorded(checkpoint.batches)[i] = [point |-> e.point, fitness |-> Fitness(e.outcome)]
    BY <2>1 DEF StoryInv, Story, Known
  <2>3. FirstVersion + i - 1 \in ChartVersions /\ LatestEvaluation(FirstVersion + i - 1) = e
    BY <2>2, LatestIsShown, LogIsRead DEF StoryInv
  <2> QED BY <2>2, <2>3 DEF Chart
<1> QED BY <1>1, InitStoryInv, NextKeepsStoryInv, PTL DEF Spec

(* A feasible incumbent passes the promotion's metric gates (domain.py, the   *)
(* constraint margins of the search): the last evaluation of the selected     *)
(* version, which is what the chart shows and what a promotion would look at, *)
(* leaves no finding, for all baselines, measurements, gates and margins.     *)
THEOREM SelectedIsPromotable == Spec => []SelectedPassesGates
<1>1. StoryInv => SelectedPassesGates
  <2> SUFFICES ASSUME StoryInv, checkpoint.best.feasible
               PROVE  LET m == LatestEvaluation(FirstVersion + checkpoint.best.number - 1).outcome.metrics
                      IN Findings(Baseline, m, GateConfig, SafetyLimits, PointEstimate(m)) = {}
    BY DEF SelectedPassesGates
  <2>1. PICK e : /\ IsLatest(e, FirstVersion + checkpoint.best.number - 1, emitted) /\ Feasible(e.outcome)
    BY DEF StoryInv, Story, Shown
  <2>2. LatestEvaluation(FirstVersion + checkpoint.best.number - 1) = e
    BY <2>1, LatestIsShown, LogIsRead DEF StoryInv
  <2>3. e.outcome \in Outcomes
    BY <2>1 DEF StoryInv, Story, Measured, IsLatest, EvaluationsOf
  <2>4. QualityMargin \in Nat /\ SafetyMargin \in Nat
    BY EngineAssumption
  <2>5. SearchViolation(e.outcome.metrics) = 0
    BY <2>1 DEF Feasible
  <2>6. Findings(Baseline, e.outcome.metrics, GateConfig, SafetyLimits, PointEstimate(e.outcome.metrics)) = {}
    BY <2>3, <2>4, <2>5, SearchInputs, FeasiblePassesGates DEF SearchViolation
  <2> QED BY <2>2, <2>6
<1> QED BY <1>1, InitStoryInv, NextKeepsStoryInv, PTL DEF Spec

-----------------------------------------------------------------------------
(* The frontier *)

\* To dominate is a strict order on points that have numbers for all objectives.
LEMMA DominationOrder ==
  ASSUME NEW directions, NEW a, NEW b, NEW c,
         \A key \in DOMAIN directions : a[key] \in Int /\ b[key] \in Int /\ c[key] \in Int
  PROVE  /\ ~ Dominates(a, a, directions)
         /\ Dominates(a, b, directions) /\ Dominates(b, c, directions) => Dominates(a, c, directions)
<1>1. ~ Dominates(a, a, directions)
  BY DEF Dominates
<1>2. ASSUME Dominates(a, b, directions), Dominates(b, c, directions)
      PROVE  Dominates(a, c, directions)
  <2>1. \A key \in DOMAIN directions : AsGood(a[key], c[key], directions[key])
    BY <1>2 DEF Dominates, AsGood
  <2>2. PICK key \in DOMAIN directions : ~ AsGood(b[key], a[key], directions[key])
    BY <1>2 DEF Dominates
  <2>3. ~ AsGood(c[key], a[key], directions[key])
    BY <1>2, <2>2 DEF Dominates, AsGood
  <2> QED BY <2>1, <2>3 DEF Dominates
<1> QED BY <1>1, <1>2

\* What is not on the frontier of finitely many points is dominated by what is: among its dominators
\* there is one with the fewest dominators, and those are none.
LEMMA FrontierDominatesTheRest ==
  ASSUME NEW points, NEW directions, IsFiniteSet(DOMAIN points),
         \A p \in DOMAIN points : \A key \in DOMAIN directions : points[p][key] \in Int,
         NEW v \in DOMAIN points \ Frontier(points, directions)
  PROVE  \E u \in Frontier(points, directions) : Dominates(points[u], points[v], directions)
<1> DEFINE Above(p) == Dominators(points, p, directions)
           Sizes == {Cardinality(Above(p)) : p \in Above(v)}
<1>1. \A p \in DOMAIN points : IsFiniteSet(Above(p)) /\ Cardinality(Above(p)) \in Nat
  <2> TAKE p \in DOMAIN points
  <2>1. Above(p) \in SUBSET DOMAIN points
    BY DEF Dominators
  <2> HIDE DEF Above
  <2> QED BY <2>1, FS_Subset, FS_CardinalityType
<1>2. Above(v) \subseteq DOMAIN points /\ Above(v) # {}
  BY DEF Dominators, Frontier
<1>3. Sizes \subseteq Nat /\ Sizes # {}
  <2> HIDE DEF Above
  <2> QED BY <1>1, <1>2
<1>4. PICK n \in Sizes : \A m \in Sizes : n <= m
  <2> HIDE DEF Sizes
  <2> QED BY <1>3, NatMin
<1>5. PICK u \in Above(v) : n = Cardinality(Above(u))
  OBVIOUS
<1>6. u \in DOMAIN points /\ Dominates(points[u], points[v], directions)
  BY <1>5 DEF Dominators
<1>7. Above(u) = {}
  <2> SUFFICES ASSUME NEW w \in Above(u) PROVE FALSE
    OBVIOUS
  <2>1. w \in DOMAIN points /\ Dominates(points[w], points[u], directions)
    BY DEF Dominators
  <2>2. w \in Above(v)
    <3>1. Dominates(points[w], points[v], directions)
      BY <1>6, <2>1, DominationOrder
    <3>2. w # v
      BY <3>1, DominationOrder
    <3> QED BY <2>1, <3>1, <3>2 DEF Dominators
  <2>3. Above(w) \subseteq Above(u)
    <3> SUFFICES ASSUME NEW x \in Above(w) PROVE x \in Above(u)
      OBVIOUS
    <3>1. x \in DOMAIN points /\ Dominates(points[x], points[w], directions)
      BY DEF Dominators
    <3>2. Dominates(points[x], points[u], directions)
      BY <1>6, <2>1, <3>1, DominationOrder
    <3>3. x # u
      BY <1>6, <3>2, DominationOrder
    <3> QED BY <3>1, <3>2, <3>3 DEF Dominators
  <2>4. w \notin Above(w)
    BY DEF Dominators
  <2>5. Cardinality(Above(w)) \in Sizes /\ w \in Above(u)
    BY <2>2
  <2> HIDE DEF Above, Sizes
  <2>6. Cardinality(Above(w)) <= Cardinality(Above(u)) /\ Cardinality(Above(w)) # Cardinality(Above(u))
    BY <1>1, <1>6, <2>3, <2>4, <2>5, FS_Subset
  <2>7. Cardinality(Above(u)) <= Cardinality(Above(w))
    BY <1>4, <1>5, <2>5
  <2>8. Cardinality(Above(w)) \in Nat /\ Cardinality(Above(u)) \in Nat
    BY <1>1, <1>6, <2>1
  <2> QED BY <2>6, <2>7, <2>8
<1>8. u \in Frontier(points, directions)
  BY <1>6, <1>7 DEF Frontier
<1> QED BY <1>6, <1>8

\* A set of positions that is not empty has a last one.
LEMMA LastOf ==
  ASSUME NEW n \in Nat, NEW S \in SUBSET (1..n), S # {}
  PROVE  Max(S) \in S
<1> DEFINE Back == {n - i : i \in S}
<1>1. Back \subseteq Nat /\ Back # {}
  <2>1. \A i \in S : n - i \in Nat
    OBVIOUS
  <2> QED BY <2>1
<1>2. PICK b \in Back : \A c \in Back : b <= c
  <2> HIDE DEF Back
  <2> QED BY <1>1, NatMin
<1>3. PICK i \in S : b = n - i
  OBVIOUS
<1>4. \A j \in S : i >= j
  <2> TAKE j \in S
  <2>1. n - i <= n - j
    BY <1>2, <1>3
  <2> QED BY <2>1
<1> QED BY <1>4 DEF Max

\* A version on the chart has been measured.
LEMMA ChartIsMeasured ==
  ASSUME StoryInv
  PROVE  /\ IsFiniteSet(ChartVersions)
         /\ \A v \in ChartVersions : LatestEvaluation(v).outcome \in Outcomes
<1>1. EventsSurvive /\ IsList(emitted) /\ Measured(emitted)
  BY LogIsRead DEF StoryInv, Story
<1>2. Len(emitted) \in Nat /\ DOMAIN emitted = 1..Len(emitted)
  BY <1>1, ListFacts
<1> DEFINE E == {i \in DOMAIN emitted : emitted[i].type = "evaluated"}
<1>3. ChartVersions = {emitted[i].version : i \in E}
  BY <1>1 DEF ChartVersions, EventsSurvive, ToSet
<1>4. IsFiniteSet(E)
  <2>1. IsFiniteSet(DOMAIN emitted)
    BY <1>2, FS_Interval
  <2>2. E \in SUBSET DOMAIN emitted
    OBVIOUS
  <2> QED BY <2>1, <2>2, FS_Subset
<1>5. IsFiniteSet(ChartVersions)
  <2> DEFINE f == [i \in E |-> emitted[i].version]
  <2>1. f \in Surjection(E, ChartVersions)
    BY <1>3 DEF Surjection
  <2> HIDE DEF E, f
  <2> QED BY <1>4, <2>1, FS_Surjection
<1>6. ASSUME NEW v \in ChartVersions PROVE LatestEvaluation(v).outcome \in Outcomes
  <2> DEFINE S == EvaluationsOf(v, emitted)
  <2>1. S \subseteq Nat /\ S # {} /\ S \in SUBSET (1..Len(emitted))
    BY <1>2, <1>3 DEF EvaluationsOf
  <2>2. \A i \in S : emitted[i].outcome \in Outcomes
    BY <1>1 DEF Measured, EvaluationsOf
  <2> HIDE DEF S
  <2>3. Max(S) \in S
    BY <1>2, <2>1, LastOf
  <2> QED BY <1>1, <2>2, <2>3 DEF LatestEvaluation, EventsSurvive, S
<1> QED BY <1>5, <1>6

(* The frontier of the chart (pareto.py, pareto_frontier, which is quadratic  *)
(* and without a special case): a version that is not on it is dominated by   *)
(* one that is, so it is never empty while there is anything to show.         *)
THEOREM FrontierIsComplete == Spec => []FrontierCovers
<1>1. StoryInv => FrontierCovers
  <2> SUFFICES ASSUME StoryInv PROVE FrontierCovers
    OBVIOUS
  <2> DEFINE points == [v \in ChartVersions |-> LatestEvaluation(v).outcome.metrics]
  <2>1. IsFiniteSet(DOMAIN points)
    BY ChartIsMeasured
  <2>2. \A p \in DOMAIN points : points[p] \in Metrics
    BY ChartIsMeasured, OutcomeType
  <2>3. \A p \in DOMAIN points : \A key \in DOMAIN Directions : points[p][key] \in Int
    <3> HIDE DEF points
    <3> QED BY <2>2, UnitAssumption DEF Metrics, Directions
  <2> HIDE DEF points
  <2>4. \A v \in DOMAIN points \ Frontier(points, Directions) :
          \E u \in Frontier(points, Directions) : Dominates(points[u], points[v], Directions)
    BY <2>1, <2>3, FrontierDominatesTheRest
  <2> QED BY <2>4 DEF FrontierCovers, points
<1> QED BY <1>1, InitStoryInv, NextKeepsStoryInv, PTL DEF Spec

-----------------------------------------------------------------------------
(* The search that is never interrupted *)

Findable == {Verdict(o) : o \in Outcomes}

\* b is the first best of an incumbent and of the candidates that n others precede and that found
\* these fitness values.
Contest(b, incumbent, n, fitness) ==
  \E verdicts \in [1..Len(fitness) -> Findable] :
    /\ fitness = [i \in 1..Len(fitness) |-> verdicts[i].fitness]
    /\ Search!IsBest(b, {incumbent} \cup Search!Numbered(n + 1, verdicts))

\* The incumbent on record is a recorded candidate; the one in memory is that one, or the first best
\* of that one and of the generation in hand.
Ranking ==
  /\ checkpoint.best.number <= Candidates(checkpoint.batches)
  /\ Live /\ ~ InGeneration /\ mem.phase # "saving" => mem.best = checkpoint.best
  /\ InGeneration => Contest(mem.best, checkpoint.best, Candidates(checkpoint.batches), mem.fitness)
  /\ mem.phase = "saving" =>
       Contest(mem.best, checkpoint.best, Candidates(checkpoint.batches), Newest.fitness)

\* Better is a strict order of the candidates, and two that it does not order are equally good.
LEMMA BetterIsOrder ==
  ASSUME NEW a \in Incumbents, NEW b \in Incumbents, NEW c \in Incumbents
  PROVE  /\ ~ Better(a, a)
         /\ Better(a, b) /\ ~ Better(c, b) => Better(a, c) /\ ~ Better(c, a)
<1>1. /\ a.feasible \in BOOLEAN /\ b.feasible \in BOOLEAN /\ c.feasible \in BOOLEAN
      /\ a.fitness \in Int /\ b.fitness \in Int /\ c.fitness \in Int
  BY DEF Incumbents
<1> QED BY <1>1 DEF Better

LEMMA SearchBetter == \A a, b : Search!Better(a, b) <=> Better(a, b)
BY DEF Search!Better, Better

LEMMA VerdictType == \A v \in Findable : v.fitness \in Nat /\ v.feasible \in BOOLEAN
BY FitnessType DEF Findable, Verdict

\* The numbers of a generation follow the n before it.
LEMMA NumberedFacts ==
  ASSUME NEW n \in Nat, NEW l \in Nat, NEW verdicts \in [1..l -> Findable]
  PROVE  \A c \in Search!Numbered(n + 1, verdicts) : c \in Incumbents /\ c.number <= n + l
<1> SUFFICES ASSUME NEW i \in 1..l
             PROVE  LET c == [number |-> (n + 1) + i - 1, feasible |-> verdicts[i].feasible,
                              fitness |-> verdicts[i].fitness]
                    IN c \in Incumbents /\ c.number <= n + l
  BY DEF Search!Numbered
<1>1. (n + 1) + i - 1 \in Nat /\ (n + 1) + i - 1 <= n + l
  OBVIOUS
<1>2. verdicts[i].fitness \in Nat /\ verdicts[i].feasible \in BOOLEAN
  BY VerdictType
<1> QED BY <1>1, <1>2 DEF Incumbents

LEMMA NumberedOneMore ==
  ASSUME NEW n \in Nat, NEW l \in Nat, NEW verdicts \in [1..l -> Findable],
         NEW longer \in [1..(l + 1) -> Findable], \A i \in 1..l : longer[i] = verdicts[i]
  PROVE  Search!Numbered(n + 1, longer)
           = Search!Numbered(n + 1, verdicts)
               \cup {[number |-> n + l + 1, feasible |-> longer[l + 1].feasible, fitness |-> longer[l + 1].fitness]}
<1> DEFINE Candidate(w, i) == [number |-> (n + 1) + i - 1, feasible |-> w.feasible, fitness |-> w.fitness]
           v == longer[l + 1]
<1>1. /\ Search!Numbered(n + 1, longer) = {Candidate(longer[i], i) : i \in 1..(l + 1)}
      /\ Search!Numbered(n + 1, verdicts) = {Candidate(verdicts[i], i) : i \in 1..l}
  BY DEF Search!Numbered
<1>2. Candidate(v, l + 1) = [number |-> n + l + 1, feasible |-> v.feasible, fitness |-> v.fitness]
  <2>1. (n + 1) + (l + 1) - 1 = n + l + 1
    OBVIOUS
  <2> QED BY <2>1
<1>3. 1..(l + 1) = (1..l) \cup {l + 1}
  OBVIOUS
<1> HIDE DEF Candidate
<1>4. {Candidate(longer[i], i) : i \in 1..(l + 1)}
        = {Candidate(verdicts[i], i) : i \in 1..l} \cup {Candidate(v, l + 1)}
  BY <1>3
<1> QED BY <1>1, <1>2, <1>4

\* Before the first candidate of a generation the incumbent stands.
LEMMA NothingContested ==
  ASSUME NEW incumbent \in Incumbents, NEW n \in Nat
  PROVE  Contest(incumbent, incumbent, n, << >>)
<1> DEFINE none == [i \in 1..0 |-> 0]
<1>1. none \in [1..Len(<< >>) -> Findable] /\ << >> = [i \in 1..Len(<< >>) |-> none[i].fitness]
  OBVIOUS
<1>2. Search!Numbered(n + 1, none) = {}
  BY DEF Search!Numbered
<1>3. Search!IsBest(incumbent, {incumbent} \cup {})
  <2>1. incumbent.number \in Nat
    BY DEF Incumbents
  <2> QED BY <2>1, BetterIsOrder, SearchBetter DEF Search!IsBest
<1> HIDE DEF none
<1> QED BY <1>1, <1>2, <1>3 DEF Contest

\* The challenge of one candidate more.
LEMMA OneMoreContested ==
  ASSUME NEW b, NEW incumbent \in Incumbents, NEW n \in Nat, incumbent.number <= n,
         NEW fitness \in Seq(Nat), Contest(b, incumbent, n, fitness),
         NEW o \in Outcomes, NEW e \in Incumbents,
         e = [number |-> n + Len(fitness) + 1, feasible |-> Feasible(o), fitness |-> Fitness(o)]
  PROVE  Contest(IF Better(e, b) THEN e ELSE b, incumbent, n, Append(fitness, Fitness(o)))
<1> DEFINE l == Len(fitness)
           v == Verdict(o)
           more == Append(fitness, Fitness(o))
<1>1. l \in Nat /\ Len(more) = l + 1 /\ more \in Seq(Nat) /\ more[l + 1] = Fitness(o)
      /\ \A i \in 1..l : more[i] = fitness[i]
  BY FitnessType
<1>2. PICK verdicts \in [1..l -> Findable] :
        /\ fitness = [i \in 1..l |-> verdicts[i].fitness]
        /\ Search!IsBest(b, {incumbent} \cup Search!Numbered(n + 1, verdicts))
  BY DEF Contest
<1> DEFINE longer == [i \in 1..(l + 1) |-> IF i = l + 1 THEN v ELSE verdicts[i]]
           all == {incumbent} \cup Search!Numbered(n + 1, verdicts)
<1>3. v \in Findable /\ v.fitness = Fitness(o) /\ v.feasible = Feasible(o)
  BY DEF Findable, Verdict
<1>4. Search!Numbered(n + 1, longer) = Search!Numbered(n + 1, verdicts) \cup {e}
  <2>1. l \in Nat /\ verdicts \in [1..l -> Findable]
    BY <1>1, <1>2
  <2>2. /\ longer \in [1..(l + 1) -> Findable] /\ longer[l + 1] = v
        /\ \A i \in 1..l : longer[i] = verdicts[i]
    BY <1>3, <2>1
  <2>3. e = [number |-> n + l + 1, feasible |-> v.feasible, fitness |-> v.fitness]
    BY <1>3
  <2> HIDE DEF longer, l, v
  <2> QED BY <2>1, <2>2, <2>3, NumberedOneMore
<1>5. \A c \in all : c \in Incumbents /\ c.number <= n + l
  <2>1. \A c \in Search!Numbered(n + 1, verdicts) : c \in Incumbents /\ c.number <= n + l
    BY <1>1, <1>2, NumberedFacts
  <2>2. incumbent.number \in Nat /\ incumbent.number <= n + l
    BY <1>1 DEF Incumbents
  <2> QED BY <2>1, <2>2
<1>6. b \in all /\ \A c \in all : ~ Better(c, b) /\ (~ Better(b, c) => b.number <= c.number)
  BY <1>2, SearchBetter DEF Search!IsBest
<1>7. e.number = n + l + 1 /\ e.number \in Nat
  BY <1>1
<1> HIDE DEF l, all, longer
<1>8. Search!IsBest(IF Better(e, b) THEN e ELSE b, all \cup {e})
  <2>1. CASE Better(e, b)
    <3>1. \A c \in all : Better(e, c) /\ ~ Better(c, e)
      BY <1>5, <1>6, <2>1, BetterIsOrder
    <3>2. ~ Better(e, e) /\ e.number <= e.number
      BY <1>7, BetterIsOrder
    <3> QED BY <2>1, <3>1, <3>2, SearchBetter DEF Search!IsBest
  <2>2. CASE ~ Better(e, b)
    <3>1. b.number <= e.number
      <4>1. b.number \in Nat /\ b.number <= n + l
        BY <1>5, <1>6 DEF Incumbents
      <4> QED BY <1>1, <1>7, <4>1
    <3> QED BY <1>6, <2>2, <3>1, SearchBetter DEF Search!IsBest
  <2> QED BY <2>1, <2>2
<1>9. all \cup {e} = {incumbent} \cup Search!Numbered(n + 1, longer)
  BY <1>4 DEF all
<1>10. longer \in [1..(l + 1) -> Findable] /\ more = [i \in 1..(l + 1) |-> longer[i].fitness]
  <2>1. longer \in [1..(l + 1) -> Findable]
    BY <1>1, <1>2, <1>3 DEF longer
  <2>2. \A i \in 1..(l + 1) : more[i] = longer[i].fitness
    <3> TAKE i \in 1..(l + 1)
    <3>1. CASE i = l + 1
      BY <1>1, <1>3, <3>1 DEF longer
    <3>2. CASE i # l + 1
      <4>1. i \in 1..l
        BY <1>1, <3>2
      <4> QED BY <1>1, <1>2, <3>2, <4>1 DEF longer
    <3> QED BY <3>1, <3>2
  <2> HIDE DEF more
  <2>3. more = [i \in 1..(l + 1) |-> more[i]]
    BY <1>1
  <2> QED BY <2>1, <2>2, <2>3
<1> HIDE DEF more
<1>11. \E w \in [1..Len(more) -> Findable] :
         /\ more = [i \in 1..Len(more) |-> w[i].fitness]
         /\ Search!IsBest(IF Better(e, b) THEN e ELSE b, {incumbent} \cup Search!Numbered(n + 1, w))
  BY <1>1, <1>8, <1>9, <1>10
<1> QED BY <1>11 DEF Contest, more

\* Whoever wins is one of the contestants.
LEMMA WinnerIsNumbered ==
  ASSUME NEW b, NEW incumbent \in Incumbents, NEW n \in Nat, incumbent.number <= n,
         NEW fitness \in Seq(Nat), Contest(b, incumbent, n, fitness)
  PROVE  b.number <= n + Len(fitness)
<1> DEFINE l == Len(fitness)
<1>1. PICK verdicts \in [1..l -> Findable] : Search!IsBest(b, {incumbent} \cup Search!Numbered(n + 1, verdicts))
  BY DEF Contest
<1>2. l \in Nat /\ (b = incumbent \/ b \in Search!Numbered(n + 1, verdicts))
  BY <1>1 DEF Search!IsBest
<1> HIDE DEF l
<1>3. CASE b = incumbent
  <2>1. b.number \in Nat
    BY <1>3 DEF Incumbents
  <2> QED BY <1>2, <1>3, <2>1 DEF l
<1>4. CASE b \in Search!Numbered(n + 1, verdicts)
  BY <1>1, <1>2, <1>4, NumberedFacts DEF l
<1> QED BY <1>2, <1>3, <1>4

\* A generation that is saved: one more, and its contest decided the incumbent.
LEMMA SavedGeneration ==
  ASSUME Structure, Ranking, mem.phase = "saving"
  PROVE  /\ HistoryOK(checkpoint.batches) /\ mem.batches = Append(checkpoint.batches, Newest)
         /\ Newest = [points |-> Newest.points, fitness |-> Newest.fitness]
         /\ IsList(Newest.points) /\ Newest.fitness \in Seq(Nat)
         /\ Len(Newest.points) \in 1..BatchSize /\ Len(Newest.fitness) = Len(Newest.points)
         /\ Candidates(mem.batches) = Candidates(checkpoint.batches) + Len(Newest.points)
         /\ checkpoint.best \in Incumbents /\ Candidates(checkpoint.batches) \in Nat
         /\ Contest(mem.best, checkpoint.best, Candidates(checkpoint.batches), Newest.fitness)
         /\ mem.best.number <= Candidates(mem.batches)
<1>1. /\ HistoryOK(checkpoint.batches) /\ mem.batches = Append(checkpoint.batches, Newest)
      /\ Newest = [points |-> Newest.points, fitness |-> Newest.fitness]
      /\ IsList(Newest.points) /\ Newest.fitness \in Seq(Nat)
      /\ Len(Newest.points) \in 1..BatchSize /\ Len(Newest.fitness) = Len(Newest.points)
  BY DEF Structure, Histories, OneMore
<1>2. Candidates(Append(checkpoint.batches, [points |-> Newest.points, fitness |-> Newest.fitness]))
        = Candidates(checkpoint.batches) + Len(Newest.points)
  BY <1>1, LongerHistory
<1>3. Candidates(mem.batches) = Candidates(checkpoint.batches) + Len(Newest.points)
  BY <1>1, <1>2
<1>4. /\ checkpoint.best \in Incumbents /\ Candidates(checkpoint.batches) \in Nat
      /\ checkpoint.best.number <= Candidates(checkpoint.batches)
      /\ Contest(mem.best, checkpoint.best, Candidates(checkpoint.batches), Newest.fitness)
  BY SearchNumbers DEF Ranking, Structure, TypeOK, StoredTypeOK
<1>5. mem.best.number <= Candidates(checkpoint.batches) + Len(Newest.fitness)
  BY <1>1, <1>4, WinnerIsNumbered
<1> QED BY <1>1, <1>3, <1>4, <1>5

LEMMA InitRanking == Init => Ranking
<1> SUFFICES ASSUME Init PROVE Ranking
  OBVIOUS
<1>1. checkpoint.batches = << >> /\ checkpoint.best.number = 0 /\ mem.phase = "idle"
  BY DEF Init, Idle, NoCandidate
<1>2. Candidates(checkpoint.batches) = 0
  BY <1>1, EmptyHistory
<1> QED BY <1>1, <1>2 DEF Ranking, Live, InGeneration

LEMMA NextKeepsRanking ==
  ASSUME Structure, Ranking, [Next]_vars
  PROVE  Ranking'
<1>0. checkpoint.best \in Incumbents /\ Candidates(checkpoint.batches) \in Nat
  BY SearchNumbers DEF Structure, TypeOK, StoredTypeOK
<1>1. CASE Open \/ ResumeWithMore \/ Crash \/ EmitStopped
  <2>1. ~ Live' /\ UNCHANGED checkpoint
    BY <1>1, NoProcess
  <2> QED BY <2>1 DEF Ranking, Live, InGeneration
<1>2. CASE BeginFresh \/ Resume
  <2>1. /\ mem'.phase = "looping" /\ mem'.best = checkpoint.best
        /\ checkpoint'.batches = checkpoint.batches /\ checkpoint'.best = checkpoint.best
    BY <1>2, BeginFreshFacts, ResumeFacts
  <2> QED BY <2>1 DEF Ranking, InGeneration
<1>3. CASE TakeCancel \/ ReachLimit \/ RunOut
  <2>1. /\ mem.phase = "looping" /\ mem'.phase = "stopping" /\ UNCHANGED <<mem.best, checkpoint>>
    BY <1>3, StoppingFacts
  <2> QED BY <2>1 DEF Ranking, Live, InGeneration
<1>4. CASE AskBatch
  <2>1. /\ mem.phase = "looping" /\ mem'.phase = "generating" /\ UNCHANGED <<mem.best, mem.fitness, checkpoint>>
    BY <1>4, AskFacts
  <2>2. mem.best = checkpoint.best /\ mem.fitness = << >>
    BY <2>1 DEF Structure, Progress, Ranking, Live, InGeneration
  <2>3. Contest(mem'.best, checkpoint'.best, Candidates(checkpoint'.batches), mem'.fitness)
    BY <1>0, <2>1, <2>2, NothingContested
  <2> QED BY <2>1, <2>3 DEF Ranking, InGeneration
<1>5. CASE GenerateCandidate \/ Evaluate
  <2>1. /\ InGeneration /\ InGeneration' /\ UNCHANGED <<mem.best, mem.fitness, checkpoint>>
    BY <1>5, GenerateFacts, EvaluateFacts DEF InGeneration
  <2> QED BY <2>1 DEF Ranking, InGeneration
<1>6. CASE RecordCandidate
  <2> DEFINE next == IF Better(Evaluated, mem.best) THEN Evaluated ELSE mem.best
  <2>1. /\ mem.phase = "evaluated" /\ mem'.phase \in {"evaluating", "completing"}
        /\ mem'.best = next /\ mem'.fitness = Append(mem.fitness, Fitness(mem.outcome)) /\ UNCHANGED checkpoint
    BY <1>6, RecordFacts
  <2>2. mem.batches = checkpoint.batches /\ mem.fitness \in Seq(Nat)
        /\ Contest(mem.best, checkpoint.best, Candidates(checkpoint.batches), mem.fitness)
        /\ checkpoint.best.number <= Candidates(checkpoint.batches)
    BY <2>1 DEF Structure, Histories, TypeOK, MemoryTypeOK, Ranking, InGeneration, Live
  <2>3. /\ mem.outcome \in Outcomes /\ Evaluated \in Incumbents
        /\ Evaluated.number = Candidates(mem.batches) + Len(mem.fitness) + 1
    BY <2>1, EvaluatedFacts
  <2>4. Evaluated = [number |-> Candidates(checkpoint.batches) + Len(mem.fitness) + 1,
                     feasible |-> Feasible(mem.outcome), fitness |-> Fitness(mem.outcome)]
    BY <2>2, <2>3 DEF Evaluated
  <2>5. Contest(next, checkpoint.best, Candidates(checkpoint.batches), Append(mem.fitness, Fitness(mem.outcome)))
    BY <1>0, <2>2, <2>3, <2>4, OneMoreContested
  <2> HIDE DEF next
  <2> QED BY <2>1, <2>2, <2>5 DEF Ranking, InGeneration
<1>7. CASE CompleteGeneration
  <2>1. /\ mem.phase = "completing" /\ mem'.phase = "saving" /\ UNCHANGED <<mem.best, checkpoint>>
        /\ Newest' = [points |-> mem.points, fitness |-> mem.fitness]
    BY <1>7, CompleteFacts DEF Newest
  <2>2. Newest'.fitness = mem.fitness
    BY <2>1
  <2> QED BY <2>1, <2>2 DEF Ranking, InGeneration
<1>8. CASE SaveGeneration \/ Stop
  <2>1. /\ mem.phase \in {"saving", "stopping"} /\ mem'.phase \in {"looping", "stopping", "stopped"}
        /\ checkpoint'.batches = mem.batches /\ checkpoint'.best = mem.best /\ UNCHANGED mem.best
    BY <1>8, SaveFacts
  <2>2. mem.best.number <= Candidates(mem.batches)
    <3>1. CASE mem.phase = "saving"
      BY <3>1, SavedGeneration
    <3>2. CASE mem.phase = "stopping"
      BY <3>2 DEF Ranking, Structure, Histories, Live, InGeneration
    <3> QED BY <2>1, <3>1, <3>2
  <2> QED BY <2>1, <2>2 DEF Ranking, InGeneration
<1>9. CASE RequestCancel \/ UNCHANGED vars
  <2>1. UNCHANGED <<checkpoint, mem>>
    BY <1>9 DEF RequestCancel, vars
  <2> QED BY <2>1 DEF Ranking, Live, InGeneration, Newest
<1> QED BY <1>1, <1>2, <1>3, <1>4, <1>5, <1>6, <1>7, <1>8, <1>9 DEF Next

\* Saving a generation is the next generation of the search; no other step touches what is on record.
LEMMA SavingIsNextGeneration ==
  ASSUME Structure, Ranking, SaveGeneration
  PROVE  Search!NextGeneration
<1>1. /\ checkpoint'.batches = mem.batches /\ checkpoint'.best = mem.best /\ config'.kind = config.kind
      /\ mem.phase = "saving"
  BY SaveFacts DEF SaveGeneration
<1>2. /\ mem.batches = Append(checkpoint.batches, Newest) /\ IsList(checkpoint.batches)
      /\ Newest = [points |-> Newest.points, fitness |-> Newest.fitness]
      /\ Len(Newest.points) \in 1..BatchSize /\ Len(Newest.fitness) = Len(Newest.points)
      /\ Contest(mem.best, checkpoint.best, Candidates(checkpoint.batches), Newest.fitness)
  BY <1>1, SavedGeneration, HistoryFacts
<1>3. PICK n \in 1..BatchSize : Newest.points = ProposalAfter(config.kind, checkpoint.batches, n)
  BY <1>1 DEF Structure, Plans, Proposed, ProposalAfter
<1>4. PICK verdicts \in [1..Len(Newest.fitness) -> Findable] :
        /\ Newest.fitness = [i \in 1..Len(Newest.fitness) |-> verdicts[i].fitness]
        /\ Search!IsBest(mem.best, {checkpoint.best} \cup Search!Numbered(Candidates(checkpoint.batches) + 1, verdicts))
  BY <1>2 DEF Contest
<1>5. Len(checkpoint'.batches) = Len(checkpoint.batches) + 1
      /\ checkpoint'.batches[Len(checkpoint'.batches)] = Newest
  BY <1>1, <1>2, AppendList
<1>6. Newest.points # << >>
  BY <1>2
<1>7. Search!Generation(Newest.points, Newest.fitness)
  <2> DEFINE points == Newest.points
             fitness == Newest.fitness
  <2>1. checkpoint'.batches = Append(checkpoint.batches, [points |-> points, fitness |-> fitness])
    BY <1>1, <1>2
  <2>2. \E k \in 1..BatchSize : points = ProposalAfter(config.kind, checkpoint.batches, k)
    BY <1>3
  <2>3. \E w \in [1..Len(points) -> {Verdict(o) : o \in Outcomes}] :
          /\ fitness = [i \in 1..Len(points) |-> w[i].fitness]
          /\ Search!IsBest(checkpoint'.best, {checkpoint.best} \cup Search!Numbered(Candidates(checkpoint.batches) + 1, w))
    BY <1>1, <1>2, <1>4 DEF Findable
  <2> HIDE DEF points, fitness
  <2> QED BY <1>1, <1>6, <2>1, <2>2, <2>3 DEF Search!Generation, points, fitness
<1> QED BY <1>5, <1>7 DEF Search!NextGeneration

LEMMA RecordIsKept ==
  ASSUME Structure, Ranking, [Next]_vars, ~ SaveGeneration
  PROVE  UNCHANGED <<config.kind, checkpoint.batches, checkpoint.best>>
<1>1. CASE Open \/ ResumeWithMore \/ Crash \/ EmitStopped
  BY <1>1, NoProcess
<1>2. CASE BeginFresh \/ Resume
  BY <1>2, BeginFreshFacts, ResumeFacts
<1>3. CASE TakeCancel \/ ReachLimit \/ RunOut \/ AskBatch
  BY <1>3, StoppingFacts, AskFacts
<1>4. CASE GenerateCandidate \/ Evaluate \/ RecordCandidate \/ CompleteGeneration
  BY <1>4, GenerateFacts, EvaluateFacts, RecordFacts, CompleteFacts
<1>5. CASE Stop
  <2>1. /\ UNCHANGED config /\ checkpoint'.batches = mem.batches /\ checkpoint'.best = mem.best
        /\ mem.phase = "stopping"
    BY <1>5, SaveFacts DEF Stop
  <2>2. mem.batches = checkpoint.batches /\ mem.best = checkpoint.best
    BY <2>1 DEF Ranking, Structure, Histories, Live, InGeneration
  <2> QED BY <2>1, <2>2
<1>6. CASE RequestCancel \/ UNCHANGED vars
  BY <1>6 DEF RequestCancel, vars
<1> QED BY <1>1, <1>2, <1>3, <1>4, <1>5, <1>6 DEF Next

(* The search in the checkpoint is the search that is never interrupted       *)
(* (engine.py, run and resume): every generation is what the strategy         *)
(* proposes after the ones before it, and the incumbent the first best of     *)
(* them all - for every kind of strategy, whatever it draws and scores, for   *)
(* any number of crashes, of resumes and of extensions of the budget.         *)
THEOREM SearchIsUninterrupted == Spec => ImplementsUninterrupted
<1> DEFINE Inv == Structure /\ Ranking
<1>1. Init => Inv
  BY InitStructure, InitRanking
<1>2. Inv /\ [Next]_vars => Inv'
  BY NextKeepsStructure, NextKeepsRanking
<1>3. Init => Search!Started
  BY DEF Init, Search!Started, Search!NoCandidate, NoCandidate
<1>4. Inv /\ [Next]_vars => [Search!NextGeneration]_<<config.kind, checkpoint.batches, checkpoint.best>>
  BY SavingIsNextGeneration, RecordIsKept
<1> QED BY <1>1, <1>2, <1>3, <1>4, PTL DEF Spec, ImplementsUninterrupted, Search!Spec

-----------------------------------------------------------------------------
(* The numbers of the candidates *)

\* What a strategy would propose after a history, had it room for a full batch.
Planned(kind, batches) == Ask(kind, StrategyAfter(kind, batches), BatchSize)

\* A generation begins as it was planned, and ends before that only where the candidates run out.
Begun(kind, batches, limit, points) ==
  LET plan == Planned(kind, batches)
  IN /\ Len(points) <= Len(plan)
     /\ \A i \in 1..Len(points) : points[i] = plan[i]
     /\ Len(points) = Len(plan) \/ Candidates(batches) + Len(points) >= limit

Number(e) == e.version - FirstVersion + 1

\* An event names the recorded candidate of its number, or the one that is planned for it.
OnPlan(e, kind, batches) ==
  \/ Number(e) \in 1..Candidates(batches) /\ e.point = Recorded(batches)[Number(e)].point
  \/ \E i \in 1..Len(Planned(kind, batches)) :
       Number(e) = Candidates(batches) + i /\ e.point = Planned(kind, batches)[i]

Named(events) == {i \in DOMAIN events : events[i].type \in {"generated", "evaluated"}}

OneName(events) ==
  \A i, j \in Named(events) : events[i].version = events[j].version => events[i].point = events[j].point

AllOnPlan(events, kind, batches) == \A i \in Named(events) : OnPlan(events[i], kind, batches)

\* No generation follows one that took the last of the candidates.
NoRoom == Candidates(checkpoint.batches) >= config.maxCandidates

Names ==
  /\ InGeneration => Begun(config.kind, checkpoint.batches, config.maxCandidates, mem.points)
  /\ mem.phase = "saving" => Begun(config.kind, checkpoint.batches, config.maxCandidates, Newest.points)
  /\ reruns <= 1 => OneName(emitted) /\ (NoRoom \/ AllOnPlan(emitted, config.kind, checkpoint.batches))
  /\ reruns = 0 => /\ AllOnPlan(emitted, config.kind, checkpoint.batches)
                   /\ \A i \in Named(emitted) : Number(emitted[i]) <= config.maxCandidates

\* What is asked for when the loop goes on is the beginning of the plan.
LEMMA AskBeginsPlan ==
  ASSUME Structure, Budgeted, AskBatch
  PROVE  Begun(config.kind, checkpoint.batches, config.maxCandidates, Proposal)
<1> DEFINE s == StrategyAfter(config.kind, checkpoint.batches)
           plan == Planned(config.kind, checkpoint.batches)
           c == Candidates(checkpoint.batches)
<1>1. /\ mem.phase = "looping" /\ mem.batches = checkpoint.batches /\ config.kind \in Kinds
      /\ StrategyOK(config.kind, s)
  BY AskFacts DEF Structure, Histories, Plans, Live, TypeOK, StoredTypeOK
<1>2. /\ Proposal = Ask(config.kind, s, BatchToAsk) /\ BatchToAsk \in 1..BatchSize
      /\ BatchToAsk <= BatchSize /\ BatchSize \in Nat /\ BatchToAsk \in Nat
  BY <1>1, AskFacts, ConstantTypes
<1>3. mem.budget.candidates = c /\ c \in Nat /\ config.maxCandidates \in Nat
  <2>1. Live /\ Paid = 0 /\ Len(mem.fitness) = 0
    BY <1>1, NothingUnpaid DEF Live, InGeneration
  <2> QED BY <1>1, <2>1, SearchNumbers DEF Budgeted
<1>4. plan = Ask(config.kind, s, BatchSize)
  BY DEF Planned
<1>5. /\ Len(Proposal) \in Nat /\ Len(plan) \in Nat /\ Len(Proposal) <= Len(plan)
      /\ Len(Proposal) = BatchToAsk \/ Len(Proposal) = Len(plan)
      /\ \A i \in 1..Len(Proposal) : Proposal[i] = plan[i]
  <2> HIDE DEF s
  <2> QED BY <1>1, <1>2, <1>4, AskPrefix
<1>6. Len(plan) <= BatchSize
  BY <1>1, <1>2, <1>4, AskList
<1>7. BatchToAsk = BatchSize \/ BatchToAsk = config.maxCandidates - c
  BY <1>2, <1>3, MinOfTwo DEF BatchToAsk
<1> HIDE DEF s, plan, c
<1>8. Len(Proposal) = Len(plan) \/ c + Len(Proposal) >= config.maxCandidates
  BY <1>2, <1>3, <1>5, <1>6, <1>7
<1> QED BY <1>5, <1>8 DEF Begun, plan, c

\* Two events with one number name one point.
LEMMA PlanNamesOnce ==
  ASSUME NEW kind, NEW batches, HistoryOK(batches), NEW e, NEW f, OnPlan(e, kind, batches),
         OnPlan(f, kind, batches), e.version = f.version
  PROVE  e.point = f.point
<1> DEFINE n == Number(e)
           c == Candidates(batches)
           plan == Planned(kind, batches)
<1>1. c \in Nat
  BY HistoryFacts
<1>2. n = Number(f)
  BY DEF Number
<1>3. /\ \/ n \in 1..c /\ e.point = Recorded(batches)[n].point
         \/ \E i \in 1..Len(plan) : n = c + i /\ e.point = plan[i]
      /\ \/ n \in 1..c /\ f.point = Recorded(batches)[n].point
         \/ \E i \in 1..Len(plan) : n = c + i /\ f.point = plan[i]
  BY <1>2 DEF OnPlan
<1> HIDE DEF n, c, plan
<1>4. \A i \in 1..Len(plan) : \A j \in 1..Len(plan) : c + i = c + j => i = j
  BY <1>1
<1>5. \A i \in 1..Len(plan) : c + i \notin 1..c
  BY <1>1
<1> QED BY <1>3, <1>4, <1>5

LEMMA OnPlanNamesOnce ==
  ASSUME NEW kind, NEW batches, HistoryOK(batches), NEW events, AllOnPlan(events, kind, batches)
  PROVE  OneName(events)
BY PlanNamesOnce DEF AllOnPlan, OneName

\* An event that was on the plan of a history is on that of the history with the next generation,
\* unless it was planned beyond the end of that generation.
LEMMA PlanContinues ==
  ASSUME NEW kind, NEW batches, HistoryOK(batches), NEW points, IsList(points),
         NEW fitness \in Seq(Nat), Len(fitness) = Len(points), NEW limit, Begun(kind, batches, limit, points),
         NEW e, OnPlan(e, kind, batches),
         Len(points) = Len(Planned(kind, batches)) \/ Number(e) <= Candidates(batches) + Len(points)
  PROVE  OnPlan(e, kind, Append(batches, [points |-> points, fitness |-> fitness]))
<1> DEFINE more == Append(batches, [points |-> points, fitness |-> fitness])
           c == Candidates(batches)
           l == Len(points)
           plan == Planned(kind, batches)
           n == Number(e)
<1>1. c \in Nat /\ l \in Nat
  BY HistoryFacts, ListFacts
<1>2. /\ Candidates(more) = c + l
      /\ \A i \in 1..(c + l) :
           Recorded(more)[i] = IF i <= c THEN Recorded(batches)[i] ELSE [point |-> points[i - c], fitness |-> fitness[i - c]]
  BY LongerHistory
<1>3. /\ \/ n \in 1..c /\ e.point = Recorded(batches)[n].point
         \/ \E i \in 1..Len(plan) : n = c + i /\ e.point = plan[i]
      /\ \A i \in 1..l : points[i] = plan[i]
      /\ l = Len(plan) \/ n <= c + l
  BY DEF OnPlan, Begun
<1> HIDE DEF more, c, l, plan, n
<1>4. n \in 1..(c + l) /\ e.point = Recorded(more)[n].point
  <2>1. CASE n \in 1..c /\ e.point = Recorded(batches)[n].point
    <3>1. n \in 1..(c + l) /\ n <= c
      BY <1>1, <2>1
    <3> QED BY <1>2, <2>1, <3>1
  <2>2. CASE \E i \in 1..Len(plan) : n = c + i /\ e.point = plan[i]
    <3>1. PICK i \in 1..Len(plan) : n = c + i /\ e.point = plan[i]
      BY <2>2
    <3>2. i \in 1..l
      BY <1>1, <1>3, <3>1
    <3>3. n \in 1..(c + l) /\ ~ (n <= c) /\ n - c = i
      BY <1>1, <3>1, <3>2
    <3>4. Recorded(more)[n] = [point |-> points[i], fitness |-> fitness[i]]
      BY <1>2, <3>3
    <3> QED BY <1>3, <3>1, <3>2, <3>3, <3>4
  <2> QED BY <1>3, <2>1, <2>2
<1> QED BY <1>2, <1>4 DEF OnPlan, n, more

\* What the process of a generation that began as planned writes about a candidate is on the plan.
LEMMA NextEventOnPlan ==
  ASSUME Structure, mem.phase \in {"generating", "evaluated"},
         Begun(config.kind, checkpoint.batches, config.maxCandidates, mem.points)
  PROVE  /\ OnPlan(NextEvent, config.kind, checkpoint.batches)
         /\ Number(NextEvent) <= Candidates(checkpoint.batches) + Len(mem.points)
<1> DEFINE c == Candidates(checkpoint.batches)
           l == Len(mem.points)
           plan == Planned(config.kind, checkpoint.batches)
<1>1. c \in Nat /\ l \in Nat /\ Len(mem.fitness) \in Nat /\ FirstVersion \in Nat
  BY SearchNumbers, ConstantTypes
<1>2. /\ mem.batches = checkpoint.batches /\ mem.next = FirstVersion + c + mem.generated
  BY DEF Structure, Histories, Live
<1>3. l <= Len(plan) /\ \A i \in 1..l : mem.points[i] = plan[i]
  BY DEF Begun
<1>4. \E i \in 1..l : Number(NextEvent) = c + i /\ NextEvent.point = mem.points[i]
  <2>1. CASE mem.phase = "generating"
    <3> DEFINE i == mem.generated + 1
    <3>1. mem.generated \in Nat /\ mem.generated < l
      BY <1>1, <2>1 DEF Structure, Progress, TypeOK, MemoryTypeOK
    <3>2. i \in 1..l
      BY <1>1, <3>1
    <3>3. NextEvent.version = mem.next /\ NextEvent.point = mem.points[i]
      BY <2>1 DEF NextEvent, Event
    <3>4. mem.next - FirstVersion + 1 = c + i
      BY <1>1, <1>2, <3>1
    <3> QED BY <3>2, <3>3, <3>4 DEF Number
  <2>2. CASE mem.phase = "evaluated"
    <3> DEFINE i == Len(mem.fitness) + 1
    <3>1. mem.generated = l /\ Len(mem.fitness) < l
      BY <2>2 DEF Structure, Progress
    <3>2. i \in 1..l
      BY <1>1, <3>1
    <3>3. NextEvent.version = mem.next - l + i - 1 /\ NextEvent.point = mem.points[i]
      BY <2>2 DEF NextEvent, Event
    <3>4. (mem.next - l + i - 1) - FirstVersion + 1 = c + i
      BY <1>1, <1>2, <3>1
    <3> QED BY <3>2, <3>3, <3>4 DEF Number
  <2> QED BY <2>1, <2>2
<1>5. PICK i \in 1..l : Number(NextEvent) = c + i /\ NextEvent.point = mem.points[i]
  BY <1>4
<1>6. Len(plan) \in Nat
  <2>1. config.kind \in Kinds /\ StrategyOK(config.kind, StrategyAfter(config.kind, checkpoint.batches))
    BY DEF Structure, Plans, TypeOK, StoredTypeOK
  <2> QED BY <2>1, AskList, ListFacts, ConstantTypes DEF Planned
<1> HIDE DEF c, l, plan
<1>7. i \in 1..Len(plan) /\ c + i <= c + l
  BY <1>1, <1>3, <1>5, <1>6
<1> QED BY <1>3, <1>5, <1>7 DEF OnPlan, c, l, plan

\* A step writes one event at most; one that names a candidate is that of the generation in hand.
LEMMA NamesAreWritten ==
  ASSUME Structure, [Next]_vars
  PROVE  \/ emitted' = emitted
         \/ \E f : /\ emitted' = Append(emitted, f)
                   /\ f.type \in {"generated", "evaluated"} =>
                        f = NextEvent /\ mem.phase \in {"generating", "evaluated"}
<1>0. mem.phase \in {"opened", "completing", "stopped"} => NextEvent.type \notin {"generated", "evaluated"}
  BY DEF NextEvent, Milestone, Event
<1>1. CASE BeginFresh
  BY <1>1 DEF BeginFresh, Emit, Milestone, Event
<1>2. CASE GenerateCandidate \/ RecordCandidate \/ CompleteGeneration \/ EmitStopped
  BY <1>0, <1>2 DEF GenerateCandidate, RecordCandidate, CompleteGeneration, EmitStopped, Emit
<1>3. CASE Crash
  BY <1>0, <1>3 DEF Crash, Emitting, TearEmit
<1>4. CASE Open \/ ResumeWithMore
  BY <1>4 DEF Open, ResumeWithMore, OpenLog
<1>5. CASE Resume \/ TakeCancel \/ ReachLimit \/ AskBatch \/ RunOut \/ Evaluate \/ SaveGeneration \/ Stop
            \/ RequestCancel \/ UNCHANGED vars
  BY <1>5 DEF Resume, TakeCancel, ReachLimit, AskBatch, RunOut, Evaluate, SaveGeneration, Stop, RequestCancel,
              vars, logVars
<1> QED BY <1>1, <1>2, <1>3, <1>4, <1>5 DEF Next

\* Whoever writes, the names of the log stay what they were before, as far as history goes.
LEMMA NamesStay ==
  ASSUME Structure, LogInv, Budgeted, Names, [Next]_vars
  PROVE  /\ reruns <= 1 => OneName(emitted') /\ (NoRoom \/ AllOnPlan(emitted', config.kind, checkpoint.batches))
         /\ reruns = 0 => /\ AllOnPlan(emitted', config.kind, checkpoint.batches)
                          /\ \A i \in Named(emitted') : Number(emitted'[i]) <= config.maxCandidates
<1>1. CASE emitted' = emitted
  BY <1>1 DEF Names
<1>2. CASE emitted' # emitted
  <2>1. PICK f : /\ emitted' = Append(emitted, f)
                 /\ f.type \in {"generated", "evaluated"} => f = NextEvent /\ mem.phase \in {"generating", "evaluated"}
    BY <1>2, NamesAreWritten
  <2>2. \A i \in Named(emitted') : \/ i \in Named(emitted) /\ emitted'[i] = emitted[i]
                                   \/ f.type \in {"generated", "evaluated"} /\ emitted'[i] = f
    <3>1. IsList(emitted)
      BY DEF LogInv
    <3> DEFINE more == Append(emitted, f)
    <3>2. /\ Len(emitted) \in Nat /\ DOMAIN emitted = 1..Len(emitted) /\ DOMAIN more = 1..(Len(emitted) + 1)
          /\ more[Len(emitted) + 1] = f /\ \A k \in 1..Len(emitted) : more[k] = emitted[k]
      BY <3>1, ListFacts DEF IsList
    <3>3. emitted' = more
      BY <2>1
    <3> HIDE DEF more
    <3> QED BY <3>2, <3>3 DEF Named
  <2>3. CASE f.type \notin {"generated", "evaluated"}
    <3>1. \A i \in Named(emitted') : i \in Named(emitted) /\ emitted'[i] = emitted[i]
      BY <2>2, <2>3
    <3>2. OneName(emitted) => OneName(emitted')
      BY <3>1 DEF OneName
    <3>3. AllOnPlan(emitted, config.kind, checkpoint.batches) => AllOnPlan(emitted', config.kind, checkpoint.batches)
      BY <3>1 DEF AllOnPlan
    <3> QED BY <3>1, <3>2, <3>3 DEF Names
  <2>4. CASE f.type \in {"generated", "evaluated"}
    <3>1. f = NextEvent /\ mem.phase \in {"generating", "evaluated"} /\ InGeneration /\ Live
      BY <2>1, <2>4 DEF InGeneration, Live
    <3>2. Begun(config.kind, checkpoint.batches, config.maxCandidates, mem.points)
      BY <3>1 DEF Names
    <3>3. /\ OnPlan(f, config.kind, checkpoint.batches)
          /\ Number(f) <= Candidates(checkpoint.batches) + Len(mem.points) /\ Number(f) \in Int
      <4>1. /\ OnPlan(NextEvent, config.kind, checkpoint.batches)
            /\ Number(NextEvent) <= Candidates(checkpoint.batches) + Len(mem.points)
        BY <3>1, <3>2, NextEventOnPlan
      <4>2. Candidates(checkpoint.batches) \in Nat
        BY SearchNumbers
      <4> QED BY <3>1, <4>1, <4>2 DEF OnPlan
    <3>4. /\ Candidates(checkpoint.batches) \in Nat /\ Len(mem.points) \in Nat /\ config.maxCandidates \in Nat
          /\ Len(mem.points) # 0 /\ Candidates(checkpoint.batches) + Len(mem.points) <= config.maxCandidates
      <4>1. mem.batches = checkpoint.batches /\ Candidates(mem.batches) + Len(mem.points) <= config.maxCandidates
        BY <3>1 DEF Budgeted, Structure, Histories
      <4>2. Len(mem.points) # 0
        BY <3>1, SearchNumbers DEF Structure, Progress, TypeOK, MemoryTypeOK
      <4> QED BY <4>1, <4>2, SearchNumbers
    <3>5. ~ NoRoom
      BY <3>4 DEF NoRoom
    <3>6. Number(f) <= config.maxCandidates
      BY <3>3, <3>4
    <3>7. AllOnPlan(emitted, config.kind, checkpoint.batches) => AllOnPlan(emitted', config.kind, checkpoint.batches)
      BY <2>2, <3>3 DEF AllOnPlan
    <3>8. HistoryOK(checkpoint.batches)
      BY DEF Structure, Histories
    <3>9. AllOnPlan(emitted', config.kind, checkpoint.batches) => OneName(emitted')
      BY <3>8, OnPlanNamesOnce
    <3> QED BY <2>2, <3>5, <3>6, <3>7, <3>9 DEF Names
  <2> QED BY <2>3, <2>4
<1> QED BY <1>1, <1>2

\* A generation that is saved leaves every name of the log on the plan, or no room for another one.
LEMMA SaveKeepsNames ==
  ASSUME Structure, LogInv, Budgeted, Names, SaveGeneration \/ Stop
  PROVE  Names'
<1> DEFINE b == Newest
<1>1. /\ mem.phase \in {"saving", "stopping"} /\ mem'.phase \in {"looping", "stopping", "stopped"}
      /\ checkpoint'.batches = mem.batches /\ UNCHANGED <<config, reruns, emitted>>
  BY SaveFacts DEF logVars
<1>2. ~ InGeneration' /\ mem'.phase # "saving" /\ Live
  BY <1>1 DEF InGeneration, Live
<1>3. CASE mem.phase = "stopping"
  <2>1. mem.batches = checkpoint.batches
    BY <1>2, <1>3 DEF Structure, Histories
  <2> QED BY <1>1, <1>2, <2>1 DEF Names, NoRoom
<1>4. CASE mem.phase = "saving"
  <2>1. /\ OneMore /\ HistoryOK(checkpoint.batches)
        /\ Begun(config.kind, checkpoint.batches, config.maxCandidates, b.points)
    BY <1>4 DEF Structure, Histories, Names
  <2>2. /\ mem.batches = Append(checkpoint.batches, [points |-> b.points, fitness |-> b.fitness])
        /\ IsList(b.points) /\ b.fitness \in Seq(Nat) /\ Len(b.fitness) = Len(b.points)
        /\ Len(b.points) \in Nat /\ Len(b.points) # 0
    BY <2>1, ConstantTypes DEF OneMore
  <2> HIDE DEF b
  <2>3. Candidates(mem.batches) = Candidates(checkpoint.batches) + Len(b.points)
    BY <2>1, <2>2, LongerHistory
  <2>4. /\ Candidates(checkpoint.batches) \in Nat /\ config.maxCandidates \in Nat
        /\ Candidates(mem.batches) <= config.maxCandidates
    <3>1. Candidates(mem.batches) + Len(mem.points) <= config.maxCandidates
      BY <1>2 DEF Budgeted
    <3> QED BY <3>1, SearchNumbers
  <2>5. ~ NoRoom
    BY <2>2, <2>3, <2>4 DEF NoRoom
  <2>6. reruns <= 1 => OneName(emitted) /\ AllOnPlan(emitted, config.kind, checkpoint.batches)
    BY <2>5 DEF Names
  <2>7. \A e : OnPlan(e, config.kind, checkpoint.batches)
               /\ (Len(b.points) = Len(Planned(config.kind, checkpoint.batches))
                   \/ Number(e) <= Candidates(checkpoint.batches) + Len(b.points))
                 => OnPlan(e, config.kind, mem.batches)
    BY <2>1, <2>2, PlanContinues
  <2>8. CASE Len(b.points) = Len(Planned(config.kind, checkpoint.batches))
    <3>1. AllOnPlan(emitted, config.kind, checkpoint.batches) => AllOnPlan(emitted, config.kind, mem.batches)
      BY <2>7, <2>8 DEF AllOnPlan
    <3>2. reruns = 0 => \A i \in Named(emitted) : Number(emitted[i]) <= config.maxCandidates
      BY DEF Names
    <3>3. reruns = 0 => AllOnPlan(emitted, config.kind, checkpoint.batches)
      BY DEF Names
    <3> QED BY <1>1, <1>2, <2>6, <3>1, <3>2, <3>3 DEF Names
  <2>9. CASE Len(b.points) # Len(Planned(config.kind, checkpoint.batches))
    <3>1. Candidates(mem.batches) >= config.maxCandidates
      BY <2>1, <2>3, <2>9 DEF Begun
    <3>2. Candidates(checkpoint.batches) + Len(b.points) = config.maxCandidates
      <4>1. Candidates(checkpoint.batches) + Len(b.points) <= config.maxCandidates
        BY <2>3, <2>4
      <4>2. Candidates(checkpoint.batches) + Len(b.points) >= config.maxCandidates
        BY <2>3, <3>1
      <4>3. \A c, l, m \in Nat : c + l <= m /\ c + l >= m => c + l = m
        OBVIOUS
      <4>4. Candidates(checkpoint.batches) \in Nat /\ Len(b.points) \in Nat /\ config.maxCandidates \in Nat
        BY <2>2, <2>4
      <4> QED BY <4>1, <4>2, <4>3, <4>4
    <3>3. NoRoom'
      BY <1>1, <3>1 DEF NoRoom
    <3>4. ASSUME reruns = 0
          PROVE  /\ AllOnPlan(emitted, config.kind, mem.batches)
                 /\ \A i \in Named(emitted) : Number(emitted[i]) <= config.maxCandidates
      <4>1. /\ AllOnPlan(emitted, config.kind, checkpoint.batches)
            /\ \A i \in Named(emitted) : Number(emitted[i]) <= config.maxCandidates
        BY <3>4 DEF Names
      <4>2. AllOnPlan(emitted, config.kind, mem.batches)
        BY <2>7, <3>2, <4>1 DEF AllOnPlan
      <4> QED BY <4>1, <4>2
    <3> QED BY <1>1, <1>2, <2>6, <3>3, <3>4 DEF Names
  <2> QED BY <2>8, <2>9
<1> QED BY <1>1, <1>3, <1>4

LEMMA NextKeepsNames ==
  ASSUME Structure, LogInv, Budgeted, Names, [Next]_vars
  PROVE  Names'
<1>0. /\ reruns <= 1 => OneName(emitted') /\ (NoRoom \/ AllOnPlan(emitted', config.kind, checkpoint.batches))
      /\ reruns = 0 => /\ AllOnPlan(emitted', config.kind, checkpoint.batches)
                       /\ \A i \in Named(emitted') : Number(emitted'[i]) <= config.maxCandidates
      /\ reruns \in Nat
  BY NamesStay, EngineAssumption DEF Structure, TypeOK, StoredTypeOK
<1>1. CASE Open
  <2>1. /\ UNCHANGED <<config, checkpoint>> /\ reruns' \in {reruns, reruns + 1} /\ mem'.phase = "opened"
    BY <1>1 DEF Open, Idle
  <2>2. (reruns' <= 1 => reruns <= 1) /\ (reruns' = 0 => reruns = 0)
    BY <1>0, <2>1
  <2> QED BY <1>0, <2>1, <2>2 DEF Names, NoRoom, InGeneration
<1>2. CASE ResumeWithMore
  <2>1. /\ UNCHANGED checkpoint /\ config'.kind = config.kind /\ reruns' = reruns + 1 /\ mem'.phase = "opened"
    BY <1>2, NoProcess DEF ResumeWithMore, Idle
  <2>2. (reruns' <= 1 => reruns = 0) /\ reruns' # 0
    BY <1>0, <2>1
  <2>3. reruns = 0 => OneName(emitted') /\ AllOnPlan(emitted', config.kind, checkpoint.batches)
    BY <1>0
  <2> QED BY <2>1, <2>2, <2>3 DEF Names, InGeneration
<1>3. CASE Crash \/ EmitStopped
  <2>1. UNCHANGED <<config, checkpoint, reruns>> /\ mem'.phase = "idle"
    BY <1>3 DEF Crash, EmitStopped, Idle
  <2> QED BY <1>0, <2>1 DEF Names, NoRoom, InGeneration
<1>4. CASE BeginFresh \/ Resume
  <2>1. UNCHANGED <<config, reruns>> /\ checkpoint'.batches = checkpoint.batches /\ mem'.phase = "looping"
    BY <1>4, BeginFreshFacts, ResumeFacts
  <2> QED BY <1>0, <2>1 DEF Names, NoRoom, InGeneration
<1>5. CASE TakeCancel \/ ReachLimit \/ RunOut
  <2>1. UNCHANGED <<config, checkpoint, reruns>> /\ mem'.phase = "stopping"
    BY <1>5, StoppingFacts
  <2> QED BY <1>0, <2>1 DEF Names, NoRoom, InGeneration
<1>6. CASE AskBatch
  <2>1. UNCHANGED <<config, checkpoint, reruns>> /\ mem'.phase = "generating" /\ mem'.points = Proposal
    BY <1>6, AskFacts
  <2>2. Begun(config.kind, checkpoint.batches, config.maxCandidates, Proposal)
    BY <1>6, AskBeginsPlan
  <2> QED BY <1>0, <2>1, <2>2 DEF Names, NoRoom, InGeneration
<1>7. CASE GenerateCandidate \/ Evaluate \/ RecordCandidate
  <2>1. /\ UNCHANGED <<config, checkpoint, reruns, mem.points>> /\ InGeneration /\ mem'.phase # "saving"
    <3>1. CASE GenerateCandidate
      BY <3>1, GenerateFacts DEF InGeneration
    <3>2. CASE Evaluate
      BY <3>2, EvaluateFacts DEF InGeneration
    <3>3. CASE RecordCandidate
      BY <3>3, RecordFacts DEF InGeneration
    <3> QED BY <1>7, <3>1, <3>2, <3>3
  <2>2. Begun(config.kind, checkpoint.batches, config.maxCandidates, mem.points)
    BY <2>1 DEF Names
  <2> QED BY <1>0, <2>1, <2>2 DEF Names, NoRoom
<1>8. CASE CompleteGeneration
  <2>1. /\ UNCHANGED <<config, checkpoint, reruns>> /\ mem.phase = "completing" /\ mem'.phase = "saving"
        /\ mem'.batches[Len(mem'.batches)] = [points |-> mem.points, fitness |-> mem.fitness]
    BY <1>8, CompleteFacts
  <2>2. Newest'.points = mem.points /\ ~ InGeneration'
    BY <2>1 DEF Newest, InGeneration
  <2>3. Begun(config.kind, checkpoint.batches, config.maxCandidates, mem.points)
    BY <2>1 DEF Names, InGeneration
  <2> QED BY <1>0, <2>1, <2>2, <2>3 DEF Names, NoRoom
<1>9. CASE SaveGeneration \/ Stop
  BY <1>9, SaveKeepsNames
<1>10. CASE RequestCancel \/ UNCHANGED vars
  <2>1. UNCHANGED <<config, checkpoint, mem, reruns>>
    BY <1>10 DEF RequestCancel, vars
  <2> QED BY <1>0, <2>1 DEF Names, NoRoom, InGeneration, Newest
<1> QED BY <1>1, <1>2, <1>3, <1>4, <1>5, <1>6, <1>7, <1>8, <1>9, <1>10 DEF Next

(* A version number means one genome (engine.py, next_version and the resume): *)
(* whatever the strategy and however often the process dies, a generation that *)
(* is run again gives its numbers to the points that have them in the log,     *)
(* also when an operator has resumed the search once with another budget.      *)
THEOREM NumbersSurviveCrashes == Spec => []CrashesKeepNumbers
<1> DEFINE Inv == Structure /\ LogInv /\ Budgeted /\ Names
<1>1. Init => Inv
  <2> SUFFICES ASSUME Init PROVE Inv
    OBVIOUS
  <2>1. Structure /\ LogInv /\ Budgeted
    BY InitStructure, InitLog, InitBudget DEF Init
  <2>2. mem.phase = "idle" /\ Named(emitted) = {}
    BY DEF Init, Idle, LogInit, Named
  <2> QED BY <2>1, <2>2 DEF Names, InGeneration, OneName, AllOnPlan
<1>2. Inv /\ [Next]_vars => Inv'
  BY NextKeepsStructure, NextKeepsLog, NextKeepsBudget, NextKeepsNames
<1>3. Inv => CrashesKeepNumbers
  <2> SUFFICES ASSUME Inv, reruns <= 1 PROVE VersionNamesOnePoint
    BY DEF CrashesKeepNumbers
  <2>1. Readable = emitted /\ OneName(emitted)
    BY DEF LogInv, EventsSurvive, Names
  <2>2. \A e \in ToSet(emitted) : e.type \in {"generated", "evaluated"} => \E i \in Named(emitted) : e = emitted[i]
    BY DEF ToSet, Named
  <2> QED BY <2>1, <2>2 DEF VersionNamesOnePoint, OneName
<1> QED BY <1>1, <1>2, <1>3, PTL DEF Spec

=============================================================================

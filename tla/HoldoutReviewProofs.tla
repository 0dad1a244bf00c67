------------------------ MODULE HoldoutReviewProofs ------------------------
(* Proofs about HoldoutReview, for any requests, candidates, experiments and *)
(* measurements.                                                             *)
EXTENDS HoldoutReview, TLAPS

Review == [at : {"measure", "insert", "decide"}, experiment : Experiments, candidate : Candidates,
           evidence : Evidence \cup {Missing}]

Decision == [experiment : Experiments, candidate : Candidates, evidence : Evidence]

\* The requests and decisions, field by field.
RequestsOK ==
  /\ request \in [Requests -> Review \cup {Idle}]
  /\ decisions \subseteq Decision

\* A key that is taken belongs to a review of that candidate and version.
KeysBelong ==
  \A k \in Keys : inserter[k] # Nobody =>
    /\ stored[k] = Missing
    /\ request[inserter[k]].at = "decide"
    /\ KeyOf(inserter[k]) = k

\* The evidence a review carries in the place of the stored measurement is beside it for a reason:
\* nothing was stored, or what was is for another baseline.
Grounded(r) ==
  LET kept == stored[KeyOf(r)]
      evidence == request[r].evidence
      baseline == BaselineOf[request[r].experiment]
  IN /\ request[r].at = "measure" => evidence = Missing \/ (kept = evidence /\ evidence.baseline # baseline)
     /\ request[r].at = "insert" => evidence \in Evidence /\ evidence.baseline = baseline
     /\ request[r].at = "decide" =>
          /\ evidence \in Evidence
          /\ \/ inserter[KeyOf(r)] = r
             \/ kept # Missing /\ (kept.baseline = evidence.baseline => kept = evidence)

\* The inductive invariant.
Inv ==
  /\ TypeOK /\ RequestsOK /\ KeysBelong
  /\ \A r \in Requests : request[r].at # "idle" => Grounded(r)
  /\ StoredMeasurementDecides

-----------------------------------------------------------------------------
\* A review that is under way has an experiment, a candidate and a key.
LEMMA ReviewFields ==
  ASSUME RequestsOK, NEW r \in Requests, request[r].at # "idle"
  PROVE  /\ request[r] \in Review
         /\ KeyOf(r) \in Keys
         /\ KeyOf(r) = <<request[r].candidate, VersionOf[request[r].experiment]>>
         /\ request[r].experiment \in Experiments /\ request[r].candidate \in Candidates
BY DEF RequestsOK, Review, Idle, KeyOf, Keys

\* The first state.
LEMMA InitInv == Init => Inv
BY ReviewAssumption DEF Init, Inv, TypeOK, RequestsOK, KeysBelong, StoredMeasurementDecides, Idle, Review, Decision

\* A step that leaves the table and the decisions alone keeps what is decided.
LEMMA TableUnchanged ==
  ASSUME Inv, UNCHANGED <<stored, decisions>>
  PROVE  StoredMeasurementDecides'
BY DEF Inv, StoredMeasurementDecides

\* A review's step leaves the grounds of the others alone as long as stored measurements stay and
\* they keep the keys they have.
LEMMA OthersGrounded ==
  ASSUME Inv, NEW r \in Requests, NEW s \in Requests, s # r, request'[s] = request[s], request[s].at # "idle",
         \A k \in Keys : stored[k] # Missing => stored'[k] = stored[k],
         \A k \in Keys : inserter[k] = s => inserter'[k] = s
  PROVE  Grounded(s)'
PROOF
<1>1. KeyOf(s)' = KeyOf(s) /\ KeyOf(s) \in Keys
  BY ReviewFields DEF KeyOf, Inv
<1>2. Grounded(s)
  BY DEF Inv
<1>3. request[s].evidence \in Evidence => request[s].evidence # Missing
  BY ReviewAssumption
<1> QED BY <1>1, <1>2, <1>3 DEF Grounded

\* A step of a review that inserts nothing and decides nothing has only its own grounds to keep.
LEMMA QuietStep ==
  ASSUME Inv, NEW r \in Requests, request[r].at # "decide", UNCHANGED <<stored, inserter, decisions>>,
         NEW review \in Review, request' = [request EXCEPT ![r] = review], Grounded(r)'
  PROVE  Inv'
PROOF
<1>1. /\ request'[r] = review
      /\ \A s \in Requests : s # r => request'[s] = request[s]
      /\ request' \in [Requests -> Review \cup {Idle}]
  BY DEF Inv, RequestsOK
<1>2. \A s \in Requests : request'[s].at # "idle" => Grounded(s)'
  BY <1>1, OthersGrounded
<1>3. ASSUME NEW k \in Keys, inserter[k] # Nobody
      PROVE  stored[k] = Missing /\ request'[inserter[k]].at = "decide" /\ KeyOf(inserter[k])' = k
  <2>1. /\ inserter[k] \in Requests /\ inserter[k] # r /\ stored[k] = Missing
        /\ request[inserter[k]].at = "decide" /\ KeyOf(inserter[k]) = k
    BY <1>3 DEF Inv, TypeOK, KeysBelong
  <2>2. request'[inserter[k]] = request[inserter[k]]
    BY <1>1, <2>1
  <2>3. KeyOf(inserter[k])' = KeyOf(inserter[k])
    BY <2>2 DEF KeyOf
  <2> QED BY <2>1, <2>2, <2>3
<1>4. KeysBelong'
  BY <1>3 DEF KeysBelong
<1>5. TypeOK'
  BY <1>1, <1>3 DEF Inv, TypeOK, Review, Idle
<1> QED BY <1>1, <1>2, <1>4, <1>5, TableUnchanged DEF Inv, RequestsOK

\* A review starts with what the lookup found.
LEMMA LookupInv ==
  ASSUME Inv, NEW r \in Requests, Lookup(r)
  PROVE  Inv'
PROOF
<1>1. PICK e \in Experiments, c \in Candidates :
        request' = [request EXCEPT ![r] =
            [at |-> IF Reusable(stored[<<c, VersionOf[e]>>], BaselineOf[e]) THEN "decide" ELSE "measure",
             experiment |-> e, candidate |-> c, evidence |-> stored[<<c, VersionOf[e]>>]]]
  BY DEF Lookup
<1> DEFINE found == stored[<<c, VersionOf[e]>>]
           review == [at |-> IF Reusable(found, BaselineOf[e]) THEN "decide" ELSE "measure",
                      experiment |-> e, candidate |-> c, evidence |-> found]
<1>2. UNCHANGED <<stored, inserter, decisions>> /\ request[r].at = "idle"
  BY DEF Lookup
<1>3. found \in Evidence \cup {Missing}
  BY DEF Keys, Inv, TypeOK
<1>4. review \in Review
  BY <1>3 DEF Review
<1>5. request'[r] = review
  BY <1>1 DEF Inv, RequestsOK
<1>6. KeyOf(r)' = <<c, VersionOf[e]>>
  BY <1>5 DEF KeyOf
<1>7. Grounded(r)'
  <2> HIDE DEF found
  <2> QED BY <1>2, <1>3, <1>5, <1>6 DEF Grounded, Reusable, found
<1> QED BY <1>1, <1>2, <1>4, <1>7, QuietStep

\* A measurement replaces nothing, or what was stored for another baseline.
LEMMA MeasureInv ==
  ASSUME Inv, NEW r \in Requests, Measure(r)
  PROVE  Inv'
PROOF
<1>1. PICK result \in Results :
        request' = [request EXCEPT
         ![r].at = IF request[r].evidence = Missing THEN "insert" ELSE "decide",
         ![r].evidence = [baseline |-> BaselineOf[request[r].experiment], result |-> result]]
  BY DEF Measure
<1> DEFINE review == [request[r] EXCEPT
         !.at = IF request[r].evidence = Missing THEN "insert" ELSE "decide",
         !.evidence = [baseline |-> BaselineOf[request[r].experiment], result |-> result]]
<1>2. UNCHANGED <<stored, inserter, decisions>> /\ request[r].at = "measure"
  BY DEF Measure
<1>3. request[r] \in Review /\ KeyOf(r) \in Keys /\ request[r].experiment \in Experiments
  BY <1>2, ReviewFields DEF Inv
<1>4. [baseline |-> BaselineOf[request[r].experiment], result |-> result] \in Evidence
  BY <1>3 DEF Evidence
<1>5. review \in Review
  BY <1>3, <1>4 DEF Review
<1>6. request' = [request EXCEPT ![r] = review] /\ request'[r] = review
  BY <1>1 DEF Inv, RequestsOK
<1>7. KeyOf(r)' = KeyOf(r)
  BY <1>3, <1>6 DEF KeyOf, Review
<1>8. Grounded(r)
  BY <1>2 DEF Inv
<1>9. Grounded(r)'
  BY <1>2, <1>3, <1>4, <1>6, <1>7, <1>8 DEF Grounded, Review
<1> QED BY <1>2, <1>5, <1>6, <1>9, QuietStep

\* A review that lost the race takes the winner's measurement, or has one for another baseline.
LEMMA LoseInsertInv ==
  ASSUME Inv, NEW r \in Requests, LoseInsert(r)
  PROVE  Inv'
PROOF
<1> DEFINE review == [request[r] EXCEPT !.at = "decide", !.evidence = WinnersMeasurement(r)]
<1>1. /\ UNCHANGED <<stored, inserter, decisions>> /\ request[r].at = "insert"
      /\ stored[KeyOf(r)] # Missing
  BY DEF LoseInsert
<1>2. request[r] \in Review /\ KeyOf(r) \in Keys
  BY <1>1, ReviewFields DEF Inv
<1>3. Grounded(r)
  BY <1>1 DEF Inv
<1>4. stored[KeyOf(r)] \in Evidence
  BY <1>1, <1>2 DEF Inv, TypeOK
<1>5. /\ WinnersMeasurement(r) \in Evidence
      /\ stored[KeyOf(r)].baseline = WinnersMeasurement(r).baseline
           => stored[KeyOf(r)] = WinnersMeasurement(r)
  BY <1>1, <1>3, <1>4 DEF WinnersMeasurement, Reusable, Grounded
<1>6. review \in Review
  BY <1>2, <1>5 DEF Review
<1>7. request' = [request EXCEPT ![r] = review] /\ request'[r] = review
  BY DEF LoseInsert, Inv, RequestsOK
<1>8. KeyOf(r)' = KeyOf(r)
  BY <1>2, <1>7 DEF KeyOf, Review
<1>9. Grounded(r)'
  <2>1. request'[r].at = "decide" /\ request'[r].evidence = WinnersMeasurement(r)
    BY <1>2, <1>7 DEF Review
  <2> QED BY <1>1, <1>5, <1>8, <2>1 DEF Grounded
<1> QED BY <1>1, <1>6, <1>7, <1>9, QuietStep

\* An insert takes a free key for the review's own measurement.
LEMMA InsertInv ==
  ASSUME Inv, NEW r \in Requests, Insert(r)
  PROVE  Inv'
PROOF
<1> DEFINE review == [request[r] EXCEPT !.at = "decide"]
<1>1. /\ UNCHANGED <<stored, decisions>> /\ request[r].at = "insert"
      /\ stored[KeyOf(r)] = Missing /\ inserter[KeyOf(r)] = Nobody
      /\ inserter' = [inserter EXCEPT ![KeyOf(r)] = r]
  BY DEF Insert
<1>2. request[r] \in Review /\ KeyOf(r) \in Keys
  BY <1>1, ReviewFields DEF Inv
<1>3. review \in Review /\ request' = [request EXCEPT ![r] = review]
  BY <1>2 DEF Insert, Inv, RequestsOK, Review
<1>4. /\ request'[r] = review
      /\ \A s \in Requests : s # r => request'[s] = request[s]
      /\ request' \in [Requests -> Review \cup {Idle}]
  BY <1>3 DEF Inv, RequestsOK
<1>5. KeyOf(r)' = KeyOf(r) /\ request'[r].at = "decide" /\ request'[r].evidence = request[r].evidence
  BY <1>2, <1>4 DEF KeyOf, Review
<1>6. /\ inserter' \in [Keys -> Requests \cup {Nobody}]
      /\ inserter'[KeyOf(r)] = r
      /\ \A k \in Keys : k # KeyOf(r) => inserter'[k] = inserter[k]
  BY <1>1, <1>2 DEF Inv, TypeOK
<1>7. Grounded(r)'
  <2>1. request[r].evidence \in Evidence
    BY <1>1 DEF Inv, Grounded
  <2> QED BY <1>5, <1>6, <2>1 DEF Grounded
<1>8. ASSUME NEW s \in Requests, s # r, request'[s].at # "idle"
      PROVE  Grounded(s)'
  <2>1. \A k \in Keys : inserter[k] = s => inserter'[k] = s
    BY <1>1, <1>6, ReviewAssumption
  <2> QED BY <1>1, <1>4, <1>8, <2>1, OthersGrounded
<1>9. ASSUME NEW k \in Keys, inserter'[k] # Nobody
      PROVE  stored[k] = Missing /\ request'[inserter'[k]].at = "decide" /\ KeyOf(inserter[k])' = k
  <2>1. CASE k = KeyOf(r)
    BY <1>1, <1>5, <1>6, <2>1 DEF KeyOf
  <2>2. CASE k # KeyOf(r)
    <3>1. /\ inserter'[k] = inserter[k] /\ inserter[k] \in Requests /\ inserter[k] # r
          /\ stored[k] = Missing /\ request[inserter[k]].at = "decide" /\ KeyOf(inserter[k]) = k
      BY <1>1, <1>6, <1>9, <2>2 DEF Inv, TypeOK, KeysBelong
    <3>2. request'[inserter[k]] = request[inserter[k]]
      BY <1>4, <3>1
    <3>3. KeyOf(inserter[k])' = KeyOf(inserter[k])
      BY <3>1, <3>2 DEF KeyOf
    <3> QED BY <3>1, <3>2, <3>3
  <2> QED BY <2>1, <2>2
<1>10. KeysBelong'
  BY <1>1, <1>9 DEF KeysBelong
<1>11. TypeOK'
  BY <1>1, <1>4, <1>6, <1>9 DEF Inv, TypeOK, Review, Idle
<1> QED BY <1>1, <1>4, <1>7, <1>8, <1>10, <1>11, TableUnchanged DEF Inv, RequestsOK

-----------------------------------------------------------------------------
\* What the end of a review, with a decision or without, does to requests and keys.
LEMMA Released ==
  ASSUME Inv, NEW r \in Requests, request' = [request EXCEPT ![r] = Idle], ReleaseKeys(r)
  PROVE  /\ request' \in [Requests -> Review \cup {Idle}]
         /\ request'[r] = Idle
         /\ \A s \in Requests : s # r => request'[s] = request[s]
         /\ inserter' \in [Keys -> Requests \cup {Nobody}]
         /\ \A k \in Keys : IF inserter[k] = r THEN inserter'[k] = Nobody ELSE inserter'[k] = inserter[k]
BY DEF Inv, RequestsOK, TypeOK, ReleaseKeys, InsertedBy

\* The keys of the others stay theirs when a review ends.
LEMMA ReleasedKeys ==
  ASSUME Inv, NEW r \in Requests, request' = [request EXCEPT ![r] = Idle], ReleaseKeys(r),
         \A k \in Keys : k \notin InsertedBy(r) => stored'[k] = stored[k]
  PROVE  KeysBelong'
PROOF
<1> SUFFICES ASSUME NEW k \in Keys, inserter'[k] # Nobody
             PROVE  stored'[k] = Missing /\ request'[inserter'[k]].at = "decide" /\ KeyOf(inserter[k])' = k
  BY DEF KeysBelong
<1>1. inserter'[k] = inserter[k] /\ inserter[k] # r /\ inserter[k] # Nobody
  BY Released
<1>2. /\ inserter[k] \in Requests /\ k \notin InsertedBy(r)
      /\ stored[k] = Missing /\ request[inserter[k]].at = "decide" /\ KeyOf(inserter[k]) = k
  BY <1>1 DEF Inv, TypeOK, KeysBelong, InsertedBy
<1>3. request'[inserter[k]] = request[inserter[k]]
  BY <1>1, <1>2, Released
<1>4. KeyOf(inserter[k])' = KeyOf(inserter[k])
  BY <1>1, <1>3 DEF KeyOf
<1> QED BY <1>1, <1>2, <1>3, <1>4

\* The others keep their grounds when a review ends.
LEMMA ReleasedGrounds ==
  ASSUME Inv, NEW r \in Requests, request' = [request EXCEPT ![r] = Idle], ReleaseKeys(r),
         \A k \in Keys : stored[k] # Missing => stored'[k] = stored[k]
  PROVE  \A s \in Requests : request'[s].at # "idle" => Grounded(s)'
PROOF
<1> SUFFICES ASSUME NEW s \in Requests, request'[s].at # "idle"
             PROVE  Grounded(s)'
  OBVIOUS
<1>1. s # r
  BY Released DEF Idle
<1>2. request'[s] = request[s] /\ \A k \in Keys : inserter[k] = s => inserter'[k] = s
  BY <1>1, Released
<1> QED BY <1>1, <1>2, OthersGrounded

\* A failed review leaves nothing behind.
LEMMA FailInv ==
  ASSUME Inv, NEW r \in Requests, Fail(r)
  PROVE  Inv'
PROOF
<1>1. UNCHANGED <<stored, decisions>> /\ request' = [request EXCEPT ![r] = Idle] /\ ReleaseKeys(r)
  BY DEF Fail
<1>2. KeysBelong'
  BY <1>1, ReleasedKeys
<1>3. TypeOK'
  BY <1>1, <1>2, Released DEF Inv, TypeOK, KeysBelong, Review, Idle
<1> QED BY <1>1, <1>2, <1>3, Released, ReleasedGrounds, TableUnchanged DEF Inv, RequestsOK

\* A decision rests on the stored measurement, its own included, or on one for another baseline.
LEMMA DecideInv ==
  ASSUME Inv, NEW r \in Requests, Decide(r)
  PROVE  Inv'
PROOF
<1> DEFINE decision == [experiment |-> request[r].experiment, candidate |-> request[r].candidate,
                        evidence |-> request[r].evidence]
<1>1. /\ request[r].at = "decide" /\ decisions' = decisions \cup {decision}
      /\ stored' = [k \in Keys |-> IF k \in InsertedBy(r) THEN request[r].evidence ELSE stored[k]]
      /\ request' = [request EXCEPT ![r] = Idle] /\ ReleaseKeys(r)
  BY DEF Decide
<1>2. /\ request[r] \in Review /\ KeyOf(r) \in Keys
      /\ KeyOf(r) = <<decision.candidate, VersionOf[decision.experiment]>>
  BY <1>1, ReviewFields DEF Inv
<1>3. /\ request[r].evidence \in Evidence
      /\ \/ inserter[KeyOf(r)] = r
         \/ /\ stored[KeyOf(r)] # Missing
            /\ stored[KeyOf(r)].baseline = request[r].evidence.baseline => stored[KeyOf(r)] = request[r].evidence
  BY <1>1 DEF Inv, Grounded
<1>4. decision \in Decision
  BY <1>2, <1>3 DEF Decision, Review
<1>5. \A k \in InsertedBy(r) : stored[k] = Missing /\ k = KeyOf(r)
  BY ReviewAssumption DEF InsertedBy, Inv, KeysBelong
<1>6. /\ \A k \in Keys : stored[k] # Missing => stored'[k] = stored[k]
      /\ \A k \in Keys : k \notin InsertedBy(r) => stored'[k] = stored[k]
      /\ stored' \in [Keys -> Evidence \cup {Missing}]
  BY <1>1, <1>3, <1>5 DEF Inv, TypeOK
<1>7. KeysBelong'
  BY <1>1, <1>6, ReleasedKeys
<1>8. TypeOK'
  <2>1. \A d \in decisions' : d.evidence \in Evidence
    BY <1>1, <1>3 DEF Inv, TypeOK
  <2>2. \A s \in Requests : request'[s].at \in {"idle", "measure", "insert", "decide"}
    <3>1. request' \in [Requests -> Review \cup {Idle}]
      BY <1>1, Released
    <3> QED BY <3>1 DEF Review, Idle
  <2>3. \A k \in Keys : inserter'[k] # Nobody => stored'[k] = Missing /\ request'[inserter'[k]].at = "decide"
    BY <1>7 DEF KeysBelong
  <2>4. inserter' \in [Keys -> Requests \cup {Nobody}]
    BY <1>1, Released
  <2> QED BY <1>6, <2>1, <2>2, <2>3, <2>4 DEF TypeOK
<1>9. stored'[KeyOf(r)] # Missing /\ (stored'[KeyOf(r)].baseline = decision.evidence.baseline
                                        => decision.evidence = stored'[KeyOf(r)])
  <2>1. CASE inserter[KeyOf(r)] = r
    BY <1>1, <1>2, <1>3, <2>1, ReviewAssumption DEF InsertedBy
  <2>2. CASE inserter[KeyOf(r)] # r
    BY <1>2, <1>3, <1>6, <2>2 DEF InsertedBy
  <2> QED BY <2>1, <2>2
<1>10. StoredMeasurementDecides'
  <2> SUFFICES ASSUME NEW d \in decisions'
               PROVE  LET kept == stored'[<<d.candidate, VersionOf[d.experiment]>>]
                      IN kept # Missing /\ (kept.baseline = d.evidence.baseline => d.evidence = kept)
    BY DEF StoredMeasurementDecides
  <2>1. CASE d = decision
    BY <1>2, <1>9, <2>1
  <2>2. CASE d \in decisions
    <3>1. <<d.candidate, VersionOf[d.experiment]>> \in Keys
      BY <2>2 DEF Inv, RequestsOK, Decision, Keys
    <3> QED BY <1>6, <2>2, <3>1 DEF Inv, StoredMeasurementDecides
  <2> QED BY <1>1, <2>1, <2>2
<1> QED BY <1>1, <1>4, <1>6, <1>7, <1>8, <1>10, Released, ReleasedGrounds DEF Inv, RequestsOK

-----------------------------------------------------------------------------
\* Every step preserves the invariant.
LEMMA NextInv ==
  ASSUME Inv, [Next]_vars
  PROVE  Inv'
PROOF
<1>1. CASE Next
  BY <1>1, LookupInv, MeasureInv, InsertInv, LoseInsertInv, DecideInv, FailInv DEF Next, Proceed
<1>2. CASE UNCHANGED vars
  BY <1>2 DEF vars, Inv, TypeOK, RequestsOK, KeysBelong, Grounded, StoredMeasurementDecides, KeyOf, Keys
<1> QED BY <1>1, <1>2

(* The table, the keys and the reviews are well typed, and only a review     *)
(* that is about to commit holds a key, however many reviews run at once.    *)
THEOREM TypeCorrect == Spec => []TypeOK
PROOF
<1>1. Inv => TypeOK
  BY DEF Inv
<1> QED BY <1>1, InitInv, NextInv, PTL DEF Spec

(* The first measurement of a candidate is the one that counts: whoever      *)
(* raced or failed, a decision made for its baseline rests on it             *)
(* (review.py:97-112).                                                       *)
THEOREM FirstMeasurementCounts == Spec => []StoredMeasurementDecides
PROOF
<1>1. Inv => StoredMeasurementDecides
  BY DEF Inv
<1> QED BY <1>1, InitInv, NextInv, PTL DEF Spec
=============================================================================

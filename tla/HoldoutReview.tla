---------------------------- MODULE HoldoutReview ----------------------------
(***************************************************************************)
(* Promotion reviews measure a candidate on the held-out split, where a    *)
(* measurement may come out differently each time, and keep the first one  *)
(* per candidate and dataset version.  Simultaneous reviews are            *)
(* transactions of one database: they read what is committed, and an       *)
(* insert of a key another one has inserted waits for that one to end.     *)
(* What a decision does to statuses is PromotionLifecycle's subject.       *)
(***************************************************************************)
EXTENDS FiniteSets

CONSTANTS Requests, Candidates,
          Experiments,   \* with a completed result
          BaselineOf,    \* the baseline of each
          VersionOf,     \* the dataset version each ran against
          Results,       \* what measuring a candidate against a baseline can give
          Missing, Nobody

VARIABLES stored,    \* holdout_evaluations: the evidence under each key, or Missing
          inserter,  \* the open transaction that has inserted the key
          request,   \* the review of each request
          decisions  \* promotion_decisions: what each rests on

vars == <<stored, inserter, request, decisions>>

Idle == [at |-> "idle"]

\* uq_holdout_once.
Keys == Candidates \X {VersionOf[e] : e \in Experiments}

KeyOf(r) == <<request[r].candidate, VersionOf[request[r].experiment]>>

Evidence == [baseline : {BaselineOf[e] : e \in Experiments}, result : Results]

ASSUME ReviewAssumption ==
  /\ DOMAIN BaselineOf = Experiments /\ DOMAIN VersionOf = Experiments
  /\ Nobody \notin Requests /\ Missing \notin Evidence

Init ==
  /\ stored = [k \in Keys |-> Missing]
  /\ inserter = [k \in Keys |-> Nobody]
  /\ request = [r \in Requests |-> Idle]
  /\ decisions = {}

\* A measurement means nothing for another baseline.
Reusable(evidence, baseline) == evidence # Missing /\ evidence.baseline = baseline

\* The review of a candidate under an experiment finds a measurement it can use, or not.
Lookup(r) ==
  /\ request[r].at = "idle"
  /\ \E e \in Experiments, c \in Candidates :
       LET found == stored[<<c, VersionOf[e]>>]
       IN request' = [request EXCEPT ![r] =
            [at |-> IF Reusable(found, BaselineOf[e]) THEN "decide" ELSE "measure",
             experiment |-> e, candidate |-> c, evidence |-> found]]
  /\ UNCHANGED <<stored, inserter, decisions>>

\* evaluate_on_holdout; the result is to be stored if nothing was when it was looked for.
Measure(r) ==
  /\ request[r].at = "measure"
  /\ \E result \in Results :
       request' = [request EXCEPT
         ![r].at = IF request[r].evidence = Missing THEN "insert" ELSE "decide",
         ![r].evidence = [baseline |-> BaselineOf[request[r].experiment], result |-> result]]
  /\ UNCHANGED <<stored, inserter, decisions>>

\* The key is free: the measurement is inserted, for others to see once this review commits.
Insert(r) ==
  /\ request[r].at = "insert"
  /\ stored[KeyOf(r)] = Missing /\ inserter[KeyOf(r)] = Nobody
  /\ inserter' = [inserter EXCEPT ![KeyOf(r)] = r]
  /\ request' = [request EXCEPT ![r].at = "decide"]
  /\ UNCHANGED <<stored, decisions>>

\* Faulty: a review that lost the race goes on with what it measured itself.
OwnMeasurement(r) == request[r].evidence

\* The unique constraint was violated: the winner's measurement counts, if it was made against the
\* same baseline.
WinnersMeasurement(r) ==
  LET winner == stored[KeyOf(r)]
  IN IF Reusable(winner, BaselineOf[request[r].experiment]) THEN winner ELSE request[r].evidence

LoseInsert(r) ==
  /\ request[r].at = "insert"
  /\ stored[KeyOf(r)] # Missing
  /\ request' = [request EXCEPT ![r].at = "decide", ![r].evidence = WinnersMeasurement(r)]
  /\ UNCHANGED <<stored, inserter, decisions>>

\* Keys a review has inserted, which are everyone's once it commits.
InsertedBy(r) == {k \in Keys : inserter[k] = r}

\* Faulty: the key stays taken.
KeepsKeys(r) == UNCHANGED inserter

ReleaseKeys(r) == inserter' = [k \in Keys |-> IF k \in InsertedBy(r) THEN Nobody ELSE inserter[k]]

\* The gates are applied, and the decision is committed with the measurement.
Decide(r) ==
  /\ request[r].at = "decide"
  /\ decisions' = decisions \cup {[experiment |-> request[r].experiment, candidate |-> request[r].candidate,
                                   evidence |-> request[r].evidence]}
  /\ stored' = [k \in Keys |-> IF k \in InsertedBy(r) THEN request[r].evidence ELSE stored[k]]
  /\ ReleaseKeys(r)
  /\ request' = [request EXCEPT ![r] = Idle]

\* The review fails (too few held-out challenges, an error, a process that dies) and leaves nothing,
\* as in Postgres: in SQLite the measurement is committed when its savepoint is released.
Fail(r) ==
  /\ request[r].at # "idle"
  /\ ReleaseKeys(r)
  /\ request' = [request EXCEPT ![r] = Idle]
  /\ UNCHANGED <<stored, decisions>>

Proceed(r) == Measure(r) \/ Insert(r) \/ LoseInsert(r) \/ Decide(r)

Next == \E r \in Requests : Lookup(r) \/ Proceed(r) \/ Fail(r)

Spec == Init /\ [][Next]_vars

\* A thread that is not waiting for the database gets on with its review; none has to fail.  Strong
\* fairness of an insert: a key that is free again and again is given to everyone who waits.
FairSpec ==
  /\ Spec
  /\ \A r \in Requests : WF_vars(Measure(r)) /\ WF_vars(Decide(r)) /\ SF_vars(Insert(r) \/ LoseInsert(r))

-----------------------------------------------------------------------------
(* Properties *)

\* The types; only a review that is about to commit holds a key, and only of a row that is not there.
TypeOK ==
  /\ stored \in [Keys -> Evidence \cup {Missing}]
  /\ inserter \in [Keys -> Requests \cup {Nobody}]
  /\ \A r \in Requests : request[r].at \in {"idle", "measure", "insert", "decide"}
  /\ \A d \in decisions : d.evidence \in Evidence
  /\ \A k \in Keys : inserter[k] # Nobody => stored[k] = Missing /\ request[inserter[k]].at = "decide"

\* Whoever raced: a decision whose experiment started from the baseline of the stored measurement
\* rests on the stored measurement, so a second look at the held-out split decides nothing.
StoredMeasurementDecides ==
  \A d \in decisions :
    LET kept == stored[<<d.candidate, VersionOf[d.experiment]>>]
    IN kept # Missing /\ (kept.baseline = d.evidence.baseline => d.evidence = kept)

\* Reviews end, however many wait for each other's inserts.
ReviewsEnd == \A r \in Requests : request[r].at # "idle" ~> request[r].at = "idle"
=============================================================================

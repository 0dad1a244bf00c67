------------------------------- MODULE Catalog -------------------------------
(* The rows concurrent requests of the API and the CLI add for one application: *)
(* the versions of its dataset, its experiments and the ranges of candidate     *)
(* version numbers they reserve.  A request that adds rows is one transaction:  *)
(* it reads what is committed when each of its statements runs, does not see    *)
(* its own unsaved rows, and inserts everything when it commits; the database   *)
(* refuses a second application or experiment with the same key and a second    *)
(* dataset row with the same content.  A resume and a run take several sessions *)
(* and write back the configuration they have read in an earlier one.           *)
EXTENDS DatasetVersions, FiniteSetsExt

CONSTANTS
  Requests, Nobody,
  Experiments,    \* experiment ids
  Sizes,          \* max_candidates a create may ask for, and extra candidates of a resume
  Seeds, Batches, \* seeds and numbers of challenges of a dataset request
  DefaultSize,    \* DEFAULT_DATASET_SIZE, what a create generates when there is no dataset
  MaxVersion,     \* bound: dataset versions
  MaxNumber       \* bound: candidate version numbers

ASSUME CatalogAssumption ==
  /\ Nobody \notin Requests
  /\ Sizes \subseteq Nat \ {0} /\ Batches \subseteq Nat \ {0}
  /\ DefaultSize \in Nat \ {0}
  /\ MaxVersion \in Nat \ {0} /\ MaxNumber \in Nat \ {0}

VARIABLES
  rows,         \* dataset_versions
  experiment,   \* experiments: None, or what is reserved and what its checkpoint has evaluated
  newest,       \* the highest version number of a genome that is saved
  application,  \* whether the application and its version 1 are committed
  founder,      \* the request whose flush holds the key of the new application
  request,      \* what each request, resume or run is doing
  given,        \* history: rows that were stored or reported, and what the request had found stored
  saw           \* history: the reservations each experiment's own took into account

vars == <<rows, experiment, newest, application, founder, request, given, saw>>

None == [first |-> 0, reserved |-> 0, evaluated |-> 0]
NoRow == [version |-> 0, parent |-> NoVersion, challenges |-> {}]
Idle == [at |-> "idle"]

Reservation(e) == [of |-> e, first |-> experiment[e].first, reserved |-> experiment[e].reserved]
Created == {e \in Experiments : experiment[e] # None}
NumbersOf(e) == experiment[e].first..(experiment[e].first + experiment[e].reserved - 1)

Latest == {row \in rows : \A other \in rows : other.version <= row.version}
OfVersion(v) == {row \in rows : row.version = v}

Init ==
  /\ rows = {}
  /\ experiment = [e \in Experiments |-> None]
  /\ newest = 1
  /\ application = FALSE
  /\ founder = Nobody
  /\ request = [r \in Requests |-> Idle]
  /\ given = {}
  /\ saw = [e \in Experiments |-> {}]

Becomes(r, state) == request' = [request EXCEPT ![r] = state]

-----------------------------------------------------------------------------
(* Datasets *)

\* The dataset does not exist, or is what the request would create (which it then leaves alone).
Seed(r) ==
  /\ request[r].at = "idle"
  /\ \E seed \in Seeds, n \in Batches :
       LET row == SeedVersion(seed, n)
       IN /\ Latest \subseteq {row}
          /\ Becomes(r, [at |-> "save", op |-> "seed", row |-> row])
  /\ UNCHANGED <<rows, experiment, newest, application, founder, given, saw>>

Evolve(r) ==
  /\ request[r].at = "idle"
  /\ \E current \in Latest, mode \in {"failures", "saturated"}, seed \in Seeds, n \in Batches,
        op \in {"evolve", "evolve from the CLI"} :
       /\ current.version < MaxVersion
       /\ Becomes(r, [at |-> "save", op |-> op, row |-> Evolved(mode, current, seed, n)])
  /\ UNCHANGED <<rows, experiment, newest, application, founder, given, saw>>

\* Faulty: only a row with the same content counts as the version's own.
SameContent(row) == {stored \in rows : stored = row}

Existing(row) == {stored \in rows : stored.version = row.version}

\* The evolve endpoint compares what is stored with what it generated; the others do not.
Conflicts(op, stored, row) == op = "evolve" /\ stored # row

Reported(r, stored) == given' = given \cup {[row |-> request[r].row, found |-> stored]}

\* save_dataset_version: a row with the number is there, or the request's own is added at its commit.
Save(r) ==
  /\ request[r].at = "save"
  /\ IF Existing(request[r].row) = {}
     THEN /\ Becomes(r, [at |-> "insert", row |-> request[r].row,
                         found |-> OfVersion(request[r].row.version)])
          /\ UNCHANGED given
     ELSE \E stored \in Existing(request[r].row) :
            /\ Becomes(r, Idle)
            /\ IF request[r].op # "evolve" \/ Conflicts(request[r].op, stored, request[r].row)
               THEN UNCHANGED given
               ELSE Reported(r, {stored})
  /\ UNCHANGED <<rows, experiment, newest, application, founder, saw>>

\* The commit fails when another request has committed the same content.
Insert(r) ==
  /\ request[r].at = "insert"
  /\ Becomes(r, Idle)
  /\ rows' = rows \cup {request[r].row}
  /\ IF request[r].row \in rows THEN UNCHANGED given ELSE Reported(r, request[r].found)
  /\ UNCHANGED <<experiment, newest, application, founder, saw>>

-----------------------------------------------------------------------------
(* Experiments *)

\* Faulty: the last number of a range is given out again.
ReusedLastNumber == Max({newest + 1} \cup {experiment[e].first + experiment[e].reserved - 1 : e \in Created})

\* The first number behind every saved genome and every range that is reserved.
NextCandidateVersion == Max({newest + 1} \cup {experiment[e].first + experiment[e].reserved : e \in Created})

Create(r) ==
  /\ request[r].at = "idle"
  /\ \E e \in Experiments \ Created, size \in Sizes, seed \in Seeds :
       Becomes(r, [at |-> IF application THEN "reserve" ELSE "found", id |-> e, size |-> size,
                   seeded |-> SeedVersion(seed, DefaultSize)])
  /\ UNCHANGED <<rows, experiment, newest, application, founder, given, saw>>

\* The flush of a new application and its version 1 waits for one that is under way and fails when
\* that one commits.
Found(r) ==
  /\ request[r].at = "found"
  /\ founder = Nobody
  /\ IF application
     THEN Becomes(r, Idle) /\ UNCHANGED founder
     ELSE Becomes(r, [request[r] EXCEPT !.at = "reserve"]) /\ founder' = r
  /\ UNCHANGED <<rows, experiment, newest, application, given, saw>>

\* Looks the dataset up (a new one is generated) and takes the next free candidate numbers.
Reserve(r) ==
  /\ request[r].at = "reserve"
  /\ NextCandidateVersion + request[r].size - 1 <= MaxNumber
  /\ Becomes(r, [at |-> "commit", id |-> request[r].id,
                 row |-> IF rows = {} THEN request[r].seeded ELSE NoRow, found |-> OfVersion(1),
                 range |-> [first |-> NextCandidateVersion, reserved |-> request[r].size, evaluated |-> 0],
                 seen |-> {Reservation(e) : e \in Created}])
  /\ UNCHANGED <<rows, experiment, newest, application, founder, given, saw>>

Duplicate(r) == request[r].id \in Created \/ request[r].row \in rows

Commit(r) ==
  /\ request[r].at = "commit"
  /\ ~Duplicate(r)
  /\ experiment' = [experiment EXCEPT ![request[r].id] = request[r].range]
  /\ rows' = rows \cup ({request[r].row} \ {NoRow})
  /\ application' = TRUE
  /\ saw' = [saw EXCEPT ![request[r].id] = request[r].seen]
  /\ founder' = IF founder = r THEN Nobody ELSE founder
  /\ Becomes(r, Idle)
  /\ IF request[r].row = NoRow THEN UNCHANGED given ELSE Reported(r, request[r].found)
  /\ UNCHANGED newest

\* A duplicate key, a refusal further on (an unusable baseline, domain or setting) or a crash: the
\* transaction is rolled back.
RollBack(r) ==
  /\ request[r].at \in {"reserve", "commit"}
  /\ founder' = IF founder = r THEN Nobody ELSE founder
  /\ Becomes(r, Idle)
  /\ UNCHANGED <<rows, experiment, newest, application, given, saw>>

-----------------------------------------------------------------------------
(* Runs and resumes *)

\* save_experiment always persists the configuration it is passed, with the budget and so the range
\* of numbers in it.
Persist(e, budget, seen) ==
  /\ experiment' = [experiment EXCEPT ![e].reserved = budget]
  /\ saw' = [saw EXCEPT ![e] = seen]

\* A run reads its configuration once, and keeps it.
Load(r) ==
  /\ request[r].at = "idle"
  /\ \E e \in Created :
       Becomes(r, [at |-> "start", id |-> e, budget |-> experiment[e].reserved, seen |-> saw[e]])
  /\ UNCHANGED <<rows, experiment, newest, application, founder, given, saw>>

Searching(e) == \E r \in Requests : request[r].at = "search" /\ request[r].id = e

\* The row says running, and the run takes its lock or is refused.
Start(r) ==
  /\ request[r].at = "start"
  /\ Persist(request[r].id, request[r].budget, request[r].seen)
  /\ Becomes(r, IF Searching(request[r].id) THEN Idle ELSE [request[r] EXCEPT !.at = "search"])
  /\ UNCHANGED <<rows, newest, application, founder, given>>

\* Faulty: one candidate more than the budget.
EvaluatePast(r) ==
  LET e == request[r].id IN
  /\ request[r].at = "search"
  /\ experiment[e].evaluated <= request[r].budget
  /\ experiment' = [experiment EXCEPT ![e].evaluated = @ + 1]
  /\ UNCHANGED <<rows, newest, application, founder, request, given, saw>>

\* Another candidate of the budget the run has read, which the row may have lost since.
Evaluate(r) ==
  LET e == request[r].id IN
  /\ request[r].at = "search"
  /\ experiment[e].evaluated < request[r].budget
  /\ experiment' = [experiment EXCEPT ![e].evaluated = @ + 1]
  /\ UNCHANGED <<rows, newest, application, founder, request, given, saw>>

\* The search is over, the lock let go of, and one of its candidates or the baseline is the best.
End(r) ==
  LET e == request[r].id IN
  /\ request[r].at = "search"
  /\ \E n \in 0..experiment[e].evaluated :
       Becomes(r, [at |-> "record", id |-> e, budget |-> request[r].budget, seen |-> request[r].seen,
                   best |-> IF n = 0 THEN 1 ELSE experiment[e].first + n - 1])
  /\ UNCHANGED <<rows, experiment, newest, application, founder, given, saw>>

\* The result and the best genome are saved; a run that failed saves its failure the same way.
Record(r) ==
  /\ request[r].at = "record"
  /\ Persist(request[r].id, request[r].budget, request[r].seen)
  /\ newest' = Max({newest, request[r].best})
  /\ Becomes(r, Idle)
  /\ UNCHANGED <<rows, application, founder, given>>

Die(r) ==
  /\ request[r].at \in {"start", "search", "record", "check", "raise"}
  /\ Becomes(r, Idle)
  /\ UNCHANGED <<rows, experiment, newest, application, founder, given, saw>>

\* `experiment resume` reads the checkpoint.  The run lock was probed before that, and was free then.
Resume(r) ==
  /\ request[r].at = "idle"
  /\ \E e \in Created, extra \in Sizes :
       LET total == experiment[e].evaluated + extra
       IN /\ experiment[e].first + total - 1 <= MaxNumber
          /\ Becomes(r, [at |-> "check", id |-> e, total |-> total])
  /\ UNCHANGED <<rows, experiment, newest, application, founder, given, saw>>

\* candidate_version_clash: another range starts inside what this one would become.
Clashes(e, total) ==
  \E other \in Created \ {e} :
    experiment[other].first \in experiment[e].first..(experiment[e].first + total - 1)

\* The clash is looked for in one session and the budget saved in another.
CheckClash(r) ==
  LET e == request[r].id IN
  /\ request[r].at = "check"
  /\ Becomes(r, IF Clashes(e, request[r].total) THEN Idle
                ELSE [at |-> "raise", id |-> e, total |-> request[r].total,
                      seen |-> {Reservation(i) : i \in Created \ {e}}])
  /\ UNCHANGED <<rows, experiment, newest, application, founder, given, saw>>

Raise(r) ==
  /\ request[r].at = "raise"
  /\ Persist(request[r].id, request[r].total, request[r].seen)
  /\ Becomes(r, Idle)
  /\ UNCHANGED <<rows, newest, application, founder, given>>

-----------------------------------------------------------------------------
Next ==
  \E r \in Requests :
    \/ Seed(r) \/ Evolve(r) \/ Save(r) \/ Insert(r)
    \/ Create(r) \/ Found(r) \/ Reserve(r) \/ Commit(r) \/ RollBack(r)
    \/ Load(r) \/ Start(r) \/ Evaluate(r) \/ End(r) \/ Record(r) \/ Die(r)
    \/ Resume(r) \/ CheckClash(r) \/ Raise(r)

Spec == Init /\ [][Next]_vars

-----------------------------------------------------------------------------
Steps == {"idle", "save", "insert", "found", "reserve", "commit",
          "start", "search", "record", "check", "raise"}

\* The types; the founder is a request with a transaction open, and nothing exists before the application.
TypeOK ==
  /\ \A row \in rows : row.version \in 1..MaxVersion
  /\ \A e \in Experiments : NumbersOf(e) \subseteq 2..MaxNumber
  /\ \A e \in Created : experiment[e].first + experiment[e].evaluated - 1 \in 1..MaxNumber
  /\ newest \in 1..MaxNumber
  /\ Created # {} => application
  /\ founder # Nobody => ~application /\ request[founder].at \in {"reserve", "commit"}
  /\ \A r \in Requests : request[r].at \in Steps

\* Every version after the first has a parent, the version before it, whose challenges it keeps with
\* the splits they have: held-out challenges never turn into search data under their own id.
VersionsExtendTheirParents ==
  \A row \in rows :
    IF row.version = 1 THEN row.parent = NoVersion
    ELSE /\ row.parent = row.version - 1
         /\ \E parent \in OfVersion(row.parent) : parent.challenges \subseteq row.challenges

\* However often a seed is used again, no id stands twice in a version.
ChallengesCountOnce ==
  \A row \in rows : Cardinality(IdsOf(row.challenges)) = Cardinality(row.challenges)

\* What a request stores, or the evolve endpoint reports, is stored, and stands for its version beside
\* another row only when the two requests raced: neither had found the other's row there.
VersionsForkOnlyWhenConcurrent ==
  /\ \A a \in given : a.row \in rows
  /\ \A a, b \in given : a.row.version = b.row.version /\ a.row # b.row => a.row \notin b.found

Clash(e, f) == e # f /\ NumbersOf(e) \cap NumbersOf(f) # {}

\* Nothing gives an experiment numbers of another whose reservation, as it stands by then, had been
\* looked at when those numbers were checked: numbers clash only when the requests that gave them, or
\* the run that put a budget back, overlapped in time.
NumbersClashOnlyWhenConcurrent ==
  [][\A e, f \in Experiments :
       Clash(e, f)' /\ ~Clash(e, f) /\ experiment'[e] # experiment[e]
         => Reservation(f) \notin saw'[e]]_vars

-----------------------------------------------------------------------------
(* What the repository says of the held-out split, and a repeated seed breaks *)

\* A candidate is never selected on "data the optimizer also searched against" (datasets/holdout.py):
\* no body is held out in a version and searched in it or in a version that extends it.
HeldOutIsNeverSearched ==
  \A row \in rows : \A c, d \in row.challenges :
    c.split = "holdout" /\ d.split = "train" => c.body # d.body
=============================================================================

# A verification development for NeuroForge

TLA+ models of NeuroForge's control logic, the TLC configurations that check them on small
instances, and proofs of their main theorems that TLAPS checks. Paths below are relative to the
repository's root. `PROJECT.json` maps every modelled definition to the lines it stands for.

To check: `tlc -config <cfg> <module>` for a run of the table in section 3, `tlapm <module>` for the
eight `*Proofs` modules.

## 1. The system

NeuroForge evolves the configuration ("genome") of an LLM application. An *experiment* searches for
better genomes from a baseline; a *review* decides on the holdout split whether a candidate is
better; a *canary* simulates traffic; an admin *promotes* the candidate, which makes it the
application's champion and the baseline of the next experiment, or *rolls back*.

| component | state it keeps | operations | what makes it correct |
|---|---|---|---|
| Production lifecycle (`promotion/lifecycle.py`, `db/repository.py`) | approval log, status cache on the genomes, decisions, canary runs, a lock file per application | promote, rollback, review, canary | one champion, replaced only by a genome measured against it; the cache never claims more than the log |
| Runs of an experiment (`experiments/runner.py`, `engine.py`, `checkpoint.py`, `queue.py`, `scripts/worker.py`, run endpoints of `main.py`) | experiment row, checkpoint file, run lock, cancel flag, Redis list, `_ACTIVE_RUNS` | run, start, enqueue, dequeue, cancel, poll, shutdown | one run at a time, nothing lost over crashes, cancel hits the run it was meant for, the row tells the truth |
| Search engine (`engine.py` loop, `budget.py`, `strategy.py`) | generations, incumbent, budget, strategy | ask, evaluate, tell, save, converge | budget not overshot, feasible candidates first, a resume continues the same search |
| Holdout review (`review.py`, `holdout.py`) | stored measurement per genome and dataset version | review | the holdout is measured once, also by concurrent requests |
| Gates and safety (`gates.py`, `safety.py`, `canary.py`) | none | decide | limits are what the config says at zero, negative and boundary values |
| Creation and version numbers (`_create_experiment`, `next_candidate_version`, `save_experiment`) | reserved ranges in the configs | create, raise budget, run | ranges of two experiments overlap only where requests do |
| Datasets (`datasets/*.py`) | versions, splits | seed, evolve | a version extends one of the version before it; a challenge never changes its split; a version has two rows only where requests raced |
| Strategies (`optimization/*.py`) | ask-side and tell-side state | ask, tell, replay | replay restores what ask had |
| Event log (`events.py`) | a JSONL file | emit, load | a torn line costs only itself |
| Authentication (`auth.py`) | token buckets, verified keys | allow, blocked | the limit holds under concurrency and eviction |
| Mutations, genomes and lineage (`mutations/*.py`, `genomes/*.py`) | the store of genomes | propose, derive, add | the store is a tree; a record says what was changed; policy fields never move |
| Statistics (`evaluation/*.py`) | none | compare, score, frontier | the frontier covers every point |
| Domains, providers, CLI, dashboard, infrastructure | none, or presentation | | |

How they interact: the API, the CLI and the worker are separate processes (the API a thread pool
too) that share one database, one state directory (checkpoints, cancel flags, lock files) and one
Redis list. There is no other message passing: every hard behaviour is an interleaving of reads and
writes of that shared state, an advisory `flock` taken too late or released too early, a stale
record in an ORM session, or a process that dies between two writes. `PROJECT.json` lists these
hazards one by one, at the line where each bites, with the properties that would catch it.

## 2. The models

| module | models |
|---|---|
| `ProductionLog` | the approval log and what is replayed from it: stack, champion, baseline |
| `ChampionHistory` | abstract: production is a stack changed one genome at a time, on evidence |
| `PromotionLifecycle` | admins (promote, rollback) and operators (review, canary), one database query per step |
| `SearchHistory` | abstract: one search, its generations appended one at a time, on one dataset version |
| `RunLifecycle` | the executors of one experiment, its clients, evolution of its dataset, crashes, shutdown |
| `Strategies` | the five search strategies: ask, tell, replay, convergence |
| `Gates` | safety limits, metric gates, promotion decision, recommendation, canary rollback |
| `Pareto`, `EventLog` | the frontier of the candidates' chart; the JSONL log with torn tails |
| `UninterruptedSearch` | abstract: generations that a strategy proposes in one go, and the best of them all |
| `SearchEngine` | the search loop of one experiment over crashes, reruns and resumes, composed of the five above |
| `HoldoutReview` | concurrent reviews and the one stored holdout measurement |
| `DatasetVersions`, `Catalog` | how versions are made; concurrent requests that seed, evolve, create and resume |
| `TokenBuckets`, `RateLimiter` | abstract: a bucket per key; the bounded table of lazily refilled buckets |
| `Authentication` | `get_principal` by the API's threads: the cache of verified keys and two `RateLimiter`s |
| `Mutations`, `Lineage` | the mutation operators and their policy; the store of genomes derived by them and by a search |
| `*Proofs` | the theorems of section 5 |
| `MC*` | model values, comparison graphs, finite stand-ins for numeric functions, symmetry |

Operators whose comment begins with "Faulty" are not part of the models: each is a plausible bug
that a property has been seen to catch.

### PromotionLifecycle

`log` is `promotion_approvals`, `status` the column `system_genomes.status`, `decisions` and
`canary` the tables of those names, `lock` the holder of `production_lock`. An admin's request goes
through the phases `waiting`, `locked`, `unpromoted`, `approved`, `canaried`, `validated` (one
precondition of `promote_to_production` each), `reconciling`, `leaving` for a promotion and `waiting`,
`locked`, `planned`, `reconciling`, `leaving` for a rollback. An operator's request reads the status
(`reviewing`, `canarying`) and writes at commit.

- *Visibility.* A query sees what is committed when it runs. SQLite connections are in autocommit
  until the first write, Postgres is READ COMMITTED. The row lock of `_lock_application` adds
  nothing once the `flock` is held, and operators take neither.
- *The ORM.* Sessions neither autoflush nor expire on commit. A column is written only if its new
  value differs from the loaded one, and a query does not refresh a record the session still holds.
  This is why `Advanced` and `CommitEvent` compare with `seen`, and why a rollback (which keeps the
  list of stack records alive) goes on with what it loaded first, while a promotion loads the statuses
  in `Reconcile`.
- *Reconciling.* `reconcile_production_statuses` reads the statuses (`Reconcile`) and the session
  commits later (`CommitEvent`). On Postgres an operator may commit in between. On SQLite the flush
  of the approval (`lifecycle.py` 256, 269) already holds the write lock, so there the two
  steps have no write of another request between them: SQLite's behaviours are some of the model's.
- *Order.* The code orders by `(created_at, id)`. Production changes are serialized, so the log's
  order is its insertion order. Decisions of two concurrent reviews are ordered here by commit.
- *Verdicts.* What a review or canary decides is a nondeterministic Boolean: an experiment may
  start from any genome and may relax its own gates. Every decision has an experiment, so the escape
  for a decision without one is not modelled.
- *Crash.* `AdminCrash` and `OperatorCrash` stand for the end of a process and for any database
  error: the session rolls back and the kernel drops the lock.

### RunLifecycle

`row` is `experiments.status`, `checkpoint` the checkpoint file, `lock` the holder of the run's
`flock`, `flag` the cancel file, `queue` the number of jobs in Redis, `accepted` membership in
`_ACTIVE_RUNS`. Each executor goes through `run_recorded_experiment`, one shared access per step.

- A generation is an element of `batches` that carries the dataset version it was evaluated on.
  Budget, convergence and an exhausted space are nondeterministic stops (`ReachLimit`, `SaveBatch`).
- `_STALE_RUN_SECONDS` is an assumption about time: it is longer than a run needs from writing its
  row to taking the lock. It protects a run that has just *written* its row. A restarted dead run
  finds "running" in its row already, so nothing is written and `updated_at` stays old: that run
  (phase `remarked`) is not protected.
- Two writes with nothing but the writer's own state between them are one step where no other
  process can tell the order: removing a late cancel and saving the final checkpoint
  (`StopSearch`), withdrawing cancel requests and the end of the process (`EndShutdown`).
- One experiment is modelled. The limit of six active runs and the pool's two threads concern
  others; waiting for a thread is the phase `starting`.
- The probe in `/start` is one step; the probe of a status poll is three (take the lock, give it
  back, commit), because its verdict is committed later.

### SearchEngine

`checkpoint` is the checkpoint file, `flag` the cancel file, `mem` the memory of the process that
holds the run lock (`RunLifecycle` shows there is one at most), `lines`, `tail` and `checked` the
event log and `_tail_checked`. `mem.phase` is the place in `ExperimentEngine.run`: `opened` (before
the checkpoint is looked at), `looping` (head of the loop), `generating`, `evaluating`, `evaluated`,
`completing` (about to tell and emit), `saving`, `stopping`, `stopped`. Every write of the checkpoint
and every append to the log is a step of its own, so `Crash` falls between any two, or into an append.

- A point of the search space is a number; the random stream of the seed is a function `Draw` and a
  position in it. What matters for replay is how far each strategy moves that position and which of
  its own state `ask` changes, and that is exact: the grid's cursor, the bandit's pulls and reserved
  arms, the evolutionary population, the Bayesian pool.
- The numeric formulas (`Acquisition`, `Ucb`, `Contenders`, `Breed`) are constants. The properties may
  not depend on which functions they are; TLC uses one of each.
- Metrics are integers in units of 1/`Unit`. `FractionalIncrease` rounds up, which is exact when
  compared with a whole limit (theorem `IncreaseIsExact`). `Score` and `Fitness` round down, where the
  code has floating point: two fitness values may be equal here and not there.
- Wall clock time passes only in evaluations that time out.
- A cancel request is enabled where the loop or the stop will look at the flag next; between those
  two nothing reads it.

### HoldoutReview, Catalog

Requests are transactions that read what is committed and insert at commit. `HoldoutReview!inserter`
is the row of `uq_holdout_once` a savepoint has inserted and not committed: a second insert of the key
waits for it, as in Postgres (in SQLite the second writer waits for the first altogether). `HoldoutReview!Fail` leaves nothing, as
Postgres does. In SQLite the savepoint of `review.py:104` is the outermost one, whose RELEASE commits:
there a review that fails after it leaves its measurement without a decision, and later reviews take that
one. The two properties of the module hold either way.

`Catalog!founder` is the same for the first experiment of an application. A run of `Catalog` is several
sessions: it reads its configuration once (`Load`), and both when it starts (`Start`) and when it is
over (`Record`) `save_experiment` writes that configuration back, with the budget in it (`Persist`).
`experiment resume` is three: it reads the checkpoint (`Resume`), looks for a clash (`CheckClash`) and saves the
new budget (`Raise`). The probe of the run lock at its beginning guards none of them, so runs and other resumes may
come in between, and what is evaluated may be more than what is reserved. `given` and `saw` are
histories kept for the properties: what a dataset request had found stored for the version it then
stored or reported, and which reservations a request had looked at. A generated challenge is a record of the arguments that determine
it, its split a function of the seed and its id (`deterministic_split` hashes exactly these).
What `evaluate_on_holdout` returns is any of `Results`, also twice for the same pair, because a
provider need not be deterministic.

### Authentication

`keyTable` and `failureTable` are the `_buckets` of the two limiters; the order of insertion that
`next(iter(...))` depends on is the relation `older` between their keys, and `Oldest` the key it picks.
`verified` is the dict `_verified` in its order. A request takes the three
locks one after the other, one step each: `Lookup`, `Throttle`, `VerifyStored` or `VerifyUnknown`,
`Spend` or `Fail`. Time is counted in ticks such that a token is `Cost` units and a bucket gains one a
tick. `answer` is the limiter's latest call and what it returned, so that `TokenBuckets` tells `Allow`, which
says yes exactly when it takes a token, from `Look` (`blocked` in the code), which takes none. `known` and
`guesses` are histories; a client is `Uncounted` once a full table has dropped its bucket while failures
were in it. `Requests` is the set of pairs of a client and a key that come, any in the proofs. A full cache
drops its oldest entry also when the key that is remembered is in it already and nothing had to go
(`auth.py:138-139`); the dropped key is only verified again, and `CacheKnowsRecentKeys` asks nothing of
entries that a full cache drops. Hashing, roles and the list of key records are not in the
model: a raw key either has a record or not.

### Mutations, Lineage

A configuration is a function from field paths to values and stands for its own hash; the first
genome's parent is the empty function, which is no configuration. `Drafts` is what
one attempt of `MutationEngine.propose` can come up with, whatever the random stream; the 20 attempts
per candidate are `GiveUp`, which may happen at any time. `MutationEngine` is used by the tests of
the repository and offered to its users; the search itself derives its candidates from points
(`engine.py` 318-363), which is the action `Search`; a point the schema refuses ends a search, so
`Search` is enabled for those it accepts. `Focused` is the code's `focused or op_names`: categories
nobody knows leave every operator in. Generation numbers are left out: they are the
parent's plus one and nothing decides by them.

## 3. What is checked

| run | kind | instance | states | shows |
|---|---|---|---|---|
| `lifecycle` | passes | 3 genomes, 2 admins, 1 operator, 3 events, 3 decisions | 810,897 | what a change read is true when it commits; the cache never overstates production; changes repair what no operator overwrites meanwhile; the pipeline implements `ChampionHistory` |
| `lifecycle_liveness` | passes | 2 genomes, 2 admins, 1 operator | 6,232 | the production lock is always given back |
| `runs` | passes | 1 worker, 1 thread, 1 client, 2 generations, 2 versions, 1 job | 3,590,894 | one run owns the checkpoint; an idle experiment can be started; the checkpoint implements `SearchHistory` |
| `runs_liveness` | passes | 1 thread, 1 caller, 1 client, 1 generation | 297,613 | places in the pool and the run lock are always given back |
| `search` | passes | 5 strategies, batches of 2, 3 candidates in 2 generations, 1 crash, 1 rerun, 2 measurements and a timeout | 917,845 | a search over crashes and resumes implements `UninterruptedSearch`; budget, version numbers, chart, frontier, gates, log |
| `authentication` | passes | 2 threads, 2 clients, 3 keys, table of 1, cache of 2, 3 instants | 761,831 | the cache is neither stale nor forgetful; guesses are bounded; both limiters implement `TokenBuckets` |
| `catalog` | passes | 2 requests, 2 experiments, 2 seeds, 2 versions, numbers up to 4 | 2,804,668 | versions extend one of the version before; a version has two rows, and two experiments a number, only where requests overlapped |
| `lineage` | passes | 13 operators, 12 fields, 2 changes at a time, 2 genomes besides the root | 266,788 | the store is a tree, records explain genomes, policy fields never move |
| `reviews` | passes | 3 requests, 1 candidate, 2 experiments with different baselines, 2 results | 18,771 | the first measurement decides; reviews end |
| `stale_approval` | violated | 1 admin, 1 operator | | finding 1 |
| `resume_past_plateau` | violated | as `search`, 5 candidates in 3 generations | | finding 2 |
| `holdout_leak` | violated | 1 request, 3 versions | | finding 3 |

*Bounds.*

- `lifecycle`: `MaxEvents` and `MaxDecisions` stop new production changes and reviews, never one in
  flight. Three events are enough for a promotion that supersedes another followed by a rollback that
  restores the first; two decisions approve two candidates against the same baseline, or one against
  the other. The third decision is for a stack of three genomes, which is the least with a member that
  a promotion neither adds nor supersedes, and whose status reconciling may so skip. `Bounded` of
  `MCPromotionLifecycle` explores it only where it is of use: each of three reviews approves a genome against the
  one before it, the original comes back in the last one, and one admin at a time is at work. Both
  admins at once are explored with two decisions.
- `runs`: two generations are the least that can disagree on their dataset version, and two versions
  the least that differ. Two executors are enough for every conflict over the lock, which involves a
  holder and a loser.
- `search`: three candidates in batches of two give a full batch and one the budget truncates; the
  rerun asks for one more, which is a third generation after a replay of two. `InitialRandom` is 2, so
  the third generation of a Bayesian search ranks its pool. Patience 1 lets a plateau happen at the
  second generation. `resume_past_plateau` needs three generations, a crash and no rerun. With `MaxReruns`
  2 the properties of `search` hold as well (4,061,275 states, more than a run here should take).
- `authentication`: a table of one bucket for two keys and for two clients is always crowded, so every
  eviction happens, also of a bucket with failures in it: one client sends keys and guesses, the other
  sends none and so fails in the first one's place. A cache of two is full with both keys in it. Time 2 is as long as a key's bucket takes to
  fill and longer than `Ttl`. The view leaves the two `answer`s out, which no step reads; the properties
  about them are of steps. `FailureCapacity` 3 is no multiple of `FailureCost` 2, so a fraction of a token is
  left over, as it is in the code.
- `catalog`: `MaxVersion` 2 lets two requests compute version 2 from version 1 at once; `holdout_leak`
  takes three because two evolutions with one seed are needed. `MaxNumber` 4 leaves room for two
  reservations and one that grows. `Bounded` of `MCCatalog` explores requests about datasets alone and requests
  about experiments beside one version, because they meet in the first version only. `Parity` stands for the hash: neighbouring names get different splits.
- `lineage`: two steps lead away from the root and back to it. The root lies next to the bounds of
  the schema and its prompt is long enough to be simplified.
- `reviews`: a winner and two losers, with the winner's baseline and with another.

Symmetry is used in `lifecycle`, `authentication` and `catalog`, which have no liveness property. Their
state constraints and their view belong to the runs alone: what the runs leave out, the theorems of section 5 cover.
Deadlock is not checked where an instance really stops at its bounds: `search`, `catalog`, `lineage`
and the two runs that use their modules.

*Fairness.* `PromotionLifecycle!FairSpec` asks for weak fairness of an admin's steps: under the lock
a request is straight-line code. Nothing is assumed of operators, of requests being made, or of
*waiting* requests getting the lock. `RunLifecycle!FairSpec` asks for weak fairness of the steps of
a run that has begun: the run lock is tried without blocking, a generation is finite (its evaluation
has a timeout, or is a bounded loop) and the number of generations is `max_batches`. Nothing is
assumed of clients, new runs, crashes or shutdown. `HoldoutReview!FairSpec` asks for weak fairness of
measuring and deciding, and strong fairness of an insert: the database queues the transactions that
wait for a key, so a key that is free again and again does not pass one waiter by for ever. `Fail` is
never required. `SearchEngine` has no liveness property: that its loop ends is `RunsEnd` of
`RunLifecycle`, and here each pass through it adds a generation while `maxBatches` bounds them.

## 4. Findings

1. **A promotion on a rejected comparison.** The approval and the baseline it counts for come from two
   reads of the latest decision. A rejecting review against the current champion that commits
   between them supplies the baseline, the older approval the verdict (`stale_approval`). What still
   holds is `ImplementsHistory`: the genome was approved by *some* review and compared by *some*
   review with what it replaces.
2. **A search continues past its plateau.** The checkpoint is saved before convergence is looked at. If
   the process dies in between, the resumed one evaluates a generation the uninterrupted search does
   not have (`resume_past_plateau`), where `docs/reproducibility.md:50-52` says both reach the same
   state. What still holds is `ImplementsUninterrupted`: that generation is the one the strategy
   would have proposed next.
3. **Held-out challenges turn up in the search split.** A dataset evolved twice with one seed gets copies
   of challenges it has, under new ids, and their split is drawn from the new id (`holdout_leak`).
   What still holds is `VersionsExtendTheirParents` and `ChallengesCountOnce`: no challenge changes its
   split under its own id.

Disagreements with the repository's text that the models have but no run singles out:

- A review or canary that read the status before a promotion of that genome commits overwrites PROMOTED
  (`repository.py:216`, against the comment at 214 and `docs/promotion.md:44-45`). `CacheNeverOverstates`
  shows that the error is one-sided, `ChangesRepairCache` that the next change corrects it, unless it had
  loaded the status before.
- A review moves a rolled-back genome to APPROVED or REJECTED (`repository.py:202`), where
  `docs/promotion.md:61-62` and the name of the test at `tests/test_lifecycle.py:224` say it keeps its
  status.
- Reconciling compares with the statuses its session has loaded (`lifecycle.py:112`) and skips those that
  are as they should be. One that an operator overwrites before the commit stays wrong: after a rollback,
  which loads the stack at its beginning, and on Postgres after a promotion too. The docstring at
  `lifecycle.py:103-106` says the statuses are made to agree with the log, `docs/promotion.md:61` that the
  cache is re-derived after every change. `ChangesRepairCache` states what holds: after a change exactly the
  champion is PROMOTED, and every genome is shown as restorable if it is, but those overwritten after
  they were loaded.
- Two requests that evolve one version, or seed one dataset, at once both miss the SELECT
  (`repository.py:76-82`) and both insert: no constraint is on the pair, only an index (`models.py:57-71`), and the
  content hash that is unique differs. The version then has two rows, and both callers are told of
  theirs, where `repository.py:74` says that a `(dataset_id, version)` pair is one row.
  `VersionsForkOnlyWhenConcurrent` states what holds: neither request had found the other's row.
- `experiment resume` probes the run lock once and saves the new budget two sessions later
  (`cli/main.py:374-400`), and a run writes the configuration it read at its start back over the row
  (`runner.py` 96 and 117, `repository.py:136-139`). A raise made during a run is lost when that run ends, the
  numbers it reserved are given to the next experiment, and a checkpoint may hold more candidates than the row
  allows; the docstring at `repository.py:144-145` says that labels are unique across experiments. Two creates
  or resumes that overlap clash as well, because each reads before the other has written.
  `NumbersClashOnlyWhenConcurrent` states what holds: only what overlapped clashes.
- A run that is refused the lock removes the cancel request of the run that has it (`runner.py:113`,
  against its own comment at 101).
- A status poll that looks between the release of the run lock and the save of the result reports a
  completed run as failed (`main.py:590`; `docs/experimentation.md:44` says a row is reported failed
  when the process died).
- A stored holdout measurement that was made for another baseline is left alone (`review.py:97-99`), so
  every request for the second baseline measures anew, where `docs/promotion.md:75-77` says that a
  repeat request reuses the measurement. `StoredMeasurementDecides` states exactly what holds.
- `experiment resume` may leave less room than the generation had in which a process died
  (`cli/main.py:385`). The search then repeats a part of it, and after another such resume the numbers of
  the rest, which the event log has, go to other points. The candidates' endpoint takes two evaluations
  of one version for the same candidate (`main.py:746-748`), and `engine.py:109-111` names "different
  genomes under one label" as what version numbers are allocated to prevent. TLC shows it as a violation
  of `VersionNamesOnePoint` in `search.cfg` with `MaxReruns` 2. What holds is `CrashesKeepNumbers` (up to
  one such resume a number means one point) and `ChartAgrees` (the later evaluation is the one on record).
- The regression guard (`gates.py:148-155`) refuses nothing that the gates before it let through:
  theorem `GuardNeverDecides`.

## 5. What is proved

**PromotionLifecycle**, for any genomes, admins, operators, comparisons and bounds (assumptions:
`Original` is a genome, `Nobody` is not an admin, comparisons are pairs of genomes):

| theorem | states | inductive invariant |
|---|---|---|
| `TypeCorrect` | `Spec => []TypeOK` | `TypeOK` |
| `ReadsStayCurrent` | `Spec => []ProductionReadsStayCurrent` | `ReadsInv`: types, the lock is held by whoever is between acquire and release (`LockOwnership`), each phase belongs to the action that has it (`ActionsFit`), and the property. Without `LockOwnership` a second admin could change the log between read and commit. |
| `CacheSound` | `Spec => []CacheNeverOverstates` | `CacheInv`: `ReadsInv`, the property, `LoadedFresh` (what a change has loaded before it commits is stale only where an operator has since overwritten a status, and operators never write PROMOTED or SUPERSEDED) and `CandidateUnclaimed` (the genome that is about to be promoted is not shown as PROMOTED) |
| `ChangesRepair` | `Spec => ChangesRepairCache` | `CacheInv`; the new champion is always written, because no change has loaded it as PROMOTED |
| `Implementation` | `Spec => ImplementsHistory` | `HistoryInv`: `ReadsInv` and `EvidenceOnRecord` (decisions are only added, so what a promotion checked stays on record) |
| `StackDistinct` | a replayed stack holds a genome at most once | induction on the log, as a minimal counterexample |

`NobodyElse` is what the lock is worth: whatever somebody else does while a request is past it, the request, the
log and every status shown as in production stay as they are, but for a status an operator overwrites.

The replay of the log is a recursive function; `ReplayDefined` proves that it is the one its equation
describes, from `ReplayExists`. Induction is done by hand, with the least element of a set of naturals
(`NatMin`). `AppendedEvent` then gives the stack of a longer log from the stack of a shorter one, and
the proofs about steps need nothing else of it. `WithoutChampion` is why a rollback pops: in a stack
without repetitions, removing the champion removes the last position only.

**HoldoutReview**, for any requests, candidates, experiments and results (assumptions: every experiment
has a baseline and a version, `Nobody` is not a request, `Missing` is no evidence): `TypeCorrect` and
`FirstMeasurementCounts` (`Spec => []StoredMeasurementDecides`) from the one invariant `Inv`. Besides the
types it says that a taken key belongs to a review of that candidate and version (`KeysBelong`), and
that what a review carries into its decision is `Grounded`: it is the stored measurement, or nothing
is stored yet, or what is stored is for another baseline. Without `Grounded` a review that lost the
race could decide on its own measurement; with it, a step of one review disturbs another only by storing
a measurement, and then only under a key the other does not hold.

**RunLifecycle**, for any workers, threads, callers and clients (assumptions: those sets are disjoint,
`Nobody` and `Prober` are not among them, bounds are naturals): `TypeCorrect`, `OneRunOwnsCheckpoint`
(`SearchOwnsCheckpoint`), `QuietIsStartable` (`QuietMeansStartable`) and `RunsImplementSearch`
(`ImplementsSearch`), all from one invariant, `RunInv`. Besides the types it has `LockHeld` (the run lock is
held exactly by whoever is between opening the checkpoint and the way out), `ProbeHeld` (a status probe that
holds it is one request, which is still there to give it back), `PlaceHeld` (a place in `_ACTIVE_RUNS`
belongs to a thread that has still to give it back) and `SearchSaved` (what a search has in memory is what
is on disk, all of one dataset version). `LockHeld` is what makes `SearchSaved` inductive: the two say
together that nobody else writes the file. `QuietMeansStartable` needs all three of the others.

**RateLimiter**, for any keys and any positive capacity, price and table size (`LimiterConstants`):
`TableCorrect` bounds every bucket and
shows that the keys stand in one order, so that the oldest is well defined, and `LimiterImplementsBuckets` shows `Spec => Buckets!Spec` with the
level of a key as its refilled level and its quiet time as the time since its last refill: a request that is
let through has paid, a look has not. The step
that matters is `RoomForgetsLittle`: making room drops buckets that are full by now, which cannot be told
from new ones, and one more only if as many keys as the table holds have been asked about within the time
a bucket takes to fill (`BusyKeys`). Finiteness of the table is part of the invariant, and
cardinalities come from `FiniteSetTheorems`.

**Authentication**, for any threads, clients, keys and limits (assumptions: threads and clients are
finitely many, the clock is bounded by a natural, stored keys are keys): `AuthInv` says that the cache
holds each key once, until exactly `Ttl` after its *latest* verification, and misses no key it should
know. `KeysAreKnownLongEnough` (`CacheKnowsRecentKeys`) and `NothingStaleIsServed` (`CacheIsNotStale`)
follow. `StoredKeysGetTheirBuckets` and `FailingClientsGetTheirBuckets` lift `LimiterImplementsBuckets`
into the requests: `RateLimiterProofs` is instantiated twice, and every step of a request is at most one
step of each limiter. `GuessesStayBounded` (`GuessesBounded`) rests on `GuessInv`, an account: every guess
is paid for by a token taken since the start, except that all threads may have passed the check on the
same one. It says nothing of a client whose failures a full table has forgotten; a bucket that is dropped
because it is full forgets none.

**Catalog**, for any requests, experiments, seeds and bounds (assumptions: sizes and bounds
are positive): `TypeCorrect`, `VersionsKeepTheirChallenges` (`VersionsExtendTheirParents`),
`IdsStandOnce` (`ChallengesCountOnce`), `ForksAreConcurrent` (`VersionsForkOnlyWhenConcurrent`) and
`ClashesAreConcurrent` (`NumbersClashOnlyWhenConcurrent`) from `CatalogInv`. It says of every request
what it knows and still holds when it commits (`RequestOK`): the row it is about to insert extends a row
that is stored, whoever else has extended it; the range it is about to reserve starts behind every
reservation it has looked at; a budget it is about to raise or to put back (`BudgetOK`) runs into no
reservation that was looked at when it was checked. `GivenOK` says the same of what was stored: whoever stored
or reported a row had found no other in its place, so two rows of one version were each missed by the
other's request. An id carries the suffix of no later version (`ChallengesOK`), which is
why renamed copies never meet ids that are there.

**Lineage**, for every first genome within the schema, every policy, search space and library of
constraints: `TypeCorrect`, `RecordsAreTrue` (`RecordsExplainTheGenome`), `PolicyHolds`
(`PolicyFieldsNeverMove`) and `OneTree` (`LineageIsATree`). `OptionsChange` says of all operators that an
option changes its field and stays within the schema; the invariant adds that every genome but the first
has a stored parent with a smaller version (`FamilyOK`). Versions fall on the way up, so a walk that were
longer than the store would meet a genome twice (`WalkEnds`).

**SearchEngine**, with its strategies, gates, frontier and event log, for any strategy parameters, numeric
formulas, metrics, limits, crashes and reruns (assumptions: sizes and limits are naturals, positive where
the configuration insists on it; scores are not negative). One module, `SearchEngineProofs`, whose
invariants build on each other:

| theorem | states | inductive invariant |
|---|---|---|
| `NoEventIsLost` | `Spec => []EventsSurvive` | `LogInv`: whoever has checked the end of the file found or left no torn tail, so nothing is glued to a fragment |
| `TypeCorrect` | `Spec => []TypeOK` | `Structure`: which parts of a generation are in memory in which phase (`Progress`); memory and checkpoint hold the same history, or memory one generation more (`Histories`); the strategy in memory is the one that went through the history in memory, and perhaps one ask (`Plans`) |
| `BudgetIsKept` | `Spec => []BudgetHolds` | `Budgeted` (what is recorded is paid for, what is asked for is allowed, what is still to be paid leaves the requests within one generation of their limit) and `Counted` (every evaluation in the log is on record, of the generation in hand, or one of the at most `BatchSize` a crash lost) |
| `NumbersSurviveCrashes` | `Spec => []CrashesKeepNumbers` | `Names`: until a rerun every candidate in the log is the recorded one of its number, or the one the strategy plans for that number after the recorded history (`OnPlan`); a generation begins as planned and ends before that only where the candidates run out (`Begun`), and then nothing follows it (`NoRoom`) unless an operator makes room. That is why one change of the budget is harmless and a second is not. |
| `ChartTellsTheStory` | `Spec => []ChartAgrees` | `Story`: every candidate of the history, and every one evaluated of the generation in hand, is the *latest* evaluation of its version in the log. A generation that is run again after a crash covers what the lost one left behind, because it is given the same versions. |
| `SelectedIsPromotable` | `Spec => []SelectedPassesGates` | `Story`, which says of a feasible incumbent that its latest evaluation was feasible; then `FeasiblePassesGates` |
| `FrontierIsComplete` | `Spec => []FrontierCovers` | `Story` (evaluations have outcomes). Domination is transitive and irreflexive on the finitely many versions of the chart, so among those that dominate a point one with the fewest dominators is on the frontier |
| `SearchIsUninterrupted` | `Spec => ImplementsUninterrupted` | `Ranking`: the incumbent in memory is the first of the best of the one on record and the generation in hand, so that `SaveGeneration` is one step of `UninterruptedSearch` and everything else none |

`Plans` is where replay is proved. `ResumeIsContinuation`: a strategy rebuilt from the checkpoint is the one
that went through its generations. `AskAgain`: replaying an ask for as many points as the generation had leaves
a strategy as the ask did that returned them, also where it had asked for more (a grid at its end, a
pool with too few distinct points). The recursive functions (the events of a
file, the candidates and the strategy of a history, the pulls of an ask) are characterised once each, from
a minimal counterexample, and the steps use only how a longer sequence extends a shorter one. What
the random numbers and the numeric formulas are, no proof asks.

**Gates**, in the same module, for every scale, metric and limit (`Unit` is positive): the decisions agree with
each other. `IncreaseIsExact` justifies the integers; `NoViolationNoFinding` says that the penalty of the
search and the gates see the same thing; `FeasiblePassesGates` is what `SelectedIsPromotable` comes
down to; `GuardNeverDecides` and `RecommendationAgrees` compare the decision of a promotion with the
parts it is made of and with the recommendation of a search.

Only model-checked: `LockIsReleased`, `PlaceIsGivenBack`, `RunsEnd` and `ReviewsEnd`. Liveness under fairness
takes ENABLED, which the prover does not handle. Every safety property and every refinement of the passing
runs is a theorem.

## 6. Not modelled

Bootstrap statistics, aggregation and judges, the proposals' numeric formulas, the traffic of a canary
and the domain simulators are floating point functions of a seed. Providers are calls to language
models. Roles, password hashing, configuration, command line output, metrics, dashboard, migrations and
deployment keep no state that these protocols read. The audit table is written after the commit it
records and is read by nobody. The six places for active runs and the two threads of the pool concern
several experiments; one is modelled.

## 7. Plan

1. What makes `UninterruptedSearch` worth more: that two searches with one seed and the same verdicts have the
   same history (`Proposal` is a function of it), stated over two copies of the specification.
2. Lemmas about the strategies that no property of a run states yet: a grid search proposes every point
   once, a bandit never credits an arm it did not pull.
3. The second change of the budget, after which a number may name two points: what of the chart is still
   true then is `ChartTellsTheStory`, which does not ask how often a search was resumed.

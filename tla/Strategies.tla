----------------------------- MODULE Strategies -----------------------------
(***************************************************************************)
(* The five search strategies behind one interface: ask proposes points,   *)
(* tell reports their fitness, replay restores what ask had done when a    *)
(* checkpoint is resumed, converged says when more generations are futile. *)
(*                                                                         *)
(* A point is a number.  The random number generator of the seed is the    *)
(* function Draw and a position in it: one draw stands for all the         *)
(* randomness one operation takes.  A strategy is a record; a kind that    *)
(* has no use for a field leaves it alone.                                 *)
(***************************************************************************)
EXTENDS Integers, SequencesExt

CONSTANTS BatchSize,         \* config.batch_size, also the population of the evolutionary search
          GridSize,          \* points of the grid
          NumArms,           \* n_arms
          AttemptsPerArm,    \* draws per arm before _build_arms gives up (50)
          InitialRandom,     \* n_initial_random
          PoolSize,          \* candidate_pool_size
          Patience,          \* of each kind's plateau
          MinDelta,          \* of each kind's plateau
          Draw,              \* the random numbers of the seed
          Acquisition(_, _), \* expected improvement of a point given what was told
          Ucb(_, _, _),      \* score of an arm: its reward, its pulls, all pulls
          Contenders(_, _),  \* the tournament a draw picks among that many ranks
          Breed(_, _, _)     \* child of two parents: crossover and perturbation

Kinds == {"random", "grid", "evolutionary", "bayesian", "bandit"}

ASSUME StrategyAssumption ==
  /\ {BatchSize, GridSize, NumArms, AttemptsPerArm, InitialRandom, PoolSize} \subseteq Nat \ {0}
  /\ Patience \in [Kinds -> Nat \ {0}]
  /\ MinDelta \in [Kinds -> Nat]

\* n independent samples of the search space.
Sampled(s, n) == [i \in 1..n |-> Draw[s.drawn + i - 1]]

AttemptLimit == NumArms * AttemptsPerArm

\* The distinct points among the first k samples, up to NumArms.
ArmsAfter[k \in Nat] ==
  IF k = 0 THEN << >>
  ELSE IF Len(ArmsAfter[k - 1]) = NumArms \/ Contains(ArmsAfter[k - 1], Draw[k - 1])
       THEN ArmsAfter[k - 1]
       ELSE Append(ArmsAfter[k - 1], Draw[k - 1])

Arms == ArmsAfter[AttemptLimit]

\* Samples _build_arms took: it stops as soon as the pool is full.
ArmSamples == Min({k \in 0..AttemptLimit : Len(ArmsAfter[k]) = NumArms} \cup {AttemptLimit})

Blank == [drawn |-> 0, cursor |-> 0, pending |-> << >>, told |-> << >>, pulls |-> << >>,
          rewards |-> << >>, total |-> 0, reserved |-> << >>, best |-> << >>]

\* get_strategy and the constructors.
NewStrategy(kind) ==
  CASE kind = "evolutionary" -> [Blank EXCEPT !.pending = Sampled(Blank, BatchSize), !.drawn = BatchSize]
    [] kind = "bandit" -> [Blank EXCEPT !.drawn = ArmSamples,
                                        !.pulls = [a \in DOMAIN Arms |-> 0],
                                        !.rewards = [a \in DOMAIN Arms |-> 0]]
    [] OTHER -> Blank

-----------------------------------------------------------------------------
(* ask *)

\* rng.choice: a draw picks a member of a set of numbers.
Picked(S, draw) == SetToSortSeq(S, LAMBDA i, j : i < j)[1 + (draw % Cardinality(S))]

\* The first arm of the highest score.
BestArm(s) ==
  LET Score(a) == Ucb(s.rewards[a], s.pulls[a], s.total)
  IN CHOOSE a \in DOMAIN s.pulls :
       \A b \in DOMAIN s.pulls : Score(a) > Score(b) \/ (Score(a) = Score(b) /\ a <= b)

\* One pull: an arm never played, picked at random, else the best; the pull counts at once.
PullArm(s) ==
  LET unplayed == {a \in DOMAIN s.pulls : s.pulls[a] = 0}
      arm == IF unplayed # {} THEN Picked(unplayed, Draw[s.drawn]) ELSE BestArm(s)
  IN [s EXCEPT !.pulls[arm] = @ + 1,
               !.reserved = Append(@, arm),
               !.drawn = IF unplayed # {} THEN @ + 1 ELSE @]

Pulling(s, n) ==
  LET upTo[i \in 0..n] == IF i = 0 THEN [s EXCEPT !.reserved = << >>] ELSE PullArm(upTo[i - 1])
  IN  upTo

PullArms(s, n) == Pulling(s, n)[n]

\* The samples ask takes, of a strategy that starts at random and then ranks a pool.
PoolDraws(s, n) == IF Len(s.told) < InitialRandom THEN n ELSE PoolSize

\* The distinct points of the pool, the most promising first.
RankedPool(s) ==
  LET pool == ToSet(Sampled(s, PoolSize))
      Ahead(p) == {q \in pool : \/ Acquisition(s.told, q) > Acquisition(s.told, p)
                                \/ Acquisition(s.told, q) = Acquisition(s.told, p) /\ q < p}
  IN [i \in 1..Cardinality(pool) |-> CHOOSE p \in pool : Cardinality(Ahead(p)) = i - 1]

Truncated(points, n) == SubSeq(points, 1, Min({n, Len(points)}))

\* The points ask(n) returns: fewer than n of a short grid, population or pool.
Ask(kind, s, n) ==
  CASE kind = "random" -> Sampled(s, n)
    [] kind = "grid" -> [i \in 1..Min({n, GridSize - s.cursor}) |-> s.cursor + i]
    [] kind = "evolutionary" -> Truncated(s.pending, n)
    [] kind = "bayesian" -> IF Len(s.told) < InitialRandom THEN Sampled(s, n)
                            ELSE Truncated(RankedPool(s), n)
    [] kind = "bandit" -> [i \in 1..n |-> Arms[PullArms(s, n).reserved[i]]]

\* The strategy after ask(n).
AfterAsk(kind, s, n) ==
  CASE kind = "random" -> [s EXCEPT !.drawn = @ + n]
    [] kind = "grid" -> [s EXCEPT !.cursor = @ + Len(Ask(kind, s, n))]
    [] kind = "evolutionary" -> s
    [] kind = "bayesian" -> [s EXCEPT !.drawn = @ + PoolDraws(s, n)]
    [] kind = "bandit" -> PullArms(s, n)

\* Faulty: a resume restores what was told but not the ask-side state.
ReplayNothing(kind, s, n) == s

\* Faulty: the ranked batches of a Bayesian search are replayed as if they had been sampled.
ReplayAsSampled(kind, s, n) ==
  IF kind = "bayesian" THEN [s EXCEPT !.drawn = @ + n] ELSE AfterAsk(kind, s, n)

\* replay_ask(n) for a batch of n points: ask itself, but a Bayesian search draws without ranking.
Replay(kind, s, n) ==
  IF kind = "bayesian" THEN [s EXCEPT !.drawn = @ + PoolDraws(s, n)] ELSE AfterAsk(kind, s, n)

-----------------------------------------------------------------------------
(* tell *)

\* Positions of a generation, the fittest first; sorted() keeps the order of equals.
Ranks(fitness) ==
  SetToSortSeq(DOMAIN fitness, LAMBDA i, j : fitness[i] > fitness[j] \/ (fitness[i] = fitness[j] /\ i < j))

\* Elitism, then children of tournament winners: three draws each.
NextPopulation(s, points, fitness) ==
  LET ranked == [r \in DOMAIN fitness |-> points[Ranks(fitness)[r]]]
      elite == SubSeq(ranked, 1, Max({1, Len(ranked) \div 5}))
      Winner(draw) == ranked[Min(Contenders(Len(ranked), draw))]
      Child(i) == LET d == s.drawn + 3 * (i - 1)
                  IN Breed(Winner(Draw[d]), Winner(Draw[d + 1]), Draw[d + 2])
      children == BatchSize - Len(elite)
  IN [s EXCEPT !.pending = elite \o [i \in 1..children |-> Child(i)], !.drawn = @ + 3 * children]

Told(s, points, fitness) == [s EXCEPT !.told = @ \o [i \in DOMAIN points |-> <<points[i], fitness[i]>>]]

\* tell credits the arms in the order the last ask reserved them.
Rewarded(s, fitness) ==
  LET credited == 1..Min({Len(fitness), Len(s.reserved)})
  IN [s EXCEPT !.rewards = [a \in DOMAIN @ |->
                             @[a] + MapThenSumSet(LAMBDA i : fitness[i], {i \in credited : s.reserved[i] = a})],
               !.total = @ + Cardinality(credited)]

\* The best fitness of each round, or of each point of a grid.
Noted(kind, s, fitness) ==
  [s EXCEPT !.best = IF kind = "grid" THEN @ \o fitness ELSE Append(@, Max(ToSet(fitness)))]

Tell(kind, s, points, fitness) ==
  LET noted == Noted(kind, s, fitness)
  IN CASE kind = "evolutionary" -> NextPopulation(noted, points, fitness)
       [] kind = "bayesian" -> Told(noted, points, fitness)
       [] kind = "bandit" -> Rewarded(noted, fitness)
       [] OTHER -> noted

-----------------------------------------------------------------------------
(* convergence *)

\* The best of the last rounds is not MinDelta better than the best of the rounds before.
Plateau(history, patience, delta) ==
  LET prior == Len(history) - patience
  IN prior >= 1 /\ Max(ToSet(SubSeq(history, prior + 1, Len(history))))
                     - Max(ToSet(SubSeq(history, 1, prior))) < delta

Converged(kind, s) ==
  IF kind = "grid" THEN s.cursor >= GridSize ELSE Plateau(s.best, Patience[kind], MinDelta[kind])

-----------------------------------------------------------------------------
(* Histories of batches *)

Continued(kind, s, b) == Tell(kind, AfterAsk(kind, s, Len(b.points)), b.points, b.fitness)

\* The strategy that was asked for and told each generation of a history, without a break.
Course(kind, batches) ==
  LET upTo[g \in 0..Len(batches)] ==
        IF g = 0 THEN NewStrategy(kind) ELSE Continued(kind, upTo[g - 1], batches[g])
  IN  upTo

StrategyAfter(kind, batches) == Course(kind, batches)[Len(batches)]

Resumed(kind, s, b) == Tell(kind, Replay(kind, s, Len(b.points)), b.points, b.fitness)

\* The strategy rebuilt from the generations of a checkpoint.
Rebuilding(kind, batches) ==
  LET upTo[g \in 0..Len(batches)] ==
        IF g = 0 THEN NewStrategy(kind) ELSE Resumed(kind, upTo[g - 1], batches[g])
  IN  upTo

Replayed(kind, batches) == Rebuilding(kind, batches)[Len(batches)]

CandidatesOf(b) == [i \in 1..Len(b.points) |-> [point |-> b.points[i], fitness |-> b.fitness[i]]]

Listed(candidates, b) == candidates \o CandidatesOf(b)

\* The candidates of a history, in the order of their versions.
Listing(batches) ==
  LET upTo[g \in 0..Len(batches)] == IF g = 0 THEN << >> ELSE Listed(upTo[g - 1], batches[g])
  IN  upTo

Recorded(batches) == Listing(batches)[Len(batches)]

\* candidates_completed.
Candidates(batches) == Len(Recorded(batches))
=============================================================================

---------------------------- MODULE SearchEngine ----------------------------
(***************************************************************************)
(* The search of one experiment: a process opens the checkpoint, runs      *)
(* generation after generation until a limit, a plateau or a cancel stops  *)
(* it, and may die at any point; another one resumes from the checkpoint   *)
(* and the event log.  The run lock admits one process at a time (that is  *)
(* RunLifecycle's subject), so one is enough here.                         *)
(*                                                                         *)
(* An evaluation is one of a few outcomes: the aggregated metrics of a     *)
(* candidate, or a timeout.                                                *)
(***************************************************************************)
EXTENDS Strategies, Gates, Pareto, EventLog

CONSTANTS FirstVersion,      \* config.first_candidate_version
          Measurements,      \* metrics the evaluation of a candidate may end in
          TimeoutLatency,    \* config.evaluation_timeout_seconds
          Baseline,          \* metrics of the baseline on the search split
          Weights,           \* objective weights, in units of 1/Unit
          GateConfig, SafetyLimits, QualityMargin, SafetyMargin, Penalty,
          Challenges,        \* size of the search split
          MaxCandidates, MaxBatches, MaxRequests, MaxCost, MaxMinutes,  \* limits of the config
          ExtraCandidates,   \* what an operator adds to a stopped search
          NoOutcome,
          MaxCrashes,        \* bound: processes that die
          MaxReruns          \* bound: runs of a search that had stopped

ASSUME EngineAssumption ==
  /\ {FirstVersion, Challenges, MaxCandidates, MaxBatches, ExtraCandidates} \subseteq Nat \ {0}
  /\ {MaxRequests, MaxCost, MaxMinutes, Penalty, QualityMargin, SafetyMargin, TimeoutLatency,
      MaxCrashes, MaxReruns} \subseteq Nat
  /\ Measurements \subseteq Metrics /\ \A m \in Measurements : m.cost \in Nat
  /\ Baseline \in Metrics /\ GateConfig \in GateConfigs /\ SafetyLimits \in Limits

VARIABLES config,     \* what of the stored config matters: kind, maxCandidates, maxBatches
          checkpoint, \* the checkpoint file
          flag,       \* the cancel file exists
          mem,        \* memory of the process that runs the search
          crashes, reruns

vars == <<config, checkpoint, flag, mem, crashes, reruns, logVars>>

-----------------------------------------------------------------------------
(* Evaluating and scoring a candidate *)

\* An evaluation that took too long: every challenge failed, with nothing measured but the wait.
TimedOut ==
  [timedOut |-> TRUE,
   metrics |-> [quality |-> 0, safety |-> Unit, compliance |-> Unit, cost |-> 0,
                latency |-> TimeoutLatency, failures |-> Unit]]

\* _evaluate_candidate.
Outcomes == {[timedOut |-> FALSE, metrics |-> m] : m \in Measurements} \cup {TimedOut}

\* What a metric is worth: quality-like ones as they are, resources against twice the baseline's.
Goodness(name, m) ==
  LET scale == CASE name = "failures" -> Unit
                 [] name = "cost" -> Max({1, 2 * Baseline.cost})
                 [] name = "latency" -> Max({1, 2 * Baseline.latency})
                 [] OTHER -> 1
  IN IF name \in {"quality", "safety", "compliance"} THEN m[name]
     ELSE Unit - Min({Unit, (m[name] * Unit) \div scale})

\* ObjectiveSpec.score.
Score(m) == MapThenSumSet(LAMBDA name : Weights[name] * Goodness(name, m), DOMAIN Weights)

\* Weights and scores are not negative.
ASSUME ScoreAssumption == \A o \in Outcomes : Score(o.metrics) \in Nat

SearchViolation(m) ==
  Violation(Baseline, m, SearchGates(GateConfig, QualityMargin),
            Tightened(SafetyLimits, SafetyMargin), PointEstimate(m))

Feasible(o) == ~ o.timedOut /\ SearchViolation(o.metrics) = 0

Fitness(o) ==
  IF o.timedOut THEN 0 ELSE (Score(o.metrics) * Unit) \div (Unit + Penalty * SearchViolation(o.metrics))

\* (feasible, fitness) > (best_feasible, best_fitness)
Better(a, b) == \/ a.feasible /\ ~ b.feasible
                \/ a.feasible = b.feasible /\ a.fitness > b.fitness

NoCandidate == [number |-> 0, feasible |-> FALSE, fitness |-> -1]

-----------------------------------------------------------------------------
(* State *)

NoBudget == [candidates |-> 0, requests |-> 0, cost |-> 0, minutes |-> 0]

Idle == [phase |-> "idle", strategy |-> Blank, batches |-> << >>, budget |-> NoBudget,
         best |-> NoCandidate, next |-> 0, points |-> << >>, generated |-> 0,
         fitness |-> << >>, outcome |-> NoOutcome, cancelled |-> FALSE]

Event(type, version, point, outcome) ==
  [type |-> type, version |-> version, point |-> point, outcome |-> outcome]

Milestone(type) == Event(type, 0, 0, NoOutcome)

Phases == {"idle", "opened", "looping", "generating", "evaluating", "evaluated", "completing",
           "saving", "stopping", "stopped"}

Incumbents == [number : Nat, feasible : BOOLEAN, fitness : Nat \cup {-1}]

IsList(s) == s \in Seq(ToSet(s))

\* A generation in the history has a fitness for each of its points, whatever a point is.
IsHistory(batches) ==
  /\ IsList(batches)
  /\ \A b \in ToSet(batches) :
       /\ b = [points |-> b.points, fitness |-> b.fitness]
       /\ IsList(b.points) /\ b.fitness \in Seq(Nat) /\ Len(b.fitness) = Len(b.points)

Budgets == [candidates : Nat, requests : Nat, cost : Nat, minutes : Nat]

StoredTypeOK ==
  /\ config \in [kind : Kinds, maxCandidates : Nat, maxBatches : Nat]
  /\ checkpoint.status \in {"none", "running", "completed", "cancelled"}
  /\ IsHistory(checkpoint.batches) /\ checkpoint.budget \in Budgets /\ checkpoint.best \in Incumbents
  /\ flag \in BOOLEAN
  /\ crashes \in 0..MaxCrashes /\ reruns \in 0..MaxReruns

MemoryTypeOK ==
  /\ mem.phase \in Phases
  /\ IsHistory(mem.batches) /\ mem.budget \in Budgets /\ mem.best \in Incumbents
  /\ IsList(mem.points) /\ mem.generated \in 0..Len(mem.points) /\ mem.next \in Nat
  /\ mem.fitness \in Seq(Nat) /\ Len(mem.fitness) <= Len(mem.points)
  /\ mem.outcome \in Outcomes \cup {NoOutcome} /\ mem.cancelled \in BOOLEAN

\* The types; a generation never has more fitness values than points, in memory or on disk.
TypeOK == StoredTypeOK /\ MemoryTypeOK

Init ==
  /\ config \in [kind : Kinds, maxCandidates : {MaxCandidates}, maxBatches : {MaxBatches}]
  /\ checkpoint = [status |-> "none", batches |-> << >>, budget |-> NoBudget, best |-> NoCandidate]
  /\ flag = FALSE
  /\ mem = Idle
  /\ crashes = 0 /\ reruns = 0
  /\ LogInit

-----------------------------------------------------------------------------
(* A process starts *)

\* A run of an experiment that has not stopped, or once more of one that has.
Open ==
  /\ mem.phase = "idle"
  /\ IF checkpoint.status \in {"none", "running"} THEN UNCHANGED reruns
     ELSE reruns < MaxReruns /\ reruns' = reruns + 1
  /\ mem' = [Idle EXCEPT !.phase = "opened"]
  /\ OpenLog
  /\ UNCHANGED <<config, checkpoint, flag, crashes>>

CeilDiv(a, b) == (a + b - 1) \div b

\* `experiment resume': room for ExtraCandidates more, in candidates and in generations.
ResumeWithMore ==
  /\ mem.phase = "idle"
  /\ reruns < MaxReruns /\ reruns' = reruns + 1
  /\ config' = [config EXCEPT
       !.maxCandidates = Candidates(checkpoint.batches) + ExtraCandidates,
       !.maxBatches = Max({@, Len(checkpoint.batches) + CeilDiv(ExtraCandidates, BatchSize)})]
  /\ mem' = [Idle EXCEPT !.phase = "opened"]
  /\ OpenLog
  /\ UNCHANGED <<checkpoint, flag, crashes>>

\* No checkpoint: a new search, which has none either until its first generation is over.
BeginFresh ==
  /\ mem.phase = "opened" /\ checkpoint.status = "none"
  /\ Emit(Milestone("created"))
  /\ mem' = [mem EXCEPT !.phase = "looping", !.strategy = NewStrategy(config.kind), !.next = FirstVersion]
  /\ UNCHANGED <<config, checkpoint, flag, crashes, reruns>>

\* A checkpoint: it is marked running, and everything is restored from it.
Resume ==
  /\ mem.phase = "opened" /\ checkpoint.status # "none"
  /\ checkpoint' = [checkpoint EXCEPT !.status = "running"]
  /\ mem' = [mem EXCEPT
       !.phase = "looping",
       !.strategy = Replayed(config.kind, checkpoint.batches),
       !.batches = checkpoint.batches,
       !.budget = checkpoint.budget,
       !.best = checkpoint.best,
       !.next = FirstVersion + Candidates(checkpoint.batches)]
  /\ UNCHANGED <<config, flag, crashes, reruns, logVars>>

-----------------------------------------------------------------------------
(* The loop: may there be another generation? *)

\* The cancel file is looked at first, and consumed.
TakeCancel ==
  /\ mem.phase = "looping" /\ flag
  /\ flag' = FALSE
  /\ mem' = [mem EXCEPT !.phase = "stopping", !.cancelled = TRUE]
  /\ UNCHANGED <<config, checkpoint, crashes, reruns, logVars>>

\* BudgetTracker.exhausted.
Exhausted(budget) ==
  \/ budget.candidates >= config.maxCandidates
  \/ budget.requests >= MaxRequests
  \/ budget.cost >= MaxCost
  \/ budget.minutes >= MaxMinutes

LimitReached == Exhausted(mem.budget) \/ Len(mem.batches) >= config.maxBatches

ReachLimit ==
  /\ mem.phase = "looping" /\ ~ flag
  /\ LimitReached
  /\ mem' = [mem EXCEPT !.phase = "stopping"]
  /\ UNCHANGED <<config, checkpoint, flag, crashes, reruns, logVars>>

\* Faulty: a full batch is asked for, whatever the budget has left.
FullBatch == BatchSize

\* Never more than the budget has left.
BatchToAsk == Min({BatchSize, config.maxCandidates - mem.budget.candidates})

Proposal == Ask(config.kind, mem.strategy, BatchToAsk)

AskBatch ==
  /\ mem.phase = "looping" /\ ~ flag
  /\ ~ LimitReached
  /\ Proposal # << >>
  /\ mem' = [mem EXCEPT !.phase = "generating",
                        !.strategy = AfterAsk(config.kind, @, BatchToAsk),
                        !.points = Proposal]
  /\ UNCHANGED <<config, checkpoint, flag, crashes, reruns, logVars>>

\* The strategy has nothing left to propose.
RunOut ==
  /\ mem.phase = "looping" /\ ~ flag
  /\ ~ LimitReached
  /\ Proposal = << >>
  /\ mem' = [mem EXCEPT !.phase = "stopping"]
  /\ UNCHANGED <<config, checkpoint, flag, crashes, reruns, logVars>>

-----------------------------------------------------------------------------
(* One generation *)

\* The event the process is about to append, if it is about to append one.
NextEvent ==
  CASE mem.phase = "opened" -> Milestone("created")
    [] mem.phase = "generating" ->
         Event("generated", mem.next, mem.points[mem.generated + 1], NoOutcome)
    [] mem.phase = "evaluated" ->
         LET i == Len(mem.fitness) + 1
         IN Event("evaluated", mem.next - Len(mem.points) + i - 1, mem.points[i], mem.outcome)
    [] mem.phase = "completing" -> Milestone("completed")
    [] mem.phase = "stopped" -> Milestone("stopped")

\* The next point becomes a genome with the next version number.
GenerateCandidate ==
  /\ mem.phase = "generating"
  /\ mem.generated < Len(mem.points)
  /\ Emit(NextEvent)
  /\ mem' = [mem EXCEPT !.next = @ + 1, !.generated = @ + 1,
                        !.phase = IF mem.generated + 1 = Len(mem.points) THEN "evaluating" ELSE @]
  /\ UNCHANGED <<config, checkpoint, flag, crashes, reruns>>

\* BudgetTracker.record; a timeout costs time only.
Spent(budget, o) ==
  [candidates |-> budget.candidates + 1,
   requests |-> budget.requests + Challenges,
   cost |-> budget.cost + o.metrics.cost * Challenges,
   minutes |-> IF o.timedOut THEN budget.minutes + 1 ELSE budget.minutes]

\* The next candidate is evaluated and paid for.
Evaluate ==
  /\ mem.phase = "evaluating"
  /\ \E o \in Outcomes :
       mem' = [mem EXCEPT !.phase = "evaluated", !.outcome = o, !.budget = Spent(@, o)]
  /\ UNCHANGED <<config, checkpoint, flag, crashes, reruns, logVars>>

\* Its result is logged, and it may become the incumbent.
RecordCandidate ==
  /\ mem.phase = "evaluated"
  /\ Emit(NextEvent)
  /\ LET evaluated == [number |-> NextEvent.version - FirstVersion + 1,
                       feasible |-> Feasible(mem.outcome), fitness |-> Fitness(mem.outcome)]
     IN mem' = [mem EXCEPT !.best = IF Better(evaluated, @) THEN evaluated ELSE @,
                           !.fitness = Append(@, evaluated.fitness),
                           !.outcome = NoOutcome,
                           !.phase = IF Len(mem.fitness) + 1 = Len(mem.points) THEN "completing"
                                     ELSE "evaluating"]
  /\ UNCHANGED <<config, checkpoint, flag, crashes, reruns>>

\* Faulty: the next generation starts with the fitness values of this one.
KeepingFitness(m) == [m EXCEPT !.points = << >>, !.generated = 0]

WithoutGeneration(m) == [m EXCEPT !.points = << >>, !.generated = 0, !.fitness = << >>]

\* The strategy is told, and the generation is history.
CompleteGeneration ==
  /\ mem.phase = "completing"
  /\ Emit(NextEvent)
  /\ mem' = [WithoutGeneration(mem) EXCEPT !.phase = "saving",
                        !.strategy = Tell(config.kind, @, mem.points, mem.fitness),
                        !.batches = Append(@, [points |-> mem.points, fitness |-> mem.fitness])]
  /\ UNCHANGED <<config, checkpoint, flag, crashes, reruns>>

Saved(status) ==
  [status |-> status, batches |-> mem.batches, budget |-> mem.budget, best |-> mem.best]

\* A plateau counts only once the incumbent satisfies the constraints.
Settled == Converged(config.kind, mem.strategy) /\ mem.best.feasible

SaveGeneration ==
  /\ mem.phase = "saving"
  /\ checkpoint' = Saved("running")
  /\ mem' = [mem EXCEPT !.phase = IF Settled THEN "stopping" ELSE "looping"]
  /\ UNCHANGED <<config, flag, crashes, reruns, logVars>>

-----------------------------------------------------------------------------
(* The end of a run *)

\* A run that was not cancelled removes a cancel request that came too late; the outcome is saved.
Stop ==
  /\ mem.phase = "stopping"
  /\ flag' = (flag /\ mem.cancelled)
  /\ checkpoint' = Saved(IF mem.cancelled THEN "cancelled" ELSE "completed")
  /\ mem' = [mem EXCEPT !.phase = "stopped"]
  /\ UNCHANGED <<config, crashes, reruns, logVars>>

EmitStopped ==
  /\ mem.phase = "stopped"
  /\ Emit(NextEvent)
  /\ mem' = Idle
  /\ UNCHANGED <<config, checkpoint, flag, crashes, reruns>>

Emitting == \/ mem.phase = "opened" /\ checkpoint.status = "none"
            \/ mem.phase \in {"generating", "evaluated", "completing", "stopped"}

\* The process dies, perhaps in the middle of an append.
Crash ==
  /\ mem.phase # "idle"
  /\ crashes < MaxCrashes /\ crashes' = crashes + 1
  /\ \/ checked' = FALSE /\ UNCHANGED <<lines, tail, emitted>>
     \/ Emitting /\ TearEmit(NextEvent)
  /\ mem' = Idle
  /\ UNCHANGED <<config, checkpoint, flag, reruns>>

\* A client cancels an experiment that is, or since a crash seems to be, running.  Only the head of
\* the loop and Stop look at the flag, so a request at another point is one at the next of those.
RequestCancel ==
  /\ ~ flag
  /\ \/ mem.phase \in {"looping", "stopping"}
     \/ mem.phase = "idle" /\ emitted # << >> /\ checkpoint.status \in {"none", "running"}
  /\ flag' = TRUE
  /\ UNCHANGED <<config, checkpoint, mem, crashes, reruns, logVars>>

-----------------------------------------------------------------------------

Next ==
  \/ Open \/ ResumeWithMore \/ BeginFresh \/ Resume
  \/ TakeCancel \/ ReachLimit \/ AskBatch \/ RunOut
  \/ GenerateCandidate \/ Evaluate \/ RecordCandidate \/ CompleteGeneration \/ SaveGeneration
  \/ Stop \/ EmitStopped \/ Crash \/ RequestCancel

Spec == Init /\ [][Next]_vars

-----------------------------------------------------------------------------
(* What a search promises *)

ProposalAfter(kind, batches, n) == Ask(kind, StrategyAfter(kind, batches), n)

Verdict(o) == [fitness |-> Fitness(o), feasible |-> Feasible(o)]

Search == INSTANCE UninterruptedSearch
            WITH kind <- config.kind, batches <- checkpoint.batches, best <- checkpoint.best,
                 Proposal <- ProposalAfter,
                 Verdicts <- {Verdict(o) : o \in Outcomes}
\* The search recorded in the checkpoint is one search: every generation is what the strategy
\* proposes after exactly the generations before it, and the incumbent is the best of all of them,
\* feasible candidates first, however often the process died or was resumed with more budget.
ImplementsUninterrupted == Search!Spec

\* The optimizer physically stops when the budget runs out: no more candidates are on record than
\* allowed, no more are evaluated beyond them than one generation for each process that died, and
\* the limits a generation may overshoot are not overshot by more than that generation.
BudgetHolds ==
  /\ checkpoint.budget.candidates <= config.maxCandidates
  /\ checkpoint.budget.requests < MaxRequests + BatchSize * Challenges
  /\ Cardinality({i \in DOMAIN emitted : emitted[i].type = "evaluated"})
       <= config.maxCandidates + crashes * BatchSize

\* A version number means one genome: no two points are logged under the same number.
VersionNamesOnePoint ==
  LET named == {e \in ToSet(Readable) : e.type \in {"generated", "evaluated"}}
  IN \A e, f \in named : e.version = f.version => e.point = f.point

\* Crashes alone do not break that: a generation that is run again after a crash gives its numbers to
\* the same points, which are in the log already, also when an operator resumes the search once with
\* another budget.  The second time, a generation may be divided differently than when it died.
CrashesKeepNumbers == reruns <= 1 => VersionNamesOnePoint

\* Where a list of events has the evaluations of a version.
EvaluationsOf(version, events) ==
  {i \in DOMAIN events : events[i].type = "evaluated" /\ events[i].version = version}

\* Faulty: the first of several evaluations of a version is shown.
FirstEvaluation(version) == LET events == Readable IN events[Min(EvaluationsOf(version, events))]

\* The chart of an experiment's candidates: the latest evaluation of each version.
LatestEvaluation(version) == LET events == Readable IN events[Max(EvaluationsOf(version, events))]

ChartVersions == {e.version : e \in {f \in ToSet(Readable) : f.type = "evaluated"}}

Chart == [v \in ChartVersions |-> LatestEvaluation(v)]

\* The chart, made from the log, and the progress report, made from the checkpoint, tell one story:
\* every recorded candidate is on the chart with the fitness its search went on with.
ChartAgrees ==
  LET chart == Chart
      recorded == Recorded(checkpoint.batches)
  IN \A i \in DOMAIN recorded :
       LET v == FirstVersion + i - 1
       IN v \in DOMAIN chart
          /\ recorded[i] = [point |-> chart[v].point, fitness |-> Fitness(chart[v].outcome)]

Directions == [quality |-> "maximize", cost |-> "minimize"]

\* A candidate the chart does not show as optimal is dominated by one it does: the frontier is
\* never empty, and ties do not remove each other.
FrontierCovers ==
  LET points == [v \in ChartVersions |-> LatestEvaluation(v).outcome.metrics]
      frontier == Frontier(points, Directions)
  IN \A v \in DOMAIN points \ frontier : \E u \in frontier : Dominates(points[u], points[v], Directions)

\* A candidate that was selected as feasible, with the margins of the search, passes the metric
\* gates the promotion applies, measured on the same evidence.
SelectedPassesGates ==
  checkpoint.best.feasible =>
    LET m == LatestEvaluation(FirstVersion + checkpoint.best.number - 1).outcome.metrics
    IN Findings(Baseline, m, GateConfig, SafetyLimits, PointEstimate(m)) = {}

\* docs/reproducibility.md: an experiment that crashes and is resumed ends in the state of an
\* uninterrupted run.  That run stops at the first plateau with a feasible incumbent, so no
\* generation follows one at which the strategy had converged and a candidate was feasible.
NoGenerationPastPlateau ==
  \A g \in 1..(Len(checkpoint.batches) - 1) :
    LET history == SubSeq(checkpoint.batches, 1, g)
    IN Converged(config.kind, StrategyAfter(config.kind, history)) =>
         \A n \in 1..Candidates(history) : ~ Feasible(LatestEvaluation(FirstVersion + n - 1).outcome)

=============================================================================

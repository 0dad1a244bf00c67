------------------------ MODULE UninterruptedSearch ------------------------
(***************************************************************************)
(* What a search promises: it is one search, whatever becomes of the       *)
(* processes that run it.  Each generation evaluates what the strategy     *)
(* proposes that was asked for, and told, exactly the generations before;  *)
(* the incumbent is the first best candidate of all of them, one that      *)
(* satisfies the constraints before any that does not.                     *)
(***************************************************************************)
EXTENDS Integers, Sequences

CONSTANTS Kinds, BatchSize,
          Proposal(_, _, _), \* what a strategy proposes after a history, asked for a number of points
          Candidates(_),     \* the number of candidates in a history
          Verdicts           \* what an evaluation can find: a fitness, and whether the constraints hold

VARIABLES kind, batches, best

NoCandidate == [number |-> 0, feasible |-> FALSE, fitness |-> -1]

Better(a, b) == \/ a.feasible /\ ~ b.feasible
                \/ a.feasible = b.feasible /\ a.fitness > b.fitness

\* The candidates of a generation, numbered from first.
Numbered(first, verdicts) ==
  {[number |-> first + i - 1, feasible |-> verdicts[i].feasible, fitness |-> verdicts[i].fitness] :
     i \in DOMAIN verdicts}

\* The first of the best: no other is better, and none that is as good has a smaller number.
IsBest(b, all) ==
  b \in all /\ \A c \in all : ~ Better(c, b) /\ (~ Better(b, c) => b.number <= c.number)

Started == kind \in Kinds /\ batches = << >> /\ best = NoCandidate

\* Only the strategy decides the points; n is what the budget had left.
Generation(points, fitness) ==
  /\ points # << >>
  /\ \E n \in 1..BatchSize : points = Proposal(kind, batches, n)
  /\ \E verdicts \in [1..Len(points) -> Verdicts] :
       /\ fitness = [i \in 1..Len(points) |-> verdicts[i].fitness]
       /\ IsBest(best', {best} \cup Numbered(Candidates(batches) + 1, verdicts))
  /\ batches' = Append(batches, [points |-> points, fitness |-> fitness])
  /\ UNCHANGED kind

NextGeneration ==
  /\ Len(batches') = Len(batches) + 1
  /\ LET new == batches'[Len(batches')] IN Generation(new.points, new.fitness)

Spec == Started /\ [][NextGeneration]_<<kind, batches, best>>
=============================================================================

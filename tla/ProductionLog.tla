--------------------------- MODULE ProductionLog ---------------------------
(***************************************************************************)
(* The approval log of one application (table promotion_approvals) and     *)
(* what is replayed from it: the production stack, the champion, and the   *)
(* baseline the next experiment is measured against.                       *)
(* Source: promotion/lifecycle.py, production_stack .. original_baseline.  *)
(*                                                                         *)
(* The log is append-only and read in insertion order; an application has  *)
(* exactly one version-1 genome, Original, for as long as it exists.       *)
(***************************************************************************)
EXTENDS Naturals, Sequences

CONSTANTS Genomes,    \* the hashes of the application's genomes
          Original    \* its version-1 genome: what runs when nothing is promoted

ASSUME OriginalAssumption == Original \in Genomes

Event == [action : {"promote", "rollback"}, genome : Genomes]

(***************************************************************************)
(* stack = [g for g in stack if g.hash != genome.hash].  A stack holds a   *)
(* genome at most once (theorem StackDistinct), so the comprehension drops *)
(* one position or none.                                                   *)
(***************************************************************************)
Occurs(g, stack) == \E k \in 1..Len(stack) : stack[k] = g

DropAt(stack, k) ==
  [i \in 1..(Len(stack) - 1) |-> IF i < k THEN stack[i] ELSE stack[i + 1]]

Without(stack, g) ==
  IF Occurs(g, stack)
  THEN DropAt(stack, CHOOSE k \in 1..Len(stack) : stack[k] = g)
  ELSE stack

\* The body of the replay loop: every event removes its genome, a promotion pushes it.
ReplayEvent(stack, e) ==
  IF e.action = "promote"
  THEN Append(Without(stack, e.genome), e.genome)
  ELSE Without(stack, e.genome)

\* The stack after each prefix of the log.
Replay(log) ==
  LET after[n \in 0..Len(log)] ==
        IF n = 0 THEN << >> ELSE ReplayEvent(after[n - 1], log[n])
  IN  after

\* Genomes in production or restorable, oldest first; the last is the champion.
ProductionStack(log) == Replay(log)[Len(log)]

\* current_champion(...) or original_baseline(...): what production runs now.
BaselineOf(stack) == IF stack = << >> THEN Original ELSE stack[Len(stack)]

IsChampion(g, stack) == stack # << >> /\ stack[Len(stack)] = g

Distinct(stack) ==
  \A i, j \in 1..Len(stack) : stack[i] = stack[j] => i = j
=============================================================================

------------------------ MODULE MCPromotionLifecycle ------------------------
(* Small instances of PromotionLifecycle for TLC. *)
EXTENDS PromotionLifecycle, FiniteSets, TLC

CONSTANTS orig, a, b, x, y, o, nobody

\* Two challengers, each measured against the original and against the other.
Challenges == {<<a, orig>>, <<b, orig>>, <<a, b>>, <<b, a>>}

\* They, and the original come back against either.
Comebacks == Challenges \cup {<<orig, a>>, <<orig, b>>}

\* One challenger, for the liveness run.
FirstChallenge == {<<a, orig>>}

\* The decisions, with the one a review is about to make.
Foreseen ==
  LET r == operator[o]
  IN  IF r.phase = "reviewing"
      THEN Append(decisions, [genome |-> r.genome, base |-> r.base, approved |-> r.good])
      ELSE decisions

\* Each genome is approved against the one before it, and all three are.
Succession(reviews) ==
  /\ \A i \in 1..3 : reviews[i].approved /\ reviews[i].base = (IF i = 1 THEN orig ELSE reviews[i - 1].genome)
  /\ {reviews[i].genome : i \in 1..3} = {orig, a, b}

\* Two admins are explored over two decisions about the challengers; a third decision only as the
\* comeback of the original, by which the stack holds three genomes, and with one admin at a time.
Bounded ==
  /\ Len(Foreseen) = 3 =>
       Succession(Foreseen) /\ Cardinality({m \in Admins : admin[m].phase # "idle"}) <= 1
  /\ \/ Len(Foreseen) = 3
     \/ /\ \A i \in 1..Len(Foreseen) : Foreseen[i].genome # orig
        /\ canary[orig] = "none" /\ (operator[o].phase = "canarying" => operator[o].genome # orig)

Symmetry == Permutations({a, b}) \cup Permutations({x, y})
=============================================================================

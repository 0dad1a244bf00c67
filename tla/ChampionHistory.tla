-------------------------- MODULE ChampionHistory --------------------------
(***************************************************************************)
(* What the production lifecycle of one application promises, whoever      *)
(* calls it and however the calls overlap (docs/adr/0015): production is a *)
(* stack that changes one genome at a time.  A promotion pushes a genome   *)
(* that was approved at some point and that was measured against the very  *)
(* genome it replaces; a rollback pops the champion and nothing else.      *)
(***************************************************************************)
EXTENDS ProductionLog

VARIABLES stack,      \* genomes in production or restorable, oldest first
          approved,   \* genomes that were ever approved by a review
          measured    \* pairs <<candidate, baseline>> ever compared by a review

vars == <<stack, approved, measured>>

Init ==
  /\ stack = << >>
  /\ approved = {}
  /\ measured = {}

Review(g, b, verdict) ==
  /\ measured' = measured \cup {<<g, b>>}
  /\ approved' = IF verdict THEN approved \cup {g} ELSE approved
  /\ UNCHANGED stack

Promote(g) ==
  /\ g \in approved
  /\ <<g, BaselineOf(stack)>> \in measured
  /\ stack' = Append(Without(stack, g), g)
  /\ UNCHANGED <<approved, measured>>

Rollback ==
  /\ stack # << >>
  /\ stack' = SubSeq(stack, 1, Len(stack) - 1)
  /\ UNCHANGED <<approved, measured>>

Next ==
  \/ \E g, b \in Genomes, verdict \in BOOLEAN : Review(g, b, verdict)
  \/ \E g \in Genomes : Promote(g)
  \/ Rollback

Spec == Init /\ [][Next]_vars
=============================================================================

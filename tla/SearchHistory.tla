--------------------------- MODULE SearchHistory ---------------------------
(***************************************************************************)
(* What the checkpoint of one experiment promises, whoever runs it and     *)
(* however often a run is cancelled, fails or dies (docs/adr/0008): its    *)
(* generations are added one at a time and never lost, and all of them     *)
(* were evaluated on the dataset version the search started on.            *)
(***************************************************************************)
EXTENDS Naturals, Sequences

CONSTANT Versions     \* versions of the experiment's dataset

VARIABLE history      \* the dataset version of each generation, oldest first

Init == history = << >>

Generation(v) ==
  /\ history # << >> => v = history[1]
  /\ history' = Append(history, v)

Next == \E v \in Versions : Generation(v)

Spec == Init /\ [][Next]_history
=============================================================================

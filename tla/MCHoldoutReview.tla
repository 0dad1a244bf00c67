--------------------------- MODULE MCHoldoutReview ---------------------------
(* Values of the constants of HoldoutReview for TLC. *)
EXTENDS HoldoutReview, TLC

CONSTANTS e1, e2, champion, challenger

\* Two experiments on the same dataset version that started from different baselines.
MCBaselines == e1 :> champion @@ e2 :> challenger

MCVersions == [e \in Experiments |-> 1]
=============================================================================

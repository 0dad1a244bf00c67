-------------------------- MODULE MCAuthentication --------------------------
(* A small instance of Authentication for TLC: one client sends the stored keys *)
(* and guesses, another sends no key and so makes failures of its own, which a  *)
(* table of one bucket keeps in the place of the first one's.                   *)
EXTENDS Authentication, TLC

CONSTANTS t1, t2

Symmetry == Permutations({t1, t2})

FewRequests ==
  {<<"client", "k1">>, <<"client", "k2">>, <<"client", "guess">>, <<"other", NoKey>>}

\* All but the latest answers, which no step reads.
View == <<now, keyTable, failureTable, verified, request, known, guesses>>
=============================================================================

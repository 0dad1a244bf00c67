--------------------------- MODULE MCRunLifecycle ---------------------------
(* Small instances of RunLifecycle for TLC. *)
EXTENDS RunLifecycle

CONSTANTS w, t, c, p, nobody, prober
=============================================================================

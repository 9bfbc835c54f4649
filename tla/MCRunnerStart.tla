--------------------------- MODULE MCRunnerStart ---------------------------
(* Instances of RunnerStart for TLC. *)
EXTENDS RunnerStart
=============================================================================

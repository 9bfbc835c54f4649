-------------------------- MODULE MCScheduledRuns --------------------------
(* An instance of ScheduledRuns for TLC. *)
EXTENDS ScheduledRuns

(* Two slots closer to each other than a slot stays due, and a later one. *)
ThreeSlots == {1, 2, 4}
=============================================================================

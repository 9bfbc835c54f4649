---------------------------- MODULE SlotService ----------------------------
(***************************************************************************)
(* What a schedule owes to its slots, the moments at which it is due.  A   *)
(* slot is served at most once.  One that comes while an earlier run is    *)
(* still going on may be kept for later, and what is kept is served.       *)
(***************************************************************************)
CONSTANT Slots
VARIABLE slots

Init == slots = [x \in Slots |-> "open"]

Keep(x) == slots[x] = "open" /\ slots' = [slots EXCEPT ![x] = "kept"]

Serve(x) == slots[x] \in {"open", "kept"} /\ slots' = [slots EXCEPT ![x] = "served"]

Next == \E x \in Slots : Keep(x) \/ Serve(x)

(* An open slot may pass unserved: the worker was down, or too late for it. *)
Spec ==
    /\ Init /\ [][Next]_slots
    /\ \A x \in Slots : WF_slots(slots[x] = "kept" /\ Serve(x))
=============================================================================

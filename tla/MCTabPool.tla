------------------------------ MODULE MCTabPool ------------------------------
(* Instances of TabPool for TLC. *)
EXTENDS TabPool

CONSTANTS c1, c2, c3, a1, a2, t1, t2, t3

(* Two callers of one account, one of which closes its pages, and a caller   *)
(* of another account.                                                       *)
TwoAccounts ==
    [x \in Callers \cup Tabs |-> IF x \in {c3, t3} THEN a2 ELSE a1]
=============================================================================

---------------------------- MODULE MCMergeQueue ----------------------------
(* Instances of MergeQueue for TLC: who the threads are and what they do. *)
EXTENDS MergeQueue

CONSTANTS a, b, c

Three == {a, b, c}
AC == {a, c}
Own == [t \in Three |-> t]
AllDirect == [t \in Three |-> "direct"]
AllInline == [t \in Three |-> "inline"]

(* A heartbeat pass over a's runner, an inline merge and a direct one. *)
Forced == (a :> "inline") @@ (b :> "heartbeat") @@ (c :> "direct")

(* A retry-merge command for a runner whose inline merge is under way, and *)
(* a manual merge.                                                         *)
Retried == (a :> "inline") @@ (b :> "retry") @@ (c :> "manual")

(* Threads a and b work for the same runner. *)
Shared == [t \in Three |-> IF t = b THEN a ELSE t]
=============================================================================

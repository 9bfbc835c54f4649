-------------------------- MODULE MCMergeLifecycle --------------------------
(* Instances of MergeLifecycle for TLC: which threads there are.  A thread *)
(* is named after its job.                                                 *)
EXTENDS MergeLifecycle

Automatic == {"stream", "monitor", "recover", "heartbeat", "direct"}
Restarted == {"stream", "monitor", "recover"}
Commanded == {"stream", "retry", "approved", "resolve", "poll"}

Named == [t \in Threads |-> t]

(* What the plan-runner process leaves in merge_status: nothing when it    *)
(* has not begun to merge, or else the verdict of its own merge.           *)
Unmerged == {"none", "approval_required", "error"}
=============================================================================

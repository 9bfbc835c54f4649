----------------------------- MODULE MergeState -----------------------------
(***************************************************************************)
(* The merge state model of a runner: which statuses there are, which of   *)
(* them end a merge, and who may replace which.  Pure definitions, from    *)
(* scripts/plan_runner/_dr_merge_state.py.                                 *)
(***************************************************************************)

TERMINAL == {"merged", "error", "approval_required", "conflict", "test_failed",
             "precheck_failed", "needs_resolve_continuation",
             "residue_blocked", "push_required"}

ACTIVE == {"pre_merge", "queued", "merging", "pending_merge", "resolving",
           "testing", "fixing"}

APPROVAL == {"approval_required"}

RETRYABLE == TERMINAL \ {"merged", "residue_blocked"}

(* "none" is a runner without a merge_status key. *)
Statuses == {"none"} \cup ACTIVE \cup TERMINAL

Actions == {"inline-merge", "retry-merge", "direct-merge", "approved-retry"}

(* A matrix that lets an unapproved retry through. *)
OverridableByRetry(action) ==
    IF action = "inline-merge" THEN {} ELSE RETRYABLE

(* The terminal statuses an action may replace. *)
Overridable(action) ==
    CASE action \in {"inline-merge", "retry-merge"} -> {}
      [] action = "direct-merge" -> RETRYABLE \ APPROVAL
      [] action = "approved-retry" -> RETRYABLE

(* Every transition is as good as any other. *)
AllowedAlways(from, to, action) == TRUE

(* is_transition_allowed. *)
Allowed(from, to, action) ==
    \/ from \in {"none", to}
    \/ from \notin TERMINAL
    \/ from \in Overridable(action)
=============================================================================
